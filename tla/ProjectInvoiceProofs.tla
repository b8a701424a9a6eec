------------------------- MODULE ProjectInvoiceProofs -------------------------
(***************************************************************************)
(* Invoices for any number of rows, requests in flight and failures.  With *)
(* requests that overlap: numbers are handed out in sequence while no      *)
(* invoice is deleted, and balances are kept while none is edited.  With   *)
(* requests that do not: the amount paid is the sum of the payments, the   *)
(* status tells how much is paid, and a milestone follows its invoice.     *)
(***************************************************************************)
EXTENDS ProjectInvoice, SumLemmas

-----------------------------------------------------------------------------
(* Type correctness *)

(* The initial tables and slots are well typed.                            *)
LEMMA TypeInit == Init => ControlTypeOK
BY RowsAssumption DEF Init, ControlTypeOK, NoInvoice, NoLocals, InvoiceRows, Locals, InvoiceStatuses,
   Gone, Labels, LocalsSet, HasAmounts, HasInvoice, HasMilestone

(* A slot that moves keeps the slots well typed when its new locals fit    *)
(* its new label.                                                          *)
LEMMA GotoType ==
  ASSUME ControlTypeOK, NEW w \in Requests, NEW label \in Labels, NEW locals \in Locals, NEW amounts,
         Goto(w, label, locals, amounts),
         label \in HasInvoice => locals.iid # Null /\ locals.row.status \notin Gone,
         label \in HasMilestone => locals.mid # Null,
         label \in {"dp_sum", "dp_commit"} => locals.pid # Null
  PROVE  /\ pc' \in [Requests -> Labels]
         /\ loc' \in [Requests -> Locals]
         /\ \A v \in Requests : LocalsSet(v)'
<1>1. pc' = [pc EXCEPT ![w] = label] /\ loc' = [loc EXCEPT ![w] = locals]
  BY DEF Goto
<1>2. pc' \in [Requests -> Labels] /\ loc' \in [Requests -> Locals]
  BY <1>1 DEF ControlTypeOK
<1>3. ASSUME NEW v \in Requests PROVE LocalsSet(v)'
  <2>1. CASE v = w
    BY <1>1, <2>1 DEF ControlTypeOK, LocalsSet
  <2>2. CASE v # w
    BY <1>1, <2>2 DEF ControlTypeOK, LocalsSet
  <2>3. QED
    BY <2>1, <2>2
<1>4. QED
  BY <1>2, <1>3

(* A handler that ends leaves the slots well typed.                        *)
LEMMA FinishType ==
  ASSUME ControlTypeOK, NEW w \in Requests, Finish(w)
  PROVE  /\ pc' \in [Requests -> Labels]
         /\ loc' \in [Requests -> Locals]
         /\ \A v \in Requests : LocalsSet(v)'
<1>1. NoLocals \in Locals /\ "idle" \in Labels
  BY DEF NoLocals, NoInvoice, Locals, InvoiceRows, Gone, Labels
<1>2. "idle" \notin HasInvoice \cup HasMilestone \cup {"dp_sum", "dp_commit"}
  BY DEF HasInvoice, HasMilestone
<1>3. Goto(w, "idle", NoLocals, NoCash)
  BY DEF Finish
<1>4. QED
  BY <1>1, <1>2, <1>3, GotoType

(* A request that reads its invoice carries a row that exists.             *)
LEMMA ReadInvoiceType ==
  ASSUME ControlTypeOK, NEW w \in Requests, NEW i, NEW label \in HasInvoice, NEW pid \in Payments \cup {Null},
         NEW amounts, ReadInvoice(w, i, label, pid, amounts),
         label \in {"dp_sum", "dp_commit"} => pid # Null
  PROVE  ControlTypeOK'
<1> DEFINE locals == [NoLocals EXCEPT !.iid = i, !.pid = pid, !.row = invoices[i]]
<1>1. i \in Invoices /\ i # Null /\ invoices[i] \in InvoiceRows /\ invoices[i].status \notin Gone
  BY RowsAssumption DEF ReadInvoice, InvoiceExists, ControlTypeOK
<1>2. locals \in Locals
  BY <1>1 DEF NoLocals, Locals
<1>3. locals.iid = i /\ locals.row = invoices[i] /\ locals.pid = pid
  BY DEF NoLocals
<1>4. label \in Labels /\ label \notin HasMilestone
  BY DEF Labels, HasInvoice, HasMilestone
<1>5. Goto(w, label, locals, [amounts EXCEPT !.was = money[i]])
  BY DEF ReadInvoice
<1>6. UNCHANGED <<invoices, nextNumber>>
  BY DEF ReadInvoice, Database
<1> HIDE DEF locals
<1>7. /\ pc' \in [Requests -> Labels]
      /\ loc' \in [Requests -> Locals]
      /\ \A v \in Requests : LocalsSet(v)'
  BY <1>1, <1>2, <1>3, <1>4, <1>5, GotoType
<1>8. QED
  BY <1>6, <1>7 DEF ControlTypeOK

(* Requests that arrive.                                                   *)
LEMMA ArriveType ==
  ASSUME ControlTypeOK, NEW w \in Requests, Arrive(w)
  PROVE  ControlTypeOK'
<1>1. ASSUME NEW locals \in Locals, NEW label \in {"create_commit", "gen_number", "um_write", "dm_write"},
             NEW amounts, label # "create_commit" => locals.mid # Null,
             Goto(w, label, locals, amounts), UNCHANGED Database
      PROVE  ControlTypeOK'
  <2>1. label \in Labels /\ label \notin HasInvoice \cup {"dp_sum", "dp_commit"}
    BY DEF Labels, HasAmounts, HasInvoice, HasMilestone
  <2>2. label \in HasMilestone => locals.mid # Null
    BY <1>1 DEF HasMilestone
  <2>3. /\ pc' \in [Requests -> Labels]
        /\ loc' \in [Requests -> Locals]
        /\ \A v \in Requests : LocalsSet(v)'
    BY <1>1, <2>1, <2>2, GotoType
  <2>4. QED
    BY <1>1, <2>3 DEF ControlTypeOK, Database
<1>2. ASSUME NEW m \in Milestones
      PROVE  [NoLocals EXCEPT !.mid = m] \in Locals /\ [NoLocals EXCEPT !.mid = m].mid # Null
  BY <1>2, RowsAssumption DEF NoLocals, NoInvoice, Locals, InvoiceRows, Gone
<1>3. ASSUME NEW amount, NEW tax, CreateRead(w, amount, tax) PROVE ControlTypeOK'
  <2>1. [NoLocals EXCEPT !.number = nextNumber] \in Locals
    BY DEF NoLocals, NoInvoice, Locals, InvoiceRows, Gone, ControlTypeOK
  <2>2. Goto(w, "create_commit", [NoLocals EXCEPT !.number = nextNumber],
             [NoCash EXCEPT !.amount = amount, !.tax = tax]) /\ UNCHANGED Database
    BY <1>3 DEF CreateRead
  <2>3. QED
    BY <1>1, <2>1, <2>2
<1>4. ASSUME NEW m \in Milestones, NEW tax, GenerateRead(w, m, tax) PROVE ControlTypeOK'
  BY <1>1, <1>2, <1>4 DEF GenerateRead
<1>5. ASSUME NEW m \in Milestones, NEW amount, UpdateMilestoneRead(w, m, amount) PROVE ControlTypeOK'
  BY <1>1, <1>2, <1>5 DEF UpdateMilestoneRead
<1>6. ASSUME NEW m \in Milestones, DeleteMilestoneRead(w, m) PROVE ControlTypeOK'
  BY <1>1, <1>2, <1>6 DEF DeleteMilestoneRead
<1>7. ASSUME NEW i, NEW amount, NEW tax,
             \/ UpdateRead(w, i, amount, tax) \/ SendRead(w, i) \/ VoidRead(w, i)
             \/ PayRead(w, i, amount) \/ DeleteInvoiceRead(w, i)
      PROVE  ControlTypeOK'
  <2>1. \E label \in HasInvoice \ {"dp_sum", "dp_commit"}, amounts \in {NoCash, [NoCash EXCEPT !.amount = amount, !.tax = tax],
             [NoCash EXCEPT !.amount = amount]} : ReadInvoice(w, i, label, Null, amounts)
    BY <1>7 DEF UpdateRead, SendRead, VoidRead, PayRead, DeleteInvoiceRead, HasInvoice
  <2>2. QED
    BY <2>1, ReadInvoiceType
<1>8. ASSUME NEW i, NEW p \in Payments, DeletePaymentRead(w, i, p) PROVE ControlTypeOK'
  <2>1. p # Null
    BY RowsAssumption
  <2>2. QED
    BY <1>8, <2>1, ReadInvoiceType DEF DeletePaymentRead, HasInvoice
<1>9. QED
  BY <1>3, <1>4, <1>5, <1>6, <1>7, <1>8 DEF Arrive

(* The steps of handlers in flight.                                        *)
LEMMA HandlerType ==
  ASSUME ControlTypeOK, NEW w \in Requests, HandlerStep(w) \/ DbError(w)
  PROVE  ControlTypeOK'
<1>1. ASSUME Finish(w), invoices' \in [Invoices -> InvoiceRows], nextNumber' = nextNumber
      PROVE  ControlTypeOK'
  BY <1>1, FinishType DEF ControlTypeOK
<1>2. ASSUME Rollback(w) PROVE ControlTypeOK'
  BY <1>1, <1>2 DEF Rollback, Database, ControlTypeOK
<1>3. ASSUME NEW i \in Invoices, InsertInvoice(w, i), Finish(w), LocalsSet(w) PROVE ControlTypeOK'
  <2>1. Draft(loc[w]) \in InvoiceRows
    BY DEF Draft, NoInvoice, InvoiceRows, InvoiceStatuses, ControlTypeOK, Locals
  <2>2. invoices' \in [Invoices -> InvoiceRows] /\ nextNumber' \in Nat \ {0}
    BY <1>3, <2>1 DEF InsertInvoice, ControlTypeOK, Locals
  <2>3. QED
    BY <1>3, <2>2, FinishType DEF ControlTypeOK
<1>4. ASSUME NEW i \in Invoices, NEW status \in InvoiceStatuses \cup Gone,
             invoices' = [invoices EXCEPT ![i].status = status]
      PROVE  invoices' \in [Invoices -> InvoiceRows]
  BY <1>4 DEF ControlTypeOK, InvoiceRows
<1>5. pc[w] \in HasInvoice => loc[w].iid \in Invoices /\ loc[w].row.status \in InvoiceStatuses
  BY DEF ControlTypeOK, LocalsSet, Locals, InvoiceRows
<1>6. CASE CreateCommit(w)
  BY <1>2, <1>3, <1>6 DEF CreateCommit, ControlTypeOK
<1>7. CASE GenerateNumber(w)
  <2>1. [loc[w] EXCEPT !.number = nextNumber] \in Locals
    BY DEF ControlTypeOK, Locals
  <2>2. "gen_commit" \in Labels /\ "gen_commit" \notin HasInvoice
    BY DEF Labels, HasAmounts, HasInvoice
  <2>3. loc[w].mid # Null
    BY <1>7 DEF GenerateNumber, ControlTypeOK, LocalsSet, HasMilestone
  <2>4. [loc[w] EXCEPT !.number = nextNumber].mid # Null
    BY <2>3 DEF ControlTypeOK, Locals
  <2>5. Goto(w, "gen_commit", [loc[w] EXCEPT !.number = nextNumber], cash[w])
    BY <1>7 DEF GenerateNumber
  <2>6. /\ pc' \in [Requests -> Labels]
        /\ loc' \in [Requests -> Locals]
        /\ \A v \in Requests : LocalsSet(v)'
    BY <2>1, <2>2, <2>4, <2>5, GotoType
  <2>7. QED
    BY <1>7, <2>6 DEF GenerateNumber, ControlTypeOK, Database
<1>8. CASE GenerateCommit(w)
  BY <1>2, <1>3, <1>8 DEF GenerateCommit, ControlTypeOK
<1>9. CASE UpdateWrite(w)
  BY <1>1, <1>2, <1>9 DEF UpdateWrite, ControlTypeOK
<1>10. CASE SendWrite(w)
  <2>1. loc[w].iid \in Invoices
    BY <1>5, <1>10 DEF SendWrite, HasInvoice
  <2>2. ASSUME invoices' = [invoices EXCEPT ![loc[w].iid] = [@ EXCEPT !.status = "sent", !.sent = TRUE]]
        PROVE  invoices' \in [Invoices -> InvoiceRows]
    BY <2>1, <2>2 DEF ControlTypeOK, InvoiceRows, InvoiceStatuses
  <2>3. QED
    BY <1>1, <1>2, <1>10, <2>2 DEF SendWrite
<1>11. CASE VoidCommit(w)
  <2>1. "voided" \in InvoiceStatuses /\ loc[w].iid \in Invoices
    BY <1>5, <1>11 DEF InvoiceStatuses, VoidCommit, HasInvoice
  <2>2. QED
    BY <1>1, <1>2, <1>4, <1>11, <2>1 DEF VoidCommit
<1>12. CASE PayCommit(w)
  <2>1. loc[w].iid \in Invoices /\ loc[w].row.status \in InvoiceStatuses
    BY <1>5, <1>12 DEF PayCommit, HasInvoice
  <2> DEFINE paid == cash[w].was.paid + cash[w].amount
             due == Total(cash[w].was) - paid
  <2>2. \/ Rollback(w)
        \/ /\ Finish(w) /\ nextNumber' = nextNumber
           /\ Settle(loc[w].iid, paid, due, PaidStatus(loc[w].row, paid, due))
    BY <1>12 DEF PayCommit
  <2> HIDE DEF paid, due
  <2>3. PaidStatus(loc[w].row, paid, due) \in InvoiceStatuses
    BY <2>1 DEF PaidStatus, InvoiceStatuses
  <2>4. QED
    BY <1>1, <1>2, <1>4, <2>1, <2>2, <2>3 DEF Settle
<1>13. CASE DeletePaymentSum(w)
  <2>1. loc[w] \in Locals /\ "dp_commit" \in Labels /\ "dp_commit" \notin HasMilestone
    BY DEF ControlTypeOK, Labels, HasInvoice, HasMilestone
  <2>2. loc[w].iid # Null /\ loc[w].row.status \notin Gone /\ loc[w].pid # Null
    BY <1>13 DEF DeletePaymentSum, ControlTypeOK, LocalsSet, HasInvoice
  <2>3. PICK amounts : Goto(w, "dp_commit", loc[w], amounts)
    BY <1>13 DEF DeletePaymentSum
  <2>4. /\ pc' \in [Requests -> Labels]
        /\ loc' \in [Requests -> Locals]
        /\ \A v \in Requests : LocalsSet(v)'
    BY <2>1, <2>2, <2>3, GotoType
  <2>5. QED
    BY <1>13, <2>4 DEF DeletePaymentSum, ControlTypeOK, Database
<1>14. CASE DeletePaymentCommit(w)
  <2>1. loc[w].iid \in Invoices
    BY <1>5, <1>14 DEF DeletePaymentCommit, HasInvoice
  <2> DEFINE sum == cash[w].sum
             due == Total(cash[w].was) - sum
             status == CASE sum <= 0 -> IF loc[w].row.sent THEN "sent" ELSE "draft"
                         [] sum > 0 /\ due <= 0 -> "paid"
                         [] OTHER -> "partial"
  <2>2. \/ Rollback(w)
        \/ Finish(w) /\ nextNumber' = nextNumber /\ Settle(loc[w].iid, sum, due, status)
    BY <1>14 DEF DeletePaymentCommit
  <2>3. status \in InvoiceStatuses
    BY DEF InvoiceStatuses
  <2> HIDE DEF sum, due, status
  <2>4. QED
    BY <1>1, <1>2, <1>4, <2>1, <2>2, <2>3 DEF Settle
<1>15. CASE DeleteInvoiceCommit(w)
  <2>1. "deleted" \in Gone /\ loc[w].iid \in Invoices
    BY <1>5, <1>15 DEF Gone, DeleteInvoiceCommit, HasInvoice
  <2>2. QED
    BY <1>1, <1>2, <1>4, <1>15, <2>1 DEF DeleteInvoiceCommit
<1>16. CASE UpdateMilestoneWrite(w)
  BY <1>1, <1>2, <1>16 DEF UpdateMilestoneWrite, ControlTypeOK
<1>17. CASE DeleteMilestoneWrite(w)
  <2>1. ASSUME NEW m, invoices' = [i \in Invoices |-> IF invoices[i].milestone = m
               THEN [invoices[i] EXCEPT !.milestone = Null] ELSE invoices[i]]
        PROVE  invoices' \in [Invoices -> InvoiceRows]
    BY <2>1 DEF ControlTypeOK, InvoiceRows
  <2>2. QED
    BY <1>1, <1>2, <1>17, <2>1 DEF DeleteMilestoneWrite
<1>18. CASE DbError(w)
  BY <1>2, <1>18 DEF DbError
<1>19. QED
  BY <1>6, <1>7, <1>8, <1>9, <1>10, <1>11, <1>12, <1>13, <1>14, <1>15, <1>16, <1>17, <1>18 DEF HandlerStep

(* Every step keeps the tables and slots well typed.                       *)
LEMMA TypeNext == ControlTypeOK /\ [Next]_vars => ControlTypeOK'
<1> SUFFICES ASSUME ControlTypeOK, [Next]_vars PROVE ControlTypeOK'
  OBVIOUS
<1>1. ASSUME UNCHANGED <<invoices, nextNumber, pc, loc>> PROVE ControlTypeOK'
  BY <1>1 DEF ControlTypeOK, LocalsSet
<1>2. CASE Crash
  <2>1. UNCHANGED <<invoices, nextNumber>>
    BY <1>2 DEF Crash, Database
  <2>2. pc' \in [Requests -> Labels] /\ loc' \in [Requests -> Locals]
    BY <1>2 DEF Crash, Labels, NoLocals, NoInvoice, Locals, InvoiceRows, Gone
  <2>3. \A w \in Requests : LocalsSet(w)'
    BY <1>2 DEF Crash, LocalsSet, HasInvoice, HasMilestone
  <2>4. QED
    BY <2>1, <2>2, <2>3 DEF ControlTypeOK
<1>3. ASSUME NEW new, CreateMilestones(new) PROVE ControlTypeOK'
  BY <1>1, <1>3 DEF CreateMilestones
<1>4. CASE Wait \/ UNCHANGED vars
  BY <1>1, <1>4 DEF Wait, vars
<1>5. QED
  BY <1>2, <1>3, <1>4, ArriveType, HandlerType DEF Next

(* The invoice rows and the slots are always well typed: no handler ever   *)
(* dereferences a row it has not read.                                     *)
THEOREM InvoiceTypeCorrect == Spec => []ControlTypeOK
BY TypeInit, TypeNext, PTL DEF Spec

-----------------------------------------------------------------------------
(* The number sequence *)

(* The strengthening: every number below the counter is taken, none is at  *)
(* or above it, and a transaction in flight read the counter at or below   *)
(* its present value.  A stale number is then always a taken one.          *)
NumbersInv ==
  /\ \A i \in Invoices : InvoiceExists(i) => invoices[i].number < nextNumber
  /\ \A n \in 1..(nextNumber - 1) : NumberTaken(n)
  /\ \A w \in Requests : pc[w] \in {"create_commit", "gen_commit"} => loc[w].number \in 1..nextNumber
  /\ \A w \in Requests : pc[w] # "di_commit"

(* The step creates and removes no invoice and changes no number.          *)
NumbersKept ==
  /\ nextNumber' = nextNumber
  /\ \A i \in Invoices : /\ InvoiceExists(i)' <=> InvoiceExists(i)
                         /\ invoices'[i].number = invoices[i].number

(* No slot goes on with a number that was not read from the counter.       *)
SlotsKept ==
  \A v \in Requests :
    /\ pc'[v] # "di_commit"
    /\ pc'[v] \in {"create_commit", "gen_commit"} =>
         \/ pc[v] = pc'[v] /\ loc'[v] = loc[v]
         \/ loc'[v].number = nextNumber

(* What one slot does to the others: nothing.                              *)
LEMMA SlotMove ==
  ASSUME ControlTypeOK, NumbersInv, NEW w \in Requests, NEW label, NEW locals, NEW amounts,
         Goto(w, label, locals, amounts), label # "di_commit",
         label \in {"create_commit", "gen_commit"} => locals.number = nextNumber
  PROVE  SlotsKept
BY DEF Goto, SlotsKept, NumbersInv, ControlTypeOK

(* A step that keeps numbers and slots keeps the invariant.                *)
LEMMA NumbersFrame ==
  ASSUME ControlTypeOK, NumbersInv, NumbersKept, SlotsKept
  PROVE  NumbersInv'
<1>1. \A i \in Invoices : InvoiceExists(i)' => invoices'[i].number < nextNumber'
  BY DEF NumbersInv, NumbersKept
<1>2. \A n \in 1..(nextNumber' - 1) : NumberTaken(n)'
  BY DEF NumbersInv, NumbersKept, NumberTaken
<1>3. \A w \in Requests : pc'[w] \in {"create_commit", "gen_commit"} => loc'[w].number \in 1..nextNumber'
  BY DEF NumbersInv, NumbersKept, SlotsKept, ControlTypeOK
<1>4. \A w \in Requests : pc'[w] # "di_commit"
  BY DEF SlotsKept
<1>5. QED
  BY <1>1, <1>2, <1>3, <1>4 DEF NumbersInv

(* What every step does: it keeps the numbers, or creates the invoice that *)
(* takes the counter's value.                                              *)
Sequential ==
  \/ NumbersKept
  \/ \E j \in Invoices :
       /\ ~InvoiceExists(j)
       /\ InvoiceExists(j)' /\ invoices'[j].number = nextNumber
       /\ nextNumber' = nextNumber + 1
       /\ \A i \in Invoices \ {j} : invoices'[i] = invoices[i]

(* The commit of a transaction that inserts an invoice: the unique key     *)
(* lets it pass only if the number it read is still the counter's.         *)
LEMMA InsertSequential ==
  ASSUME ControlTypeOK, NumbersInv, NEW w \in Requests, NEW j \in Invoices, InsertInvoice(w, j), Finish(w),
         pc[w] \in {"create_commit", "gen_commit"}
  PROVE  Sequential /\ NumbersInv'
<1>1. loc[w].number \in 1..nextNumber /\ ~NumberTaken(loc[w].number) /\ nextNumber \in Nat
  BY DEF NumbersInv, InsertInvoice, ControlTypeOK
<1>2. loc[w].number = nextNumber
  BY <1>1 DEF NumbersInv
<1>3. ~InvoiceExists(j)
  BY DEF InsertInvoice, InvoiceExists, Gone
<1>4. invoices'[j].status = "draft" /\ invoices'[j].number = nextNumber
  BY <1>2 DEF InsertInvoice, Draft, NoInvoice, ControlTypeOK
<1>5. InvoiceExists(j)'
  BY <1>4 DEF InvoiceExists, Gone
<1>6. \A i \in Invoices \ {j} : invoices'[i] = invoices[i]
  BY DEF InsertInvoice, ControlTypeOK
<1>7. nextNumber' = nextNumber + 1
  BY <1>2 DEF InsertInvoice
<1>8. Sequential
  BY <1>3, <1>4, <1>5, <1>6, <1>7 DEF Sequential
<1>9. \A i \in Invoices : InvoiceExists(i)' => invoices'[i].number < nextNumber'
  BY <1>1, <1>4, <1>6, <1>7 DEF NumbersInv, InvoiceExists, ControlTypeOK, InvoiceRows
<1>10. ASSUME NEW n \in 1..(nextNumber' - 1) PROVE NumberTaken(n)'
  <2>1. CASE n = nextNumber
    BY <2>1, <1>4, <1>5 DEF NumberTaken
  <2>2. CASE n # nextNumber
    <3>1. n \in 1..(nextNumber - 1)
      BY <1>1, <1>7, <2>2
    <3>2. PICK i \in Invoices : InvoiceExists(i) /\ invoices[i].number = n
      BY <3>1 DEF NumbersInv, NumberTaken
    <3>3. i # j
      BY <3>2, <1>3
    <3>4. QED
      BY <3>2, <3>3, <1>6 DEF NumberTaken, InvoiceExists
  <2>3. QED
    BY <2>1, <2>2
<1>11. \A v \in Requests : pc'[v] \in {"create_commit", "gen_commit"} => loc'[v].number \in 1..nextNumber'
  BY <1>1, <1>7 DEF NumbersInv, Finish, Goto, ControlTypeOK
<1>12. \A v \in Requests : pc'[v] # "di_commit"
  BY DEF NumbersInv, Finish, Goto, ControlTypeOK
<1>13. QED
  BY <1>8, <1>9, <1>10, <1>11, <1>12 DEF NumbersInv

(* At the start no number is taken.                                        *)
LEMMA NumbersInit == Init => NumbersInv
BY DEF Init, NumbersInv, InvoiceExists, NoInvoice, Gone

(* Requests that arrive write nothing, and read the counter as it is.      *)
LEMMA ArriveSequential ==
  ASSUME "delete_invoice" \notin Ops, ControlTypeOK, NumbersInv, NEW w \in Requests, Arrive(w)
  PROVE  Sequential /\ NumbersInv'
<1>1. ASSUME NEW label, NEW locals, NEW amounts, Goto(w, label, locals, amounts), label # "di_commit",
             label \in {"create_commit", "gen_commit"} => locals.number = nextNumber, UNCHANGED Database
      PROVE  Sequential /\ NumbersInv'
  <2>1. SlotsKept
    BY <1>1, SlotMove
  <2>2. NumbersKept
    BY <1>1 DEF Database, NumbersKept, InvoiceExists
  <2>3. QED
    BY <2>1, <2>2, NumbersFrame DEF Sequential
<1>2. ASSUME NEW i, NEW label, NEW pid, NEW amounts, ReadInvoice(w, i, label, pid, amounts),
             label \notin {"di_commit", "create_commit", "gen_commit"}
      PROVE  Sequential /\ NumbersInv'
  BY <1>1, <1>2 DEF ReadInvoice
<1>3. ASSUME NEW amount, NEW tax, CreateRead(w, amount, tax) PROVE Sequential /\ NumbersInv'
  <2>1. [NoLocals EXCEPT !.number = nextNumber].number = nextNumber
    BY DEF NoLocals
  <2>2. QED
    BY <1>1, <1>3, <2>1 DEF CreateRead
<1>4. ASSUME NEW m, NEW tax, GenerateRead(w, m, tax) PROVE Sequential /\ NumbersInv'
  BY <1>1, <1>4 DEF GenerateRead
<1>5. ASSUME NEW m, NEW amount, UpdateMilestoneRead(w, m, amount) \/ DeleteMilestoneRead(w, m)
      PROVE  Sequential /\ NumbersInv'
  BY <1>1, <1>5 DEF UpdateMilestoneRead, DeleteMilestoneRead
<1>6. ASSUME NEW i, NEW amount, NEW tax, UpdateRead(w, i, amount, tax) PROVE Sequential /\ NumbersInv'
  BY <1>2, <1>6 DEF UpdateRead
<1>7. ASSUME NEW i, SendRead(w, i) \/ VoidRead(w, i) PROVE Sequential /\ NumbersInv'
  BY <1>2, <1>7 DEF SendRead, VoidRead
<1>8. ASSUME NEW i, NEW amount, PayRead(w, i, amount) PROVE Sequential /\ NumbersInv'
  BY <1>2, <1>8 DEF PayRead
<1>9. ASSUME NEW i, NEW p, DeletePaymentRead(w, i, p) PROVE Sequential /\ NumbersInv'
  BY <1>2, <1>9 DEF DeletePaymentRead
<1>10. \A i : ~DeleteInvoiceRead(w, i)
  BY DEF DeleteInvoiceRead, Begin
<1>11. QED
  BY <1>3, <1>4, <1>5, <1>6, <1>7, <1>8, <1>9, <1>10 DEF Arrive

(* The steps of handlers in flight.                                        *)
LEMMA HandlerSequential ==
  ASSUME ControlTypeOK, NumbersInv, NEW w \in Requests, HandlerStep(w) \/ DbError(w)
  PROVE  Sequential /\ NumbersInv'
<1>1. ASSUME NumbersKept, Finish(w) PROVE Sequential /\ NumbersInv'
  BY <1>1, SlotMove, NumbersFrame DEF Finish, Sequential
<1>2. ASSUME Rollback(w) PROVE Sequential /\ NumbersInv'
  BY <1>1, <1>2 DEF Rollback, Database, NumbersKept, InvoiceExists
<1>3. ASSUME invoices' = invoices, nextNumber' = nextNumber PROVE NumbersKept
  BY <1>3 DEF NumbersKept, InvoiceExists
<1>4. ASSUME NEW i, InvoiceExists(i), NEW status \in InvoiceStatuses, nextNumber' = nextNumber,
             invoices' = [invoices EXCEPT ![i].status = status]
      PROVE  NumbersKept
  BY <1>4 DEF NumbersKept, InvoiceExists, ControlTypeOK, InvoiceRows, InvoiceStatuses, Gone
<1>5. pc[w] \in HasInvoice => loc[w].row.status \in InvoiceStatuses
  BY DEF ControlTypeOK, LocalsSet, Locals, InvoiceRows
<1>6. CASE CreateCommit(w)
  BY <1>2, <1>6, InsertSequential DEF CreateCommit
<1>7. CASE GenerateNumber(w)
  <2>1. [loc[w] EXCEPT !.number = nextNumber].number = nextNumber
    BY DEF ControlTypeOK, Locals
  <2>2. SlotsKept
    BY <1>7, <2>1, SlotMove DEF GenerateNumber
  <2>3. NumbersKept
    BY <1>3, <1>7 DEF GenerateNumber, Database
  <2>4. QED
    BY <2>2, <2>3, NumbersFrame DEF Sequential
<1>8. CASE GenerateCommit(w)
  BY <1>2, <1>8, InsertSequential DEF GenerateCommit
<1>9. CASE UpdateWrite(w)
  BY <1>1, <1>2, <1>3, <1>9 DEF UpdateWrite
<1>10. CASE SendWrite(w)
  <2>1. ASSUME InvoiceExists(loc[w].iid), nextNumber' = nextNumber,
               invoices' = [invoices EXCEPT ![loc[w].iid] = [@ EXCEPT !.status = "sent", !.sent = TRUE]]
        PROVE  NumbersKept
    BY <2>1 DEF NumbersKept, InvoiceExists, ControlTypeOK, InvoiceRows, Gone
  <2>2. QED
    BY <1>1, <1>2, <1>10, <2>1 DEF SendWrite
<1>11. CASE VoidCommit(w)
  <2>1. "voided" \in InvoiceStatuses
    BY DEF InvoiceStatuses
  <2>2. QED
    BY <1>1, <1>2, <1>4, <1>11, <2>1 DEF VoidCommit
<1>12. CASE PayCommit(w)
  <2> DEFINE paid == cash[w].was.paid + cash[w].amount
             due == Total(cash[w].was) - paid
  <2>1. \/ Rollback(w)
        \/ /\ Finish(w) /\ nextNumber' = nextNumber /\ InvoiceExists(loc[w].iid)
           /\ Settle(loc[w].iid, paid, due, PaidStatus(loc[w].row, paid, due))
    BY <1>12 DEF PayCommit
  <2> HIDE DEF paid, due
  <2>2. loc[w].row.status \in InvoiceStatuses
    BY <1>5, <1>12 DEF PayCommit, HasInvoice
  <2>3. PaidStatus(loc[w].row, paid, due) \in InvoiceStatuses
    BY <2>2 DEF PaidStatus, InvoiceStatuses
  <2>4. QED
    BY <1>1, <1>2, <1>4, <2>1, <2>3 DEF Settle
<1>13. CASE DeletePaymentSum(w)
  <2>1. SlotsKept
    BY <1>13, SlotMove DEF DeletePaymentSum
  <2>2. NumbersKept
    BY <1>3, <1>13 DEF DeletePaymentSum, Database
  <2>3. QED
    BY <2>1, <2>2, NumbersFrame DEF Sequential
<1>14. CASE DeletePaymentCommit(w)
  <2> DEFINE sum == cash[w].sum
             due == Total(cash[w].was) - sum
             status == CASE sum <= 0 -> IF loc[w].row.sent THEN "sent" ELSE "draft"
                         [] sum > 0 /\ due <= 0 -> "paid"
                         [] OTHER -> "partial"
  <2>1. \/ Rollback(w)
        \/ /\ Finish(w) /\ nextNumber' = nextNumber /\ InvoiceExists(loc[w].iid)
           /\ Settle(loc[w].iid, sum, due, status)
    BY <1>14 DEF DeletePaymentCommit
  <2>2. status \in InvoiceStatuses
    BY DEF InvoiceStatuses
  <2> HIDE DEF sum, due, status
  <2>3. QED
    BY <1>1, <1>2, <1>4, <2>1, <2>2 DEF Settle
<1>15. ~DeleteInvoiceCommit(w)
  BY DEF DeleteInvoiceCommit, NumbersInv
<1>16. CASE UpdateMilestoneWrite(w)
  BY <1>1, <1>2, <1>3, <1>16 DEF UpdateMilestoneWrite
<1>17. CASE DeleteMilestoneWrite(w)
  <2>1. ASSUME NEW m, nextNumber' = nextNumber, invoices' = [i \in Invoices |-> IF invoices[i].milestone = m
               THEN [invoices[i] EXCEPT !.milestone = Null] ELSE invoices[i]]
        PROVE  NumbersKept
    BY <2>1 DEF NumbersKept, InvoiceExists, ControlTypeOK, InvoiceRows
  <2>2. QED
    BY <1>1, <1>2, <1>17, <2>1 DEF DeleteMilestoneWrite
<1>18. CASE DbError(w)
  BY <1>2, <1>18 DEF DbError
<1>19. QED
  BY <1>6, <1>7, <1>8, <1>9, <1>10, <1>11, <1>12, <1>13, <1>14, <1>15, <1>16, <1>17, <1>18 DEF HandlerStep

(* Every step hands out at most the counter's number.                      *)
LEMMA SequentialNext ==
  ASSUME "delete_invoice" \notin Ops, ControlTypeOK, NumbersInv, [Next]_vars
  PROVE  Sequential /\ NumbersInv'
<1>1. ASSUME UNCHANGED <<invoices, nextNumber, pc, loc>> PROVE Sequential /\ NumbersInv'
  <2>1. NumbersKept
    BY <1>1 DEF NumbersKept, InvoiceExists
  <2>2. SlotsKept
    BY <1>1 DEF SlotsKept, NumbersInv
  <2>3. QED
    BY <2>1, <2>2, NumbersFrame DEF Sequential
<1>2. CASE Crash
  <2>1. NumbersKept
    BY <1>2 DEF Crash, Database, NumbersKept, InvoiceExists
  <2>2. SlotsKept
    BY <1>2 DEF Crash, SlotsKept
  <2>3. QED
    BY <2>1, <2>2, NumbersFrame DEF Sequential
<1>3. ASSUME NEW new, CreateMilestones(new) PROVE Sequential /\ NumbersInv'
  BY <1>1, <1>3 DEF CreateMilestones
<1>4. CASE Wait \/ UNCHANGED vars
  BY <1>1, <1>4 DEF Wait, vars
<1>5. QED
  BY <1>2, <1>3, <1>4, ArriveSequential, HandlerSequential DEF Next

(* While no invoice is deleted, InvoiceNumberGeneratorService hands out    *)
(* the numbers in sequence, however transactions overlap, fail or are cut  *)
(* off: the unique key makes up for the counter's unlocked read.           *)
THEOREM NumbersAreSequential ==
  ASSUME "delete_invoice" \notin Ops
  PROVE  Spec => SequentialNumbers
<1> DEFINE Step == \A i \in Invoices : (~InvoiceExists(i) /\ InvoiceExists(i)')
                     => invoices'[i].number = nextNumber /\ nextNumber' = nextNumber + 1
<1>1. ASSUME Sequential PROVE Step
  <2>1. CASE NumbersKept
    BY <2>1 DEF NumbersKept
  <2>2. CASE ~NumbersKept
    <3>1. PICK j \in Invoices :
            /\ invoices'[j].number = nextNumber
            /\ nextNumber' = nextNumber + 1
            /\ \A i \in Invoices \ {j} : invoices'[i] = invoices[i]
      BY <1>1, <2>2 DEF Sequential
    <3>2. \A i \in Invoices \ {j} : InvoiceExists(i)' <=> InvoiceExists(i)
      BY <3>1 DEF InvoiceExists
    <3>3. QED
      BY <3>1, <3>2
  <2>3. QED
    BY <2>1, <2>2
<1>2. ControlTypeOK /\ NumbersInv /\ [Next]_vars => NumbersInv'
  BY SequentialNext
<1>3. ControlTypeOK /\ NumbersInv /\ [Next]_vars => [Step]_vars
  BY <1>1, SequentialNext
<1>4. Spec => [][Step]_vars
  BY <1>2, <1>3, NumbersInit, InvoiceTypeCorrect, PTL DEF Spec
<1>5. QED
  BY <1>4 DEF SequentialNumbers

-----------------------------------------------------------------------------
(* The money columns, the payments, the milestones and what slots hold of  *)
(* them are well typed *)

MoneyRows == [amount : Nat, tax : Nat, paid : Nat, due : Int]
PaymentRows == [status : {"none", "live", "deleted"}, invoice : Invoices \cup {Null}, amount : Nat]
MilestoneRows == [status : {"none", "pending", "invoiced", "paid", "deleted"}, amount : Nat,
                  invoice : Invoices \cup {Null}]
CashRows == [amount : Nat \cup {Null}, tax : Nat \cup {Null}, was : MoneyRows, sum : Nat]

(* A slot that inserts an invoice, a payment or an amount was given it.    *)
CashSet(w) ==
  /\ pc[w] \in HasAmounts => cash[w].amount \in Nat /\ cash[w].tax \in Nat
  /\ pc[w] \in {"pay_commit", "um_write"} => cash[w].amount \in Nat \ {0}

MoneyTypeOK ==
  /\ money \in [Invoices -> MoneyRows]
  /\ payments \in [Payments -> PaymentRows]
  /\ milestones \in [Milestones -> MilestoneRows]
  /\ cash \in [Requests -> CashRows]
  /\ \A w \in Requests : CashSet(w)

TablesOK == ControlTypeOK /\ MoneyTypeOK

(* The empty locals are well typed.                                        *)
LEMMA NoCashType == NoCash \in CashRows /\ NoMoney \in MoneyRows /\ NoCash.was = NoMoney
BY DEF NoCash, NoMoney, CashRows, MoneyRows

(* The amounts are well typed at first.                                    *)
LEMMA MoneyInit == Init => MoneyTypeOK
<1> SUFFICES ASSUME Init PROVE MoneyTypeOK
  OBVIOUS
<1>1. \A w \in Requests : pc[w] = "idle" /\ CashSet(w)
  BY DEF Init, CashSet, HasAmounts
<1>2. payments \in [Payments -> PaymentRows] /\ milestones \in [Milestones -> MilestoneRows]
  BY DEF Init, NoPayment, NoMilestone, PaymentRows, MilestoneRows
<1>3. QED
  BY <1>1, <1>2, NoCashType DEF Init, MoneyTypeOK

(* A slot that moves with well typed amounts.                              *)
LEMMA GotoCash ==
  ASSUME ControlTypeOK, MoneyTypeOK, NEW w \in Requests, NEW label \in Labels, NEW locals, NEW amounts \in CashRows,
         Goto(w, label, locals, amounts),
         label \in HasAmounts => amounts.amount \in Nat /\ amounts.tax \in Nat,
         label \in {"pay_commit", "um_write"} => amounts.amount \in Nat \ {0}
  PROVE  cash' \in [Requests -> CashRows] /\ \A v \in Requests : CashSet(v)'
<1>1. pc' = [pc EXCEPT ![w] = label] /\ cash' = [cash EXCEPT ![w] = amounts]
  BY DEF Goto
<1>2. pc'[w] = label /\ cash'[w] = amounts
  BY <1>1 DEF ControlTypeOK, MoneyTypeOK
<1>3. \A v \in Requests \ {w} : pc'[v] = pc[v] /\ cash'[v] = cash[v]
  BY <1>1 DEF ControlTypeOK, MoneyTypeOK
<1>4. cash' \in [Requests -> CashRows]
  BY <1>1 DEF MoneyTypeOK
<1>5. ASSUME NEW v \in Requests PROVE CashSet(v)'
  <2>1. CASE v = w
    BY <1>2, <2>1 DEF CashSet
  <2>2. CASE v # w
    BY <1>3, <2>2 DEF CashSet, MoneyTypeOK
  <2>3. QED
    BY <2>1, <2>2
<1>6. QED
  BY <1>4, <1>5

(* A request that ends clears its amounts.                                 *)
LEMMA FinishCash ==
  ASSUME ControlTypeOK, MoneyTypeOK, NEW w \in Requests, Finish(w)
  PROVE  cash' \in [Requests -> CashRows] /\ \A v \in Requests : CashSet(v)'
<1>1. Goto(w, "idle", NoLocals, NoCash)
  BY DEF Finish
<1>2. "idle" \in Labels /\ "idle" \notin HasAmounts
  BY DEF Labels, HasAmounts
<1>3. QED
  BY <1>1, <1>2, NoCashType, GotoCash

(* The total of a sum of payments is an amount.                            *)
LEMMA SumType == ASSUME MoneyTypeOK, NEW S \in SUBSET Payments PROVE PaymentSum(S) \in Nat
<1>1. PICK f : f = [p \in Payments |-> payments[p].amount]
  OBVIOUS
<1>2. \A p \in S : f[p] \in Nat
  BY <1>1 DEF MoneyTypeOK, PaymentRows
<1>3. IsFiniteSet(S)
  BY RowsAssumption, FS_Subset
<1>4. QED
  BY <1>1, <1>2, <1>3, SumIsNat DEF PaymentSum

(* A request that arrives keeps the amounts well typed.                    *)
LEMMA ArriveMoney ==
  ASSUME ControlTypeOK, MoneyTypeOK, NEW w \in Requests, Arrive(w)
  PROVE  MoneyTypeOK'
<1>1. ASSUME NEW label \in Labels, NEW locals, NEW amounts \in CashRows,
             Goto(w, label, locals, amounts), UNCHANGED Database,
             label \in HasAmounts => amounts.amount \in Nat /\ amounts.tax \in Nat,
             label \in {"pay_commit", "um_write"} => amounts.amount \in Nat \ {0}
      PROVE  MoneyTypeOK'
  BY <1>1, GotoCash DEF MoneyTypeOK, Database
<1>2. ASSUME NEW amount \in Nat \cup {Null}, NEW tax \in Nat \cup {Null}
      PROVE  /\ [NoCash EXCEPT !.amount = amount, !.tax = tax] \in CashRows
             /\ [NoCash EXCEPT !.amount = amount, !.tax = tax].amount = amount
             /\ [NoCash EXCEPT !.amount = amount, !.tax = tax].tax = tax
             /\ [NoCash EXCEPT !.amount = amount] \in CashRows
             /\ [NoCash EXCEPT !.amount = amount].amount = amount
  BY NoCashType DEF NoCash, CashRows
<1>3. Amounts \subseteq Nat \ {0} /\ Taxes \subseteq Nat
  BY MoneyAssumption
<1>4. /\ {"create_commit", "gen_number", "gen_commit", "um_write", "dm_write"} \subseteq Labels
      /\ "um_write" \notin HasAmounts /\ "dm_write" \notin HasAmounts
  BY DEF Labels, HasAmounts, HasMilestone
<1>5. ASSUME NEW amount \in Amounts, NEW tax \in Taxes, CreateRead(w, amount, tax) PROVE MoneyTypeOK'
  <2>1. PICK c : c = [NoCash EXCEPT !.amount = amount, !.tax = tax]
    OBVIOUS
  <2>2. c \in CashRows /\ c.amount = amount /\ c.tax = tax
    BY <1>2, <1>3, <2>1
  <2>3. \E locals : Goto(w, "create_commit", locals, c) /\ UNCHANGED Database
    BY <1>5, <2>1 DEF CreateRead
  <2>4. QED
    BY <1>1, <1>3, <1>4, <2>2, <2>3
<1>6. ASSUME NEW m \in Milestones, NEW tax \in Taxes, GenerateRead(w, m, tax) PROVE MoneyTypeOK'
  <2>1. milestones[m].amount \in Nat
    BY DEF MoneyTypeOK, MilestoneRows
  <2>2. PICK c : c = [NoCash EXCEPT !.amount = milestones[m].amount, !.tax = tax]
    OBVIOUS
  <2>3. c \in CashRows /\ c.amount = milestones[m].amount /\ c.tax = tax
    BY <1>2, <1>3, <2>1, <2>2
  <2>4. \E locals : Goto(w, "gen_number", locals, c) /\ UNCHANGED Database
    BY <1>6, <2>2 DEF GenerateRead
  <2>5. QED
    BY <1>1, <1>3, <1>4, <2>1, <2>3, <2>4
<1>7. ASSUME NEW m \in Milestones, NEW amount \in Amounts, UpdateMilestoneRead(w, m, amount) PROVE MoneyTypeOK'
  <2>1. PICK c : c = [NoCash EXCEPT !.amount = amount]
    OBVIOUS
  <2>2. c \in CashRows /\ c.amount = amount
    BY <1>2, <1>3, <2>1
  <2>3. \E locals : Goto(w, "um_write", locals, c) /\ UNCHANGED Database
    BY <1>7, <2>1 DEF UpdateMilestoneRead
  <2>4. QED
    BY <1>1, <1>3, <1>4, <2>2, <2>3
<1>8. ASSUME NEW m \in Milestones, DeleteMilestoneRead(w, m) PROVE MoneyTypeOK'
  BY <1>1, <1>4, <1>8, NoCashType DEF DeleteMilestoneRead
<1>9. ASSUME NEW i \in Invoices, NEW label \in HasInvoice, NEW pid, NEW amounts \in CashRows,
             ReadInvoice(w, i, label, pid, amounts), label = "pay_commit" => amounts.amount \in Nat \ {0}
      PROVE  MoneyTypeOK'
  <2>1. PICK row \in MoneyRows : row = money[i]
    BY DEF MoneyTypeOK
  <2>2. PICK c : c = [amounts EXCEPT !.was = row]
    OBVIOUS
  <2>3. c \in CashRows /\ c.amount = amounts.amount
    BY <2>2 DEF CashRows
  <2>4. label \in Labels /\ label \notin HasAmounts /\ label # "um_write"
    BY DEF Labels, HasAmounts, HasInvoice
  <2>5. \E locals : Goto(w, label, locals, c) /\ UNCHANGED Database
    BY <1>9, <2>1, <2>2 DEF ReadInvoice
  <2>6. QED
    BY <1>1, <1>9, <2>3, <2>4, <2>5
<1>10. {"update_write", "send_write", "void_commit", "pay_commit", "dp_sum", "di_commit"} \subseteq HasInvoice
  BY DEF HasInvoice
<1>11. ASSUME NEW i \in Invoices, NEW amount \in Amounts \cup {Null}, NEW tax \in Taxes \cup {Null},
              UpdateRead(w, i, amount, tax)
       PROVE  MoneyTypeOK'
  BY <1>2, <1>3, <1>9, <1>10, <1>11 DEF UpdateRead
<1>12. ASSUME NEW i \in Invoices, SendRead(w, i) \/ VoidRead(w, i) \/ DeleteInvoiceRead(w, i) PROVE MoneyTypeOK'
  BY <1>9, <1>10, <1>12, NoCashType DEF SendRead, VoidRead, DeleteInvoiceRead
<1>13. ASSUME NEW i \in Invoices, NEW amount \in Amounts, PayRead(w, i, amount) PROVE MoneyTypeOK'
  BY <1>2, <1>3, <1>9, <1>10, <1>13 DEF PayRead
<1>14. ASSUME NEW i \in Invoices, NEW p \in Payments, DeletePaymentRead(w, i, p) PROVE MoneyTypeOK'
  BY <1>9, <1>10, <1>14, NoCashType DEF DeletePaymentRead
<1>15. QED
  BY <1>5, <1>6, <1>7, <1>8, <1>11, <1>12, <1>13, <1>14 DEF Arrive

-----------------------------------------------------------------------------
(* What the writes of a handler do, row by row *)

OthersKept(i) == \A j \in Invoices \ {i} : invoices'[j] = invoices[j] /\ money'[j] = money[j]
InvoicesKept == \A i \in Invoices : invoices'[i] = invoices[i] /\ money'[i] = money[i]
MilestonesKept(m) == \A k \in Milestones \ {m} : milestones'[k] = milestones[k]
AsksTheSame(i) == money'[i].amount = money[i].amount /\ money'[i].tax = money[i].tax

(* What inserting an invoice changes.                                      *)
LEMMA InsertDoes ==
  ASSUME TablesOK, NEW w \in Requests, pc[w] \in HasAmounts, NEW i \in Invoices, InsertInvoice(w, i)
  PROVE  /\ invoices[i].status = "none" /\ invoices'[i].status = "draft" /\ ~invoices'[i].sent
         /\ invoices'[i].milestone = loc[w].mid
         /\ money'[i].amount = cash[w].amount /\ money'[i].tax = cash[w].tax /\ money'[i].paid = 0
         /\ money'[i].due = cash[w].amount + cash[w].tax
         /\ OthersKept(i) /\ money' \in [Invoices -> MoneyRows]
<1>1. cash[w].amount \in Nat /\ cash[w].tax \in Nat
  BY DEF TablesOK, MoneyTypeOK, CashSet
<1>r. PICK row : row = Unpaid(cash[w])
  OBVIOUS
<1>2. /\ row \in MoneyRows
      /\ row.amount = cash[w].amount /\ row.tax = cash[w].tax /\ row.paid = 0
      /\ row.due = cash[w].amount + cash[w].tax
  BY <1>r, <1>1 DEF Unpaid, MoneyRows
<1>3. money' = [money EXCEPT ![i] = row]
  BY <1>r DEF InsertInvoice
<1>4. money'[i] = row /\ (\A j \in Invoices \ {i} : money'[j] = money[j]) /\ money' \in [Invoices -> MoneyRows]
  BY <1>2, <1>3 DEF TablesOK, MoneyTypeOK
<1>n. PICK new : new = Draft(loc[w])
  OBVIOUS
<1>5. new.status = "draft" /\ new.sent = FALSE /\ new.milestone = loc[w].mid
  BY <1>n DEF Draft, NoInvoice
<1>6. invoices[i].status = "none" /\ invoices' = [invoices EXCEPT ![i] = new]
  BY <1>n DEF InsertInvoice
<1>7. invoices'[i] = new /\ \A j \in Invoices \ {i} : invoices'[j] = invoices[j]
  BY <1>6 DEF TablesOK, ControlTypeOK
<1>8. QED
  BY <1>2, <1>4, <1>5, <1>6, <1>7 DEF OthersKept

(* What writing an invoice's paid and due amounts and status changes.      *)
LEMMA SettleDoes ==
  ASSUME TablesOK, NEW i \in Invoices, NEW paid \in Nat, NEW due \in Int, NEW status, Settle(i, paid, due, status)
  PROVE  /\ money'[i].paid = paid /\ money'[i].due = due /\ AsksTheSame(i)
         /\ invoices'[i].status = status
         /\ invoices'[i].milestone = invoices[i].milestone /\ invoices'[i].sent = invoices[i].sent
         /\ OthersKept(i) /\ money' \in [Invoices -> MoneyRows]
<1>1. money[i] \in MoneyRows
  BY DEF TablesOK, MoneyTypeOK
<1>2. PICK row : row = [money[i] EXCEPT !.paid = paid, !.due = due]
  OBVIOUS
<1>3. row \in MoneyRows /\ row.paid = paid /\ row.due = due /\ row.amount = money[i].amount /\ row.tax = money[i].tax
  BY <1>1, <1>2 DEF MoneyRows
<1>4. money' = [money EXCEPT ![i] = row]
  BY <1>2 DEF Settle
<1>5. money'[i] = row /\ (\A j \in Invoices \ {i} : money'[j] = money[j]) /\ money' \in [Invoices -> MoneyRows]
  BY <1>3, <1>4 DEF TablesOK, MoneyTypeOK
<1>6. invoices' = [invoices EXCEPT ![i].status = status]
  BY DEF Settle
<1>7. /\ invoices'[i].status = status /\ invoices'[i].milestone = invoices[i].milestone
      /\ invoices'[i].sent = invoices[i].sent
      /\ \A j \in Invoices \ {i} : invoices'[j] = invoices[j]
  BY <1>6 DEF TablesOK, ControlTypeOK, InvoiceRows
<1>8. QED
  BY <1>3, <1>5, <1>7 DEF OthersKept, AsksTheSame

(* What linking a milestone to an invoice changes.                         *)
LEMMA RelinkDoes ==
  ASSUME TablesOK, NEW m \in Milestones \cup {Null}, NEW status \in {"pending", "invoiced", "paid"},
         NEW i \in Invoices \cup {Null}, Relink(m, status, i)
  PROVE  /\ m # Null => milestones'[m].status = status /\ milestones'[m].invoice = i
         /\ MilestonesKept(m) /\ milestones' \in [Milestones -> MilestoneRows]
<1>1. CASE m = Null
  BY <1>1 DEF Relink, MilestonesKept, TablesOK, MoneyTypeOK
<1>2. CASE m # Null
  <2>1. m \in Milestones /\ milestones[m] \in MilestoneRows
    BY <1>2 DEF TablesOK, MoneyTypeOK
  <2>2. PICK row : row = [milestones[m] EXCEPT !.status = status, !.invoice = i]
    OBVIOUS
  <2>3. row \in MilestoneRows /\ row.status = status /\ row.invoice = i
    BY <2>1, <2>2 DEF MilestoneRows
  <2>4. milestones' = [milestones EXCEPT ![m] = row]
    BY <1>2, <2>2 DEF Relink
  <2>5. QED
    BY <2>1, <2>3, <2>4 DEF MilestonesKept, TablesOK, MoneyTypeOK
<1>3. QED
  BY <1>1, <1>2

(* What changing a milestone's status changes.                             *)
LEMMA RestateDoes ==
  ASSUME TablesOK, NEW m \in Milestones \cup {Null}, NEW status \in {"pending", "invoiced", "paid"},
         Restate(m, status)
  PROVE  /\ m # Null => milestones'[m].status = status /\ milestones'[m].invoice = milestones[m].invoice
         /\ MilestonesKept(m) /\ milestones' \in [Milestones -> MilestoneRows]
BY DEF Restate, MilestonesKept, TablesOK, MoneyTypeOK, MilestoneRows

(* The invoice a handler is about.                                         *)
LEMMA HandlersInvoice ==
  ASSUME TablesOK, NEW w \in Requests, pc[w] \in HasInvoice
  PROVE  /\ loc[w].iid \in Invoices /\ loc[w].row.milestone \in Milestones \cup {Null}
         /\ loc[w].row.status \in InvoiceStatuses /\ loc[w].row \in InvoiceRows
         /\ cash[w].was \in MoneyRows /\ cash[w].sum \in Nat
         /\ cash[w].was.paid \in Nat /\ Total(cash[w].was) \in Nat
<1>1. loc[w].iid \in Invoices /\ loc[w].row \in InvoiceRows /\ loc[w].row.status \notin Gone
  BY DEF TablesOK, ControlTypeOK, LocalsSet, Locals
<1>2. cash[w].was \in MoneyRows /\ cash[w].sum \in Nat
  BY DEF TablesOK, MoneyTypeOK, CashRows
<1>3. QED
  BY <1>1, <1>2 DEF InvoiceRows, MoneyRows, Total

(* The commit of a payment.                                                *)
LEMMA PayDoes ==
  ASSUME TablesOK, NEW w \in Requests, PayCommit(w), ~Rollback(w),
         NEW i, i = loc[w].iid, NEW was, was = cash[w].was, NEW paid, paid = was.paid + cash[w].amount
  PROVE  /\ Finish(w) /\ pc[w] = "pay_commit" /\ InvoiceExists(i) /\ UNCHANGED nextNumber
         /\ paid \in Nat \ {0} /\ Total(was) \in Nat
         /\ \E p \in Payments :
              /\ payments[p].status = "none"
              /\ payments' = [payments EXCEPT ![p] = [status |-> "live", invoice |-> i, amount |-> cash[w].amount]]
         /\ money'[i].paid = paid /\ money'[i].due = Total(was) - paid /\ AsksTheSame(i)
         /\ invoices'[i].status = IF Total(was) - paid <= 0 THEN "paid" ELSE "partial"
         /\ invoices'[i].milestone = invoices[i].milestone /\ invoices'[i].sent = invoices[i].sent
         /\ OthersKept(i) /\ money' \in [Invoices -> MoneyRows]
         /\ \E m \in Milestones \cup {Null} :
              /\ m = IF Total(was) - paid <= 0 THEN loc[w].row.milestone ELSE Null
              /\ m # Null => milestones'[m].status = "paid" /\ milestones'[m].invoice = milestones[m].invoice
              /\ MilestonesKept(m)
         /\ milestones' \in [Milestones -> MilestoneRows]
<1>1. pc[w] = "pay_commit" /\ pc[w] \in HasInvoice /\ cash[w].amount \in Nat \ {0}
  BY DEF PayCommit, HasInvoice, TablesOK, MoneyTypeOK, CashSet
<1>2. /\ i \in Invoices /\ loc[w].row.milestone \in Milestones \cup {Null}
      /\ was.paid \in Nat /\ Total(was) \in Nat
  BY <1>1, HandlersInvoice
<1>3. paid \in Nat \ {0}
  BY <1>1, <1>2
<1>4. PICK due \in Int : due = Total(was) - paid
  BY <1>2, <1>3
<1>5. PICK status : status = IF due <= 0 THEN "paid" ELSE "partial"
  OBVIOUS
<1>6. PaidStatus(loc[w].row, paid, due) = status
  BY <1>3, <1>5 DEF PaidStatus
<1>7. PICK m \in Milestones \cup {Null} : m = IF status = "paid" THEN loc[w].row.milestone ELSE Null
  BY <1>2
<1>8. /\ InvoiceExists(i) /\ Finish(w) /\ UNCHANGED nextNumber
      /\ \E p \in Payments :
           /\ payments[p].status = "none"
           /\ payments' = [payments EXCEPT ![p] = [status |-> "live", invoice |-> i, amount |-> cash[w].amount]]
      /\ Settle(i, paid, due, status)
      /\ Restate(m, "paid")
  BY <1>4, <1>6, <1>7 DEF PayCommit
<1>9. /\ money'[i].paid = paid /\ money'[i].due = due /\ AsksTheSame(i)
      /\ invoices'[i].status = status
      /\ invoices'[i].milestone = invoices[i].milestone /\ invoices'[i].sent = invoices[i].sent
      /\ OthersKept(i) /\ money' \in [Invoices -> MoneyRows]
  BY <1>2, <1>3, <1>8, SettleDoes
<1>10. /\ m # Null => milestones'[m].status = "paid" /\ milestones'[m].invoice = milestones[m].invoice
       /\ MilestonesKept(m) /\ milestones' \in [Milestones -> MilestoneRows]
  BY <1>8, RestateDoes
<1>11. m = IF Total(was) - paid <= 0 THEN loc[w].row.milestone ELSE Null
  BY <1>4, <1>5, <1>7
<1>12. QED
  BY <1>1, <1>2, <1>3, <1>4, <1>5, <1>8, <1>9, <1>10, <1>11

(* The commit that deletes a payment.                                      *)
Left(w) == CASE cash[w].sum <= 0 -> IF loc[w].row.sent THEN "sent" ELSE "draft"
             [] cash[w].sum > 0 /\ Total(cash[w].was) - cash[w].sum <= 0 -> "paid"
             [] OTHER -> "partial"

(* What deleting a payment changes.                                        *)
LEMMA DeletePaymentDoes ==
  ASSUME TablesOK, NEW w \in Requests, DeletePaymentCommit(w), ~Rollback(w), NEW i, i = loc[w].iid
  PROVE  /\ Finish(w) /\ pc[w] = "dp_commit" /\ InvoiceExists(i) /\ UNCHANGED nextNumber
         /\ loc[w].pid \in Payments /\ payments[loc[w].pid].status = "live"
         /\ payments' = [payments EXCEPT ![loc[w].pid].status = "deleted"]
         /\ money'[i].paid = cash[w].sum /\ money'[i].due = Total(cash[w].was) - cash[w].sum /\ AsksTheSame(i)
         /\ invoices'[i].status = Left(w)
         /\ invoices'[i].milestone = invoices[i].milestone /\ invoices'[i].sent = invoices[i].sent
         /\ OthersKept(i) /\ money' \in [Invoices -> MoneyRows]
         /\ milestones' \in [Milestones -> MilestoneRows]
         /\ \A k \in Milestones : MilestoneExists(k) => MilestoneExists(k)'
<1>1. pc[w] = "dp_commit" /\ pc[w] \in HasInvoice
  BY DEF DeletePaymentCommit, HasInvoice
<1>2. /\ i \in Invoices /\ loc[w].row.milestone \in Milestones \cup {Null}
      /\ cash[w].sum \in Nat /\ Total(cash[w].was) \in Nat
  BY <1>1, HandlersInvoice
<1>3. loc[w].pid \in Payments
  BY <1>1 DEF TablesOK, ControlTypeOK, LocalsSet, Locals
<1>4. PICK due \in Int : due = Total(cash[w].was) - cash[w].sum
  BY <1>2
<1>5. PICK status : status = Left(w)
  OBVIOUS
<1>6. PICK m \in Milestones \cup {Null} :
        m = IF loc[w].row.status = "paid" /\ status # "paid" THEN loc[w].row.milestone ELSE Null
  BY <1>2
<1>7. /\ InvoiceExists(i) /\ Finish(w) /\ UNCHANGED nextNumber
      /\ payments[loc[w].pid].status = "live"
      /\ payments' = [payments EXCEPT ![loc[w].pid].status = "deleted"]
      /\ Settle(i, cash[w].sum, due, status)
      /\ Restate(m, "invoiced")
  BY <1>4, <1>5, <1>6 DEF DeletePaymentCommit, Left
<1>8. /\ money'[i].paid = cash[w].sum /\ money'[i].due = due /\ AsksTheSame(i)
      /\ invoices'[i].status = status
      /\ invoices'[i].milestone = invoices[i].milestone /\ invoices'[i].sent = invoices[i].sent
      /\ OthersKept(i) /\ money' \in [Invoices -> MoneyRows]
  BY <1>2, <1>7, SettleDoes
<1>9. /\ milestones' \in [Milestones -> MilestoneRows]
      /\ m # Null => milestones'[m].status = "invoiced"
      /\ MilestonesKept(m)
  BY <1>7, RestateDoes
<1>10. \A k \in Milestones : MilestoneExists(k) => MilestoneExists(k)'
  BY <1>9, RowsAssumption DEF MilestoneExists, MilestonesKept, Gone
<1>11. QED
  BY <1>1, <1>3, <1>4, <1>5, <1>7, <1>8, <1>9, <1>10

(* The writes of an update, a sending and a voiding.                       *)
LEMMA UpdateDoes ==
  ASSUME TablesOK, NEW w \in Requests, UpdateWrite(w), ~Rollback(w), NEW i, i = loc[w].iid
  PROVE  /\ Finish(w) /\ pc[w] = "update_write" /\ InvoiceExists(i)
         /\ UNCHANGED <<invoices, payments, milestones, nextNumber>>
         /\ money'[i].paid = money[i].paid /\ money' \in [Invoices -> MoneyRows]
         /\ money[i] = cash[w].was => money'[i].due = Total(money'[i]) - money[i].paid
         /\ \A j \in Invoices \ {i} : money'[j] = money[j]
<1>1. pc[w] = "update_write" /\ pc[w] \in HasInvoice
  BY DEF UpdateWrite, HasInvoice
<1>2. i \in Invoices /\ money[i] \in MoneyRows /\ cash[w] \in CashRows /\ cash[w].was \in MoneyRows
  BY <1>1, HandlersInvoice DEF TablesOK, MoneyTypeOK
<1>3. PICK amount \in Nat : amount = Given(cash[w].amount, money[i].amount)
  BY <1>2 DEF Given, CashRows, MoneyRows
<1>4. PICK tax \in Nat : tax = Given(cash[w].tax, money[i].tax)
  BY <1>2 DEF Given, CashRows, MoneyRows
<1>5. PICK due \in Int :
        due = Given(cash[w].amount, cash[w].was.amount) + Given(cash[w].tax, cash[w].was.tax) - cash[w].was.paid
  BY <1>2 DEF Given, CashRows, MoneyRows
<1>6. PICK row : row = [amount |-> amount, tax |-> tax, paid |-> money[i].paid, due |-> due]
  OBVIOUS
<1>7. row \in MoneyRows /\ row.amount = amount /\ row.tax = tax /\ row.due = due /\ row.paid = money[i].paid
  BY <1>2, <1>6 DEF MoneyRows
<1>8. /\ InvoiceExists(i) /\ Finish(w) /\ UNCHANGED <<invoices, payments, milestones, nextNumber>>
      /\ money' = [money EXCEPT ![i] = row]
  BY <1>3, <1>4, <1>5, <1>6 DEF UpdateWrite
<1>9. money'[i] = row /\ money' \in [Invoices -> MoneyRows] /\ \A j \in Invoices \ {i} : money'[j] = money[j]
  BY <1>2, <1>7, <1>8 DEF TablesOK, MoneyTypeOK
<1>10. money[i] = cash[w].was => due = Total(row) - money[i].paid
  <2>1. Total(row) = amount + tax /\ money[i].paid \in Nat
    BY <1>2, <1>7 DEF Total, MoneyRows
  <2>2. money[i] = cash[w].was => due = amount + tax - money[i].paid
    BY <1>3, <1>4, <1>5
  <2>3. QED
    BY <2>1, <2>2
<1>11. QED
  BY <1>1, <1>7, <1>8, <1>9, <1>10

(* What sending an invoice changes.                                        *)
LEMMA SendDoes ==
  ASSUME TablesOK, NEW w \in Requests, SendWrite(w), ~Rollback(w), NEW i, i = loc[w].iid
  PROVE  /\ Finish(w) /\ pc[w] = "send_write" /\ InvoiceExists(i)
         /\ UNCHANGED <<money, payments, milestones, nextNumber>>
         /\ invoices'[i].status = "sent" /\ invoices'[i].sent /\ invoices'[i].milestone = invoices[i].milestone
         /\ \A j \in Invoices \ {i} : invoices'[j] = invoices[j]
<1>1. pc[w] = "send_write" /\ pc[w] \in HasInvoice
  BY DEF SendWrite, HasInvoice
<1>2. i \in Invoices /\ invoices[i] \in InvoiceRows
  BY <1>1, HandlersInvoice DEF TablesOK, ControlTypeOK
<1>3. PICK row : row = [invoices[i] EXCEPT !.status = "sent", !.sent = TRUE]
  OBVIOUS
<1>4. row.status = "sent" /\ row.sent = TRUE /\ row.milestone = invoices[i].milestone
  BY <1>2, <1>3 DEF InvoiceRows
<1>5. /\ InvoiceExists(i) /\ Finish(w) /\ UNCHANGED <<money, payments, milestones, nextNumber>>
      /\ invoices' = [invoices EXCEPT ![i] = row]
  BY <1>3 DEF SendWrite
<1>6. invoices'[i] = row /\ \A j \in Invoices \ {i} : invoices'[j] = invoices[j]
  BY <1>2, <1>5 DEF TablesOK, ControlTypeOK
<1>7. QED
  BY <1>1, <1>4, <1>5, <1>6

(* What voiding an invoice changes.                                        *)
LEMMA VoidDoes ==
  ASSUME TablesOK, NEW w \in Requests, VoidCommit(w), ~Rollback(w), NEW i, i = loc[w].iid,
         NEW m, m = loc[w].row.milestone
  PROVE  /\ Finish(w) /\ pc[w] = "void_commit" /\ InvoiceExists(i)
         /\ UNCHANGED <<money, payments, nextNumber>>
         /\ invoices'[i].status = "voided" /\ invoices'[i].milestone = invoices[i].milestone
         /\ \A j \in Invoices \ {i} : invoices'[j] = invoices[j]
         /\ m # Null => milestones'[m].status = "pending" /\ milestones'[m].invoice = Null
         /\ MilestonesKept(m) /\ milestones' \in [Milestones -> MilestoneRows]
<1>1. pc[w] = "void_commit" /\ pc[w] \in HasInvoice
  BY DEF VoidCommit, HasInvoice
<1>2. i \in Invoices /\ m \in Milestones \cup {Null}
  BY <1>1, HandlersInvoice
<1>3. /\ InvoiceExists(i) /\ Finish(w) /\ UNCHANGED <<money, payments, nextNumber>>
      /\ invoices' = [invoices EXCEPT ![i].status = "voided"] /\ Relink(m, "pending", Null)
  BY DEF VoidCommit
<1>4. /\ invoices'[i].status = "voided" /\ invoices'[i].milestone = invoices[i].milestone
      /\ \A j \in Invoices \ {i} : invoices'[j] = invoices[j]
  BY <1>2, <1>3 DEF TablesOK, ControlTypeOK, InvoiceRows
<1>5. QED
  BY <1>1, <1>2, <1>3, <1>4, RelinkDoes

(* The transactions that insert an invoice.                                *)
LEMMA CreateDoes ==
  ASSUME TablesOK, NEW w \in Requests, CreateCommit(w) \/ GenerateCommit(w), ~Rollback(w)
  PROVE  /\ Finish(w) /\ pc[w] \in {"create_commit", "gen_commit"} /\ UNCHANGED payments
         /\ \E i \in Invoices :
              /\ InsertInvoice(w, i)
              /\ pc[w] = "create_commit" => UNCHANGED milestones
              /\ pc[w] = "gen_commit" =>
                   /\ loc[w].mid \in Milestones
                   /\ milestones'[loc[w].mid].status = "invoiced" /\ milestones'[loc[w].mid].invoice = i
                   /\ MilestonesKept(loc[w].mid)
         /\ milestones' \in [Milestones -> MilestoneRows]
<1>1. CASE CreateCommit(w)
  BY <1>1 DEF CreateCommit, TablesOK, MoneyTypeOK
<1>2. CASE GenerateCommit(w)
  <2>1. PICK i \in Invoices : InsertInvoice(w, i) /\ Relink(loc[w].mid, "invoiced", i)
    BY <1>2 DEF GenerateCommit
  <2>2. pc[w] = "gen_commit" /\ Finish(w) /\ UNCHANGED payments /\ loc[w].mid \in Milestones /\ loc[w].mid # Null
    BY <1>2, RowsAssumption DEF GenerateCommit, MilestoneExists
  <2>3. /\ milestones'[loc[w].mid].status = "invoiced" /\ milestones'[loc[w].mid].invoice = i
        /\ MilestonesKept(loc[w].mid) /\ milestones' \in [Milestones -> MilestoneRows]
    BY <2>1, <2>2, RelinkDoes
  <2>4. QED
    BY <2>1, <2>2, <2>3
<1>3. QED
  BY <1>1, <1>2

(* The writes to a milestone.                                              *)
LEMMA MilestoneWriteDoes ==
  ASSUME TablesOK, NEW w \in Requests, UpdateMilestoneWrite(w) \/ DeleteMilestoneWrite(w), ~Rollback(w),
         NEW m, m = loc[w].mid
  PROVE  /\ Finish(w) /\ pc[w] \in {"um_write", "dm_write"} /\ UNCHANGED <<money, payments>>
         /\ m \in Milestones /\ MilestonesKept(m) /\ milestones' \in [Milestones -> MilestoneRows]
         /\ \/ /\ UNCHANGED invoices
               /\ milestones'[m].status = milestones[m].status /\ milestones'[m].invoice = milestones[m].invoice
            \/ /\ pc[w] = "dm_write" /\ milestones'[m].status = "deleted"
               /\ \A i \in Invoices :
                    /\ invoices'[i].status = invoices[i].status /\ invoices'[i].sent = invoices[i].sent
                    /\ invoices'[i].milestone = IF invoices[i].milestone = m THEN Null ELSE invoices[i].milestone
<1>1. CASE UpdateMilestoneWrite(w)
  <2>1. /\ Finish(w) /\ pc[w] = "um_write" /\ UNCHANGED <<invoices, money, payments>> /\ m \in Milestones
        /\ milestones' = [milestones EXCEPT ![m].amount = cash[w].amount]
    BY <1>1 DEF UpdateMilestoneWrite, MilestoneExists
  <2>2. cash[w].amount \in Nat
    BY <2>1 DEF TablesOK, MoneyTypeOK, CashSet
  <2>3. QED
    BY <2>1, <2>2 DEF TablesOK, MoneyTypeOK, MilestoneRows, MilestonesKept
<1>2. CASE DeleteMilestoneWrite(w)
  <2>1. /\ Finish(w) /\ pc[w] = "dm_write" /\ UNCHANGED <<money, payments>> /\ m \in Milestones
        /\ milestones' = [milestones EXCEPT ![m].status = "deleted"]
        /\ invoices' = [i \in Invoices |-> IF invoices[i].milestone = m
             THEN [invoices[i] EXCEPT !.milestone = Null] ELSE invoices[i]]
    BY <1>2 DEF DeleteMilestoneWrite, MilestoneExists
  <2>2. /\ milestones'[m].status = "deleted" /\ MilestonesKept(m)
        /\ milestones' \in [Milestones -> MilestoneRows]
    BY <2>1 DEF TablesOK, MoneyTypeOK, MilestoneRows, MilestonesKept
  <2>3. ASSUME NEW i \in Invoices
        PROVE  /\ invoices'[i].status = invoices[i].status /\ invoices'[i].sent = invoices[i].sent
               /\ invoices'[i].milestone = IF invoices[i].milestone = m THEN Null ELSE invoices[i].milestone
    BY <2>1 DEF TablesOK, ControlTypeOK, InvoiceRows
  <2>4. QED
    BY <2>1, <2>2, <2>3
<1>3. QED
  BY <1>1, <1>2

(* The commit that deletes an invoice.                                     *)
LEMMA DeleteInvoiceDoes ==
  ASSUME TablesOK, NEW w \in Requests, DeleteInvoiceCommit(w), ~Rollback(w), NEW i, i = loc[w].iid
  PROVE  /\ Finish(w) /\ pc[w] = "di_commit" /\ InvoiceExists(i) /\ UNCHANGED money
         /\ invoices'[i].status = "deleted" /\ \A j \in Invoices \ {i} : invoices'[j] = invoices[j]
         /\ \A p \in Payments : payments'[p] = IF p \in PaymentsOf(i) THEN [payments[p] EXCEPT !.status = "deleted"]
                                               ELSE payments[p]
         /\ payments' \in [Payments -> PaymentRows]
         /\ milestones' \in [Milestones -> MilestoneRows]
         /\ \A k \in Milestones : MilestoneExists(k) => MilestoneExists(k)'
<1>1. pc[w] = "di_commit" /\ pc[w] \in HasInvoice
  BY DEF DeleteInvoiceCommit, HasInvoice
<1>2. i \in Invoices
  BY <1>1, HandlersInvoice
<1>3. PICK m : m = loc[w].row.milestone
  OBVIOUS
<1>4. /\ InvoiceExists(i) /\ Finish(w) /\ UNCHANGED money
      /\ milestones' = [k \in Milestones |->
           IF k = m \/ milestones[k].invoice = i
           THEN [milestones[k] EXCEPT !.status = "pending", !.invoice = Null]
           ELSE milestones[k]]
      /\ payments' = [p \in Payments |->
           IF p \in PaymentsOf(i) THEN [payments[p] EXCEPT !.status = "deleted"] ELSE payments[p]]
      /\ invoices' = [invoices EXCEPT ![i].status = "deleted"]
  BY <1>3 DEF DeleteInvoiceCommit
<1>5. invoices'[i].status = "deleted" /\ \A j \in Invoices \ {i} : invoices'[j] = invoices[j]
  BY <1>2, <1>4 DEF TablesOK, ControlTypeOK, InvoiceRows
<1>6. ASSUME NEW p \in Payments PROVE payments'[p] \in PaymentRows
  BY <1>4 DEF TablesOK, MoneyTypeOK, PaymentRows
<1>7. payments' \in [Payments -> PaymentRows]
  BY <1>4, <1>6
<1>8. ASSUME NEW k \in Milestones
      PROVE  milestones'[k] \in MilestoneRows /\ (MilestoneExists(k) => MilestoneExists(k)')
  <2>1. PICK row : row = [milestones[k] EXCEPT !.status = "pending", !.invoice = Null]
    OBVIOUS
  <2>2. row \in MilestoneRows /\ row.status = "pending"
    BY <2>1 DEF TablesOK, MoneyTypeOK, MilestoneRows
  <2>3. milestones'[k] = row \/ milestones'[k] = milestones[k]
    BY <1>4, <2>1
  <2>4. MilestoneExists(k) => MilestoneExists(k)'
    BY <2>2, <2>3 DEF MilestoneExists, Gone
  <2>5. QED
    BY <2>2, <2>3, <2>4 DEF TablesOK, MoneyTypeOK
<1>9. milestones' \in [Milestones -> MilestoneRows]
  BY <1>4, <1>8
<1>10. QED
  BY <1>1, <1>4, <1>5, <1>7, <1>8, <1>9

(* Every step of a handler keeps the amounts well typed.                   *)
LEMMA HandlerMoney ==
  ASSUME TablesOK, NEW w \in Requests, HandlerStep(w) \/ DbError(w)
  PROVE  MoneyTypeOK'
<1>1. ASSUME Finish(w), money' \in [Invoices -> MoneyRows], payments' \in [Payments -> PaymentRows],
             milestones' \in [Milestones -> MilestoneRows]
      PROVE  MoneyTypeOK'
  BY <1>1, FinishCash DEF MoneyTypeOK, TablesOK
<1>2. CASE Rollback(w)
  BY <1>1, <1>2 DEF Rollback, Database, TablesOK, MoneyTypeOK
<1>3. CASE (CreateCommit(w) \/ GenerateCommit(w)) /\ ~Rollback(w)
  <2>1. PICK i \in Invoices : InsertInvoice(w, i)
    BY <1>3, CreateDoes
  <2>2. pc[w] \in HasAmounts
    BY <1>3 DEF CreateCommit, GenerateCommit, HasAmounts
  <2>3. QED
    BY <1>1, <1>3, <2>1, <2>2, CreateDoes, InsertDoes DEF TablesOK, MoneyTypeOK
<1>4. CASE GenerateNumber(w)
  <2>1. cash[w] \in CashRows /\ cash[w].amount \in Nat /\ cash[w].tax \in Nat
    BY <1>4 DEF GenerateNumber, TablesOK, MoneyTypeOK, CashSet, HasAmounts
  <2>2. "gen_commit" \in Labels
    BY DEF Labels, HasAmounts
  <2>3. \E locals : Goto(w, "gen_commit", locals, cash[w])
    BY <1>4 DEF GenerateNumber
  <2>4. cash' \in [Requests -> CashRows] /\ \A v \in Requests : CashSet(v)'
    BY <2>1, <2>2, <2>3, GotoCash DEF TablesOK
  <2>5. QED
    BY <1>4, <2>4 DEF GenerateNumber, Database, MoneyTypeOK, TablesOK
<1>5. CASE UpdateWrite(w) /\ ~Rollback(w)
  BY <1>1, <1>5, UpdateDoes DEF TablesOK, MoneyTypeOK
<1>6. CASE SendWrite(w) /\ ~Rollback(w)
  BY <1>1, <1>6, SendDoes DEF TablesOK, MoneyTypeOK
<1>7. CASE VoidCommit(w) /\ ~Rollback(w)
  BY <1>1, <1>7, VoidDoes DEF TablesOK, MoneyTypeOK
<1>8. CASE PayCommit(w) /\ ~Rollback(w)
  <2>1. pc[w] = "pay_commit" /\ pc[w] \in HasInvoice
    BY <1>8 DEF PayCommit, HasInvoice
  <2>2. loc[w].iid \in Invoices /\ cash[w].amount \in Nat
    BY <2>1, HandlersInvoice DEF TablesOK, MoneyTypeOK, CashSet
  <2>3. PICK row \in PaymentRows : row = [status |-> "live", invoice |-> loc[w].iid, amount |-> cash[w].amount]
    BY <2>2 DEF PaymentRows
  <2>4. payments' \in [Payments -> PaymentRows]
    BY <1>8, <2>3, PayDoes DEF TablesOK, MoneyTypeOK
  <2>5. QED
    BY <1>1, <1>8, <2>4, PayDoes
<1>9. CASE DeletePaymentSum(w)
  <2>1. PICK sum \in Nat : sum = PaymentSum(PaymentsOf(loc[w].iid) \ {loc[w].pid})
    BY SumType DEF PaymentsOf, TablesOK
  <2>2. PICK c : c = [cash[w] EXCEPT !.sum = sum]
    OBVIOUS
  <2>3. c \in CashRows
    BY <2>2 DEF TablesOK, MoneyTypeOK, CashRows
  <2>4. "dp_commit" \in Labels /\ "dp_commit" \notin HasAmounts
    BY DEF Labels, HasAmounts, HasInvoice
  <2>5. \E locals : Goto(w, "dp_commit", locals, c)
    BY <1>9, <2>1, <2>2 DEF DeletePaymentSum
  <2>6. cash' \in [Requests -> CashRows] /\ \A v \in Requests : CashSet(v)'
    BY <2>3, <2>4, <2>5, GotoCash DEF TablesOK
  <2>7. QED
    BY <1>9, <2>6 DEF DeletePaymentSum, Database, MoneyTypeOK, TablesOK
<1>10. CASE DeletePaymentCommit(w) /\ ~Rollback(w)
  <2>0. PICK p \in Payments : p = loc[w].pid /\ payments' = [payments EXCEPT ![p].status = "deleted"]
    BY <1>10, DeletePaymentDoes
  <2>1. payments' \in [Payments -> PaymentRows]
    BY <2>0 DEF TablesOK, MoneyTypeOK, PaymentRows
  <2>2. QED
    BY <1>1, <1>10, <2>1, DeletePaymentDoes
<1>11. CASE DeleteInvoiceCommit(w) /\ ~Rollback(w)
  BY <1>1, <1>11, DeleteInvoiceDoes DEF TablesOK, MoneyTypeOK
<1>12. CASE (UpdateMilestoneWrite(w) \/ DeleteMilestoneWrite(w)) /\ ~Rollback(w)
  BY <1>1, <1>12, MilestoneWriteDoes DEF TablesOK, MoneyTypeOK
<1>13. CASE DbError(w)
  BY <1>2, <1>13 DEF DbError
<1>14. QED
  BY <1>2, <1>3, <1>4, <1>5, <1>6, <1>7, <1>8, <1>9, <1>10, <1>11, <1>12, <1>13 DEF HandlerStep

(* Every step keeps the tables well typed.                                 *)
LEMMA TablesNext == TablesOK /\ [Next]_vars => TablesOK'
<1> SUFFICES ASSUME TablesOK, [Next]_vars PROVE MoneyTypeOK'
  BY TypeNext DEF TablesOK
<1>1. CASE Crash
  <2>1. UNCHANGED <<money, payments, milestones>> /\ \A w \in Requests : pc'[w] = "idle" /\ cash'[w] = NoCash
    BY <1>1 DEF Crash, Database
  <2>2. cash' \in [Requests -> CashRows]
    BY <1>1, NoCashType DEF Crash
  <2>3. \A w \in Requests : CashSet(w)'
    BY <2>1 DEF CashSet, HasAmounts
  <2>4. QED
    BY <2>1, <2>2, <2>3 DEF MoneyTypeOK, TablesOK
<1>2. ASSUME NEW new \in NewMilestones, CreateMilestones(new) PROVE MoneyTypeOK'
  <2>1. PICK ids \in SUBSET Milestones : new \in [ids -> Amounts]
    BY DEF NewMilestones
  <2>2. ASSUME NEW m \in Milestones PROVE milestones'[m] \in MilestoneRows
    <3>1. CASE m \in ids
      <4>1. new[m] \in Nat
        BY <2>1, <3>1, MoneyAssumption
      <4>2. QED
        BY <1>2, <2>1, <3>1, <4>1 DEF CreateMilestones, MilestoneRows
    <3>2. CASE m \notin ids
      BY <1>2, <2>1, <3>2 DEF CreateMilestones, TablesOK, MoneyTypeOK
    <3>3. QED
      BY <3>1, <3>2
  <2>3. milestones' \in [Milestones -> MilestoneRows]
    BY <1>2, <2>2 DEF CreateMilestones
  <2>4. QED
    BY <1>2, <2>3 DEF CreateMilestones, TablesOK, MoneyTypeOK, CashSet
<1>3. CASE Wait \/ UNCHANGED vars
  BY <1>3 DEF Wait, vars, TablesOK, MoneyTypeOK, CashSet
<1>4. QED
  BY <1>1, <1>2, <1>3, ArriveMoney, HandlerMoney DEF Next, TablesOK

-----------------------------------------------------------------------------
(* Overlapping payments: what the money columns of an invoice keep *)

(* What a handler read of its invoice: the total has not changed since, as *)
(* long as no invoice is edited, and what was due fitted what was paid.    *)
InHand(w) ==
  pc[w] \in HasInvoice =>
    /\ invoices[loc[w].iid].status # "none"
    /\ cash[w].was.amount = money[loc[w].iid].amount /\ cash[w].was.tax = money[loc[w].iid].tax
    /\ cash[w].was.due = Total(cash[w].was) - cash[w].was.paid
    /\ pc[w] # "update_write"
    /\ pc[w] = "pay_commit" => cash[w].amount <= cash[w].was.due
    /\ pc[w] \in {"dp_sum", "dp_commit"} =>
         payments[loc[w].pid].status # "none" /\ payments[loc[w].pid].invoice = loc[w].iid

BalanceInv == BalanceKept /\ PaidWithinTotal /\ \A w \in Requests : InHand(w)

(* Rows stay what they are about: an invoice keeps its total, a payment    *)
(* its invoice, and a payment that is deleted remains so.                  *)
RowsLast ==
  /\ \A i \in Invoices : invoices[i].status # "none" => invoices'[i].status # "none" /\ AsksTheSame(i)
  /\ \A p \in Payments : payments[p].status # "none" =>
       /\ payments'[p].status # "none" /\ payments'[p].invoice = payments[p].invoice
       /\ payments[p].status = "deleted" => payments'[p].status = "deleted"

(* What a request holds stays what it read while rows last and it does not *)
(* move.                                                                   *)
LEMMA InHandKept ==
  ASSUME TablesOK, RowsLast, NEW v \in Requests, InHand(v),
         pc'[v] = pc[v], loc'[v] = loc[v], cash'[v] = cash[v]
  PROVE  InHand(v)'
<1> SUFFICES ASSUME pc[v] \in HasInvoice
             PROVE  InHand(v)'
  BY DEF InHand
<1>1. loc[v].iid \in Invoices /\ (pc[v] \in {"dp_sum", "dp_commit"} => loc[v].pid \in Payments)
  BY HandlersInvoice DEF TablesOK, ControlTypeOK, LocalsSet, Locals
<1>2. /\ invoices'[loc[v].iid].status # "none"
      /\ money'[loc[v].iid].amount = money[loc[v].iid].amount /\ money'[loc[v].iid].tax = money[loc[v].iid].tax
  BY <1>1 DEF InHand, RowsLast, AsksTheSame
<1>3. pc[v] \in {"dp_sum", "dp_commit"} =>
        payments'[loc[v].pid].status # "none" /\ payments'[loc[v].pid].invoice = loc[v].iid
  BY <1>1 DEF InHand, RowsLast
<1>4. QED
  BY <1>2, <1>3 DEF InHand

(* A request that ends holds nothing.                                      *)
LEMMA FinishInHand ==
  ASSUME TablesOK, \A v \in Requests : InHand(v), RowsLast, NEW w \in Requests, Finish(w)
  PROVE  \A v \in Requests : InHand(v)'
<1>1. pc'[w] = "idle" /\ \A v \in Requests \ {w} : pc'[v] = pc[v] /\ loc'[v] = loc[v] /\ cash'[v] = cash[v]
  BY DEF Finish, Goto, TablesOK, ControlTypeOK, MoneyTypeOK
<1>2. InHand(w)'
  BY <1>1 DEF InHand, HasInvoice
<1>3. QED
  BY <1>1, <1>2, InHandKept

(* Where no table changes, rows last.                                      *)
LEMMA SameRows == ASSUME UNCHANGED Database PROVE RowsLast
BY DEF Database, RowsLast, AsksTheSame

(* A handler that ends with the tables as they were, or that wrote only    *)
(* the money of its invoice i.                                             *)
LEMMA BalanceWrite ==
  ASSUME TablesOK, BalanceInv, NEW w \in Requests, Finish(w), RowsLast,
         NEW i \in Invoices,
         \A j \in Invoices \ {i} : InvoiceExists(j)' => InvoiceExists(j) /\ money'[j] = money[j],
         InvoiceExists(i)' =>
           /\ money'[i].due = Total(money'[i]) - money'[i].paid
           /\ (\A p \in Payments : payments'[p].invoice = i => payments'[p].status # "deleted")
                => money'[i].paid \in 0..Total(money'[i])
  PROVE  BalanceInv'
<1>1. \A v \in Requests : InHand(v)'
  BY FinishInHand DEF BalanceInv
<1>2. BalanceKept'
  BY DEF BalanceInv, BalanceKept, Total
<1>3. ASSUME NEW j \in Invoices, InvoiceExists(j)',
             \A p \in Payments : payments'[p].invoice = j => payments'[p].status # "deleted"
      PROVE  money'[j].paid \in 0..Total(money'[j])
  <2>1. CASE j = i
    BY <1>3, <2>1
  <2>2. CASE j # i
    <3>1. InvoiceExists(j) /\ money'[j] = money[j]
      BY <1>3, <2>2
    <3>2. \A p \in Payments : payments[p].invoice = j => payments[p].status # "deleted"
      BY <1>3 DEF RowsLast
    <3>3. QED
      BY <3>1, <3>2 DEF BalanceInv, PaidWithinTotal
  <2>3. QED
    BY <2>1, <2>2
<1>4. PaidWithinTotal'
  BY <1>3 DEF PaidWithinTotal, Total
<1>5. QED
  BY <1>1, <1>2, <1>4 DEF BalanceInv

(* No invoice comes into being and none changes its money.                 *)
LEMMA BalanceStill ==
  ASSUME TablesOK, BalanceInv, RowsLast, \A v \in Requests : InHand(v)',
         \A j \in Invoices : InvoiceExists(j)' => InvoiceExists(j) /\ money'[j] = money[j]
  PROVE  BalanceInv'
<1>1. BalanceKept'
  BY DEF BalanceInv, BalanceKept, Total
<1>2. ASSUME NEW j \in Invoices, InvoiceExists(j)',
             \A p \in Payments : payments'[p].invoice = j => payments'[p].status # "deleted"
      PROVE  money'[j].paid \in 0..Total(money'[j])
  <2>1. InvoiceExists(j) /\ money'[j] = money[j]
    BY <1>2
  <2>2. \A p \in Payments : payments[p].invoice = j => payments[p].status # "deleted"
    BY <1>2 DEF RowsLast
  <2>3. QED
    BY <2>1, <2>2 DEF BalanceInv, PaidWithinTotal
<1>3. QED
  BY <1>1, <1>2 DEF BalanceInv, PaidWithinTotal, Total

(* A request that arrives keeps the balances.                              *)
LEMMA BalanceArrive ==
  ASSUME "update" \notin Ops, TablesOK, BalanceInv, NEW w \in Requests, Arrive(w)
  PROVE  BalanceInv'
<1>1. ASSUME NEW label, NEW locals, NEW amounts, Goto(w, label, locals, amounts), UNCHANGED Database,
             InHand(w)'
      PROVE  BalanceInv'
  <2>1. \A v \in Requests \ {w} : pc'[v] = pc[v] /\ loc'[v] = loc[v] /\ cash'[v] = cash[v]
    BY <1>1 DEF Goto, TablesOK, ControlTypeOK, MoneyTypeOK
  <2>2. RowsLast
    BY <1>1, SameRows
  <2>3. \A v \in Requests : InHand(v)'
    BY <1>1, <2>1, <2>2, InHandKept DEF BalanceInv
  <2>4. QED
    BY <1>1, <2>2, <2>3, BalanceStill DEF Database, InvoiceExists
<1>2. ASSUME NEW label \in {"create_commit", "gen_number", "um_write", "dm_write"}, NEW locals, NEW amounts,
             Goto(w, label, locals, amounts), UNCHANGED Database
      PROVE  BalanceInv'
  <2>1. pc'[w] = label
    BY <1>2 DEF Goto, TablesOK, ControlTypeOK
  <2>2. InHand(w)'
    BY <2>1 DEF InHand, HasInvoice
  <2>3. QED
    BY <1>1, <1>2, <2>2
<1>3. ASSUME NEW i \in Invoices, NEW label \in HasInvoice, label # "update_write",
             NEW pid, NEW amounts \in CashRows, ReadInvoice(w, i, label, pid, amounts),
             label = "pay_commit" => amounts.amount <= money[i].due,
             label \in {"dp_sum", "dp_commit"} => pid \in PaymentsOf(i)
      PROVE  BalanceInv'
  <2>1. PICK row \in MoneyRows : row = money[i]
    BY DEF TablesOK, MoneyTypeOK
  <2>2. PICK c : c = [amounts EXCEPT !.was = row]
    OBVIOUS
  <2>3. c.was = row /\ c.amount = amounts.amount
    BY <2>2 DEF CashRows
  <2>4. PICK l : l = [NoLocals EXCEPT !.iid = i, !.pid = pid, !.row = invoices[i]]
    OBVIOUS
  <2>5. l.iid = i /\ l.pid = pid
    BY <2>4 DEF NoLocals
  <2>6. Goto(w, label, l, c) /\ UNCHANGED Database /\ InvoiceExists(i)
    BY <1>3, <2>1, <2>2, <2>4 DEF ReadInvoice
  <2>7. pc'[w] = label /\ loc'[w] = l /\ cash'[w] = c
    BY <2>6 DEF Goto, TablesOK, ControlTypeOK, MoneyTypeOK
  <2>8. row.due = Total(row) - row.paid
    BY <2>1, <2>6 DEF BalanceInv, BalanceKept
  <2>9. invoices[i].status # "none"
    BY <2>6 DEF InvoiceExists, Gone
  <2>10. label \in {"dp_sum", "dp_commit"} => payments[pid].status # "none" /\ payments[pid].invoice = i
    BY <1>3 DEF PaymentsOf
  <2>11. InHand(w)'
    BY <1>3, <2>1, <2>3, <2>5, <2>6, <2>7, <2>8, <2>9, <2>10 DEF InHand, Database
  <2>12. QED
    BY <1>1, <2>6, <2>11
<1>4. {"send_write", "void_commit", "pay_commit", "dp_sum", "di_commit"} \subseteq HasInvoice
  BY DEF HasInvoice
<1>5. \A i, amount, tax : ~UpdateRead(w, i, amount, tax)
  BY DEF UpdateRead, Begin
<1>6. ASSUME NEW i \in Invoices, SendRead(w, i) \/ VoidRead(w, i) \/ DeleteInvoiceRead(w, i) PROVE BalanceInv'
  BY <1>3, <1>4, <1>6, NoCashType DEF SendRead, VoidRead, DeleteInvoiceRead
<1>7. ASSUME NEW i \in Invoices, NEW amount \in Amounts, PayRead(w, i, amount) PROVE BalanceInv'
  <2>1. PICK c : c = [NoCash EXCEPT !.amount = amount]
    OBVIOUS
  <2>2. c \in CashRows /\ c.amount = amount
    BY <2>1, NoCashType, MoneyAssumption DEF NoCash, CashRows
  <2>3. ReadInvoice(w, i, "pay_commit", Null, c) /\ amount <= money[i].due
    BY <1>7, <2>1 DEF PayRead
  <2>4. QED
    BY <1>3, <1>4, <2>2, <2>3
<1>8. ASSUME NEW i \in Invoices, NEW p \in Payments, DeletePaymentRead(w, i, p) PROVE BalanceInv'
  BY <1>3, <1>4, <1>8, NoCashType DEF DeletePaymentRead
<1>9. ASSUME NEW amount, NEW tax, NEW m,
             CreateRead(w, amount, tax) \/ GenerateRead(w, m, tax)
             \/ UpdateMilestoneRead(w, m, amount) \/ DeleteMilestoneRead(w, m)
      PROVE  BalanceInv'
  BY <1>2, <1>9 DEF CreateRead, GenerateRead, UpdateMilestoneRead, DeleteMilestoneRead
<1>10. QED
  BY <1>5, <1>6, <1>7, <1>8, <1>9 DEF Arrive

(* The commit of a handler keeps the balance.                              *)
LEMMA BalanceHandler ==
  ASSUME TablesOK, BalanceInv, NEW w \in Requests, HandlerStep(w) \/ DbError(w)
  PROVE  BalanceInv'
<1>1. CASE Rollback(w)
  <2>1. RowsLast /\ Finish(w)
    BY <1>1, SameRows DEF Rollback
  <2>2. \A v \in Requests : InHand(v)'
    BY <2>1, FinishInHand DEF BalanceInv
  <2>3. QED
    BY <1>1, <2>1, <2>2, BalanceStill DEF Rollback, Database, InvoiceExists
<1>2. CASE (CreateCommit(w) \/ GenerateCommit(w)) /\ ~Rollback(w)
  <2>1. PICK i \in Invoices : InsertInvoice(w, i)
    BY <1>2, CreateDoes
  <2>2. /\ Finish(w) /\ UNCHANGED payments /\ pc[w] \in HasAmounts
        /\ cash[w].amount \in Nat /\ cash[w].tax \in Nat
    BY <1>2, CreateDoes DEF HasAmounts, TablesOK, MoneyTypeOK, CashSet
  <2>3. /\ invoices[i].status = "none" /\ invoices'[i].status = "draft"
        /\ money'[i].amount = cash[w].amount /\ money'[i].tax = cash[w].tax /\ money'[i].paid = 0
        /\ money'[i].due = cash[w].amount + cash[w].tax
        /\ OthersKept(i)
    BY <2>1, <2>2, InsertDoes
  <2>4. RowsLast
    BY <2>2, <2>3 DEF RowsLast, OthersKept, AsksTheSame
  <2>5. /\ money'[i].due = Total(money'[i]) - money'[i].paid
        /\ money'[i].paid \in 0..Total(money'[i])
    BY <2>2, <2>3 DEF Total
  <2>6. \A j \in Invoices \ {i} : InvoiceExists(j)' => InvoiceExists(j) /\ money'[j] = money[j]
    BY <2>3 DEF OthersKept, InvoiceExists
  <2>7. QED
    BY <2>2, <2>4, <2>5, <2>6, BalanceWrite
<1>3. ASSUME NEW label, label \notin HasInvoice, NEW locals, NEW amounts, Goto(w, label, locals, amounts),
             UNCHANGED Database
      PROVE  BalanceInv'
  <2>1. RowsLast
    BY <1>3, SameRows
  <2>2. pc'[w] = label /\ \A v \in Requests \ {w} : pc'[v] = pc[v] /\ loc'[v] = loc[v] /\ cash'[v] = cash[v]
    BY <1>3 DEF Goto, TablesOK, ControlTypeOK, MoneyTypeOK
  <2>3. InHand(w)'
    BY <1>3, <2>2 DEF InHand
  <2>4. \A v \in Requests : InHand(v)'
    BY <2>1, <2>2, <2>3, InHandKept DEF BalanceInv
  <2>5. QED
    BY <1>3, <2>1, <2>4, BalanceStill DEF Database, InvoiceExists
<1>4. CASE GenerateNumber(w)
  BY <1>3, <1>4 DEF GenerateNumber, HasInvoice
<1>5. ~UpdateWrite(w)
  BY DEF UpdateWrite, BalanceInv, InHand, HasInvoice
<1>6. ASSUME Finish(w), UNCHANGED money, RowsLast,
             \A j \in Invoices : InvoiceExists(j)' => InvoiceExists(j)
      PROVE  BalanceInv'
  BY <1>6, FinishInHand, BalanceStill DEF BalanceInv
<1>7. CASE SendWrite(w) /\ ~Rollback(w)
  <2>1. PICK i : i = loc[w].iid
    OBVIOUS
  <2>2. /\ Finish(w) /\ InvoiceExists(i) /\ UNCHANGED <<money, payments>>
        /\ invoices'[i].status = "sent" /\ \A j \in Invoices \ {i} : invoices'[j] = invoices[j]
    BY <1>7, <2>1, SendDoes
  <2>3. RowsLast /\ \A j \in Invoices : InvoiceExists(j)' => InvoiceExists(j)
    BY <2>2 DEF RowsLast, AsksTheSame, InvoiceExists
  <2>4. QED
    BY <1>6, <2>2, <2>3
<1>8. CASE VoidCommit(w) /\ ~Rollback(w)
  <2>1. PICK i : i = loc[w].iid
    OBVIOUS
  <2>2. /\ Finish(w) /\ InvoiceExists(i) /\ UNCHANGED <<money, payments>>
        /\ invoices'[i].status = "voided" /\ \A j \in Invoices \ {i} : invoices'[j] = invoices[j]
    BY <1>8, <2>1, VoidDoes
  <2>3. RowsLast /\ \A j \in Invoices : InvoiceExists(j)' => InvoiceExists(j)
    BY <2>2 DEF RowsLast, AsksTheSame, InvoiceExists
  <2>4. QED
    BY <1>6, <2>2, <2>3
<1>9. CASE PayCommit(w) /\ ~Rollback(w)
  <2>1. PICK i : i = loc[w].iid
    OBVIOUS
  <2>2. PICK was : was = cash[w].was
    OBVIOUS
  <2>3. PICK amount : amount = cash[w].amount
    OBVIOUS
  <2>4. pc[w] = "pay_commit" /\ pc[w] \in HasInvoice
    BY <1>9 DEF PayCommit, HasInvoice
  <2>5. /\ i \in Invoices /\ was \in MoneyRows /\ amount \in Nat \ {0}
        /\ was.paid \in Nat /\ Total(was) \in Nat
    BY <2>1, <2>2, <2>3, <2>4, HandlersInvoice DEF TablesOK, MoneyTypeOK, CashSet
  <2>6. PICK paid \in Nat : paid = was.paid + amount
    BY <2>5
  <2>7. /\ Finish(w) /\ InvoiceExists(i)
        /\ \E p \in Payments :
             /\ payments[p].status = "none"
             /\ payments' = [payments EXCEPT ![p] = [status |-> "live", invoice |-> i, amount |-> amount]]
        /\ money'[i].paid = paid /\ money'[i].due = Total(was) - paid /\ AsksTheSame(i)
        /\ invoices'[i].status = IF Total(was) - paid <= 0 THEN "paid" ELSE "partial"
        /\ OthersKept(i)
    BY <1>9, <2>1, <2>2, <2>3, <2>6, PayDoes
  <2>8. PICK p \in Payments :
          /\ payments[p].status = "none"
          /\ payments' = [payments EXCEPT ![p] = [status |-> "live", invoice |-> i, amount |-> amount]]
    BY <2>7
  <2>9. /\ \A q \in Payments \ {p} : payments'[q] = payments[q]
        /\ payments'[p].status = "live"
    BY <2>8 DEF TablesOK, MoneyTypeOK
  <2>10. invoices'[i].status # "none"
    BY <2>7
  <2>11. RowsLast
    BY <2>7, <2>8, <2>9, <2>10 DEF RowsLast, OthersKept, AsksTheSame
  <2>12. was.amount = money[i].amount /\ was.tax = money[i].tax /\ was.due = Total(was) - was.paid /\ amount <= was.due
    BY <2>1, <2>2, <2>3, <2>4 DEF BalanceInv, InHand
  <2>13. Total(money'[i]) = Total(was)
    BY <2>7, <2>12 DEF AsksTheSame, Total
  <2>14. paid <= Total(was)
    BY <2>5, <2>6, <2>12
  <2>15. /\ money'[i].due = Total(money'[i]) - money'[i].paid
         /\ money'[i].paid \in 0..Total(money'[i])
    BY <2>5, <2>6, <2>7, <2>13, <2>14
  <2>16. \A j \in Invoices \ {i} : InvoiceExists(j)' => InvoiceExists(j) /\ money'[j] = money[j]
    BY <2>7 DEF OthersKept, InvoiceExists
  <2>17. QED
    BY <2>5, <2>7, <2>11, <2>15, <2>16, BalanceWrite
<1>10. CASE DeletePaymentSum(w)
  <2>1. PICK c : c = [cash[w] EXCEPT !.sum = PaymentSum(PaymentsOf(loc[w].iid) \ {loc[w].pid})]
    OBVIOUS
  <2>2. pc[w] = "dp_sum" /\ Goto(w, "dp_commit", loc[w], c) /\ UNCHANGED Database
    BY <1>10, <2>1 DEF DeletePaymentSum
  <2>3. c.was = cash[w].was
    BY <2>1 DEF TablesOK, MoneyTypeOK, CashRows
  <2>4. RowsLast
    BY <2>2, SameRows
  <2>5. /\ pc'[w] = "dp_commit" /\ loc'[w] = loc[w] /\ cash'[w] = c
        /\ \A v \in Requests \ {w} : pc'[v] = pc[v] /\ loc'[v] = loc[v] /\ cash'[v] = cash[v]
    BY <2>2 DEF Goto, TablesOK, ControlTypeOK, MoneyTypeOK
  <2>6. /\ invoices[loc[w].iid].status # "none"
        /\ c.was.amount = money[loc[w].iid].amount /\ c.was.tax = money[loc[w].iid].tax
        /\ c.was.due = Total(c.was) - c.was.paid
        /\ payments[loc[w].pid].status # "none" /\ payments[loc[w].pid].invoice = loc[w].iid
    BY <2>2, <2>3 DEF BalanceInv, InHand, HasInvoice
  <2>7. InHand(w)'
    BY <2>2, <2>5, <2>6 DEF InHand, Database
  <2>8. \A v \in Requests : InHand(v)'
    BY <2>4, <2>5, <2>7, InHandKept DEF BalanceInv
  <2>9. QED
    BY <2>2, <2>4, <2>8, BalanceStill DEF Database, InvoiceExists
<1>11. CASE DeletePaymentCommit(w) /\ ~Rollback(w)
  <2>1. PICK i : i = loc[w].iid
    OBVIOUS
  <2>2. PICK p : p = loc[w].pid
    OBVIOUS
  <2>3. pc[w] = "dp_commit" /\ pc[w] \in HasInvoice
    BY <1>11 DEF DeletePaymentCommit, HasInvoice
  <2>4. i \in Invoices /\ cash[w].sum \in Nat /\ Total(cash[w].was) \in Nat
    BY <2>1, <2>3, HandlersInvoice
  <2>5. /\ Finish(w) /\ InvoiceExists(i) /\ p \in Payments /\ payments[p].status = "live"
        /\ payments' = [payments EXCEPT ![p].status = "deleted"]
        /\ money'[i].paid = cash[w].sum /\ money'[i].due = Total(cash[w].was) - cash[w].sum /\ AsksTheSame(i)
        /\ invoices'[i].status = Left(w)
        /\ OthersKept(i)
    BY <1>11, <2>1, <2>2, DeletePaymentDoes
  <2>6. /\ payments'[p].status = "deleted" /\ payments'[p].invoice = payments[p].invoice
        /\ \A q \in Payments \ {p} : payments'[q] = payments[q]
    BY <2>5 DEF TablesOK, MoneyTypeOK, PaymentRows
  <2>7. cash[w].was.amount = money[i].amount /\ cash[w].was.tax = money[i].tax /\ payments[p].invoice = i
    BY <2>1, <2>2, <2>3 DEF BalanceInv, InHand
  <2>8. invoices'[i].status # "none"
    BY <2>5 DEF Left
  <2>9. RowsLast
    BY <2>5, <2>6, <2>8 DEF RowsLast, OthersKept, AsksTheSame
  <2>10. Total(money'[i]) = Total(cash[w].was)
    BY <2>5, <2>7 DEF AsksTheSame, Total
  <2>11. money'[i].due = Total(money'[i]) - money'[i].paid
    BY <2>5, <2>10
  <2>12. ~\A q \in Payments : payments'[q].invoice = i => payments'[q].status # "deleted"
    BY <2>5, <2>6, <2>7
  <2>13. \A j \in Invoices \ {i} : InvoiceExists(j)' => InvoiceExists(j) /\ money'[j] = money[j]
    BY <2>5 DEF OthersKept, InvoiceExists
  <2>14. QED
    BY <2>4, <2>5, <2>9, <2>11, <2>12, <2>13, BalanceWrite
<1>12. CASE DeleteInvoiceCommit(w) /\ ~Rollback(w)
  <2>1. PICK i : i = loc[w].iid
    OBVIOUS
  <2>2. /\ Finish(w) /\ InvoiceExists(i) /\ UNCHANGED money
        /\ invoices'[i].status = "deleted" /\ \A j \in Invoices \ {i} : invoices'[j] = invoices[j]
        /\ \A p \in Payments : payments'[p] = IF p \in PaymentsOf(i) THEN [payments[p] EXCEPT !.status = "deleted"]
                                              ELSE payments[p]
    BY <1>12, <2>1, DeleteInvoiceDoes
  <2>3. ASSUME NEW p \in Payments, payments[p].status # "none"
        PROVE  /\ payments'[p].status # "none" /\ payments'[p].invoice = payments[p].invoice
               /\ payments[p].status = "deleted" => payments'[p].status = "deleted"
    <3>1. PICK row : row = [payments[p] EXCEPT !.status = "deleted"]
      OBVIOUS
    <3>2. row.status = "deleted" /\ row.invoice = payments[p].invoice
      BY <3>1 DEF TablesOK, MoneyTypeOK, PaymentRows
    <3>3. payments'[p] = row \/ payments'[p] = payments[p]
      BY <2>2, <3>1
    <3>4. QED
      BY <2>3, <3>2, <3>3
  <2>4. RowsLast /\ \A j \in Invoices : InvoiceExists(j)' => InvoiceExists(j)
    BY <2>2, <2>3 DEF RowsLast, AsksTheSame, InvoiceExists
  <2>5. QED
    BY <1>6, <2>2, <2>4
<1>13. CASE (UpdateMilestoneWrite(w) \/ DeleteMilestoneWrite(w)) /\ ~Rollback(w)
  <2>1. PICK m : m = loc[w].mid
    OBVIOUS
  <2>2. /\ Finish(w) /\ UNCHANGED <<money, payments>>
        /\ \A i \in Invoices : invoices'[i].status = invoices[i].status
    BY <1>13, <2>1, MilestoneWriteDoes
  <2>3. RowsLast /\ \A j \in Invoices : InvoiceExists(j)' => InvoiceExists(j)
    BY <2>2 DEF RowsLast, AsksTheSame, InvoiceExists
  <2>4. QED
    BY <1>6, <2>2, <2>3
<1>14. CASE DbError(w)
  BY <1>1, <1>14 DEF DbError
<1>15. QED
  BY <1>1, <1>2, <1>4, <1>5, <1>7, <1>8, <1>9, <1>10, <1>11, <1>12, <1>13, <1>14 DEF HandlerStep

(* Every step keeps the balance, as long as no invoice is edited.          *)
LEMMA BalanceNext ==
  ASSUME "update" \notin Ops, TablesOK, BalanceInv, [Next]_vars
  PROVE  BalanceInv'
<1>1. ASSUME UNCHANGED <<invoices, money, payments, pc, loc, cash>> PROVE BalanceInv'
  BY <1>1 DEF BalanceInv, BalanceKept, PaidWithinTotal, InHand, InvoiceExists, Total
<1>2. CASE Crash
  <2>1. \A w \in Requests : pc'[w] = "idle"
    BY <1>2 DEF Crash
  <2>2. UNCHANGED Database /\ \A w \in Requests : InHand(w)'
    BY <1>2, <2>1 DEF Crash, InHand, HasInvoice
  <2>3. QED
    BY <2>2, SameRows, BalanceStill DEF Database, InvoiceExists
<1>3. ASSUME NEW new, CreateMilestones(new) PROVE BalanceInv'
  BY <1>1, <1>3 DEF CreateMilestones
<1>4. CASE Wait \/ UNCHANGED vars
  BY <1>1, <1>4 DEF Wait, vars
<1>5. QED
  BY <1>2, <1>3, <1>4, BalanceArrive, BalanceHandler DEF Next

(* The balances hold at first.                                             *)
LEMMA BalanceInit == Init => BalanceInv
BY DEF Init, BalanceInv, BalanceKept, PaidWithinTotal, InHand, InvoiceExists, NoInvoice, Gone, HasInvoice

(* Rows and slots are always well typed, the money columns included.       *)
THEOREM InvoiceTablesCorrect == Spec => []TablesOK
BY TypeInit, MoneyInit, TablesNext, PTL DEF Spec, TablesOK

(* recordPayment never lets an invoice show more paid than it asks for, as *)
(* long as none of its payments was deleted.                               *)
THEOREM NeverOverpaid ==
  ASSUME "update" \notin Ops
  PROVE  Spec => []PaidWithinTotal
<1>1. TablesOK /\ BalanceInv /\ [Next]_vars => BalanceInv'
  BY BalanceNext
<1>2. BalanceInv => PaidWithinTotal
  BY DEF BalanceInv
<1>3. QED
  BY <1>1, <1>2, BalanceInit, InvoiceTablesCorrect, PTL DEF Spec

-----------------------------------------------------------------------------
(* Handlers one at a time: the money and the status of an invoice follow   *)
(* its payments, and milestones follow their invoices *)

(* One handler is in flight, and what it read is still so.                 *)
Alone == \A v \in Requests, w \in Requests : pc[v] # "idle" /\ pc[w] # "idle" => v = w

Fresh(w) ==
  /\ pc[w] \in HasInvoice =>
       InvoiceExists(loc[w].iid) /\ loc[w].row = invoices[loc[w].iid] /\ cash[w].was = money[loc[w].iid]
  /\ pc[w] \in {"update_write", "send_write"} => loc[w].row.status = "draft"
  /\ pc[w] \in {"void_commit", "pay_commit"} => loc[w].row.status # "voided"
  /\ pc[w] = "pay_commit" => cash[w].amount <= cash[w].was.due
  /\ pc[w] \in {"dp_sum", "dp_commit"} => loc[w].pid \in PaymentsOf(loc[w].iid)
  /\ pc[w] = "dp_commit" => cash[w].sum = PaymentSum(PaymentsOf(loc[w].iid) \ {loc[w].pid})
  /\ pc[w] = "create_commit" => loc[w].mid = Null
  /\ pc[w] \in HasMilestone => milestones[loc[w].mid].status = "pending"

(* The books of one invoice: its money columns and its status.             *)
InvoiceGood(i) ==
  InvoiceExists(i) =>
    /\ money[i].due = Total(money[i]) - money[i].paid
    /\ money[i].paid = PaymentSum(PaymentsOf(i))
    /\ invoices[i].status # "voided" =>
         invoices[i].status = IF money[i].paid = 0 THEN IF invoices[i].sent THEN "sent" ELSE "draft"
                              ELSE IF money[i].due <= 0 THEN "paid" ELSE "partial"

(* What an invoice asks for, and what counts against it, exists.           *)
LinksAlive ==
  /\ \A p \in Payments : payments[p].status = "live" =>
       \E i \in Invoices : payments[p].invoice = i /\ InvoiceExists(i)
  /\ \A i \in Invoices : InvoiceExists(i) => invoices[i].milestone = Null \/
       \E m \in Milestones : invoices[i].milestone = m /\ MilestoneExists(m)

(* The milestone and the invoices that count for it.                       *)
MilestoneGood(m) ==
  /\ \A i \in LiveInvoices(m), j \in LiveInvoices(m) : i = j
  /\ milestones[m].status = "pending" => LiveInvoices(m) = {}
  /\ milestones[m].status \in {"invoiced", "paid"} =>
       \E i \in LiveInvoices(m) :
         milestones[m].invoice = i /\ (invoices[i].status = "paid" <=> milestones[m].status = "paid")

Books ==
  /\ \A i \in Invoices : InvoiceGood(i)
  /\ LinksAlive
  /\ NothingDeleted => \A m \in Milestones : MilestoneGood(m)

SerialInv == Alone /\ (\A w \in Requests : Fresh(w)) /\ Books

(* Requests wait for each other: a handler that moves finds no other.      *)
LEMMA GotoFresh ==
  ASSUME TablesOK, NEW w \in Requests, \A v \in Requests \ {w} : pc[v] = "idle",
         NEW label, NEW locals, NEW amounts, Goto(w, label, locals, amounts), Fresh(w)'
  PROVE  Alone' /\ \A v \in Requests : Fresh(v)'
<1>1. pc'[w] = label /\ \A v \in Requests \ {w} : pc'[v] = "idle"
  BY DEF Goto, TablesOK, ControlTypeOK
<1>2. \A v \in Requests \ {w} : Fresh(v)'
  BY <1>1 DEF Fresh, HasInvoice, HasMilestone
<1>3. QED
  BY <1>1, <1>2 DEF Alone

(* When a handler ends, none is in flight.                                 *)
LEMMA FinishFresh ==
  ASSUME TablesOK, Alone, NEW w \in Requests, pc[w] # "idle", Finish(w)
  PROVE  Alone' /\ \A v \in Requests : Fresh(v)'
<1>1. pc'[w] = "idle"
  BY DEF Finish, Goto, TablesOK, ControlTypeOK
<1>2. Fresh(w)'
  BY <1>1 DEF Fresh, HasInvoice, HasMilestone
<1>3. \A v \in Requests \ {w} : pc[v] = "idle"
  BY DEF Alone
<1>4. QED
  BY <1>2, <1>3, GotoFresh DEF Finish

(* The sum of payments whose amounts a step keeps.                         *)
LEMMA SumKept ==
  ASSUME NEW S \in SUBSET Payments, \A p \in S : payments'[p].amount = payments[p].amount
  PROVE  PaymentSum(S)' = PaymentSum(S)
<1>1. IsFiniteSet(S)
  BY RowsAssumption, FS_Subset
<1>2. PICK f : f = [p \in Payments |-> payments[p].amount]
  OBVIOUS
<1>3. PICK g : g = [p \in Payments |-> payments'[p].amount]
  OBVIOUS
<1>4. \A p \in S : g[p] = f[p]
  BY <1>2, <1>3
<1>5. SumFunctionOnSet(g, S) = SumFunctionOnSet(f, S)
  BY <1>1, <1>4, SumSame
<1>6. QED
  BY <1>2, <1>3, <1>5 DEF PaymentSum

(* An invoice that a step leaves alone.                                    *)
LEMMA InvoiceSame ==
  ASSUME NEW i \in Invoices, InvoiceGood(i), InvoiceExists(i)' => InvoiceExists(i), money'[i] = money[i],
         invoices'[i].status = invoices[i].status, invoices'[i].sent = invoices[i].sent,
         \A p \in Payments : (p \in PaymentsOf(i) \/ (p \in PaymentsOf(i))') => payments'[p] = payments[p]
  PROVE  InvoiceGood(i)'
<1>1. PICK S \in SUBSET Payments : S = PaymentsOf(i)
  BY DEF PaymentsOf
<1>2. PaymentsOf(i)' = S
  BY <1>1 DEF PaymentsOf
<1>3. \A p \in S : payments'[p].amount = payments[p].amount
  BY <1>1 DEF PaymentsOf
<1>4. PaymentSum(S)' = PaymentSum(S)
  BY <1>3, SumKept
<1>5. PaymentSum(PaymentsOf(i))' = PaymentSum(PaymentsOf(i))
  BY <1>1, <1>2, <1>4 DEF PaymentSum
<1>6. QED
  BY <1>5 DEF InvoiceGood, Total

(* A milestone whose invoices that count are the same.                     *)
LEMMA MilestoneSame ==
  ASSUME NEW m \in Milestones, MilestoneGood(m),
         milestones'[m].status = milestones[m].status, milestones'[m].invoice = milestones[m].invoice,
         \A i \in Invoices : (i \in LiveInvoices(m))' <=> i \in LiveInvoices(m),
         \A i \in LiveInvoices(m) : invoices'[i].status = "paid" <=> invoices[i].status = "paid"
  PROVE  MilestoneGood(m)'
<1>1. LiveInvoices(m)' = LiveInvoices(m)
  BY DEF LiveInvoices
<1>2. QED
  BY <1>1 DEF MilestoneGood

(* A step that changes no table.                                           *)
LEMMA BooksSame ==
  ASSUME TablesOK, Books, UNCHANGED Database
  PROVE  Books'
<1>1. UNCHANGED <<invoices, money, payments, milestones>>
  BY DEF Database
<1>2. \A i \in Invoices : InvoiceGood(i)'
  BY <1>1, InvoiceSame DEF Books, InvoiceExists
<1>3. LinksAlive'
  BY <1>1 DEF Books, LinksAlive, InvoiceExists, MilestoneExists
<1>4. \A m \in Milestones : MilestoneGood(m) => MilestoneGood(m)'
  BY <1>1 DEF MilestoneGood, LiveInvoices, InvoiceExists
<1>5. NothingDeleted' => NothingDeleted
  BY <1>1 DEF NothingDeleted
<1>6. QED
  BY <1>2, <1>3, <1>4, <1>5 DEF Books

(* A request that arrives.                                                 *)
LEMMA ArriveSerial ==
  ASSUME Serial, TablesOK, SerialInv, NEW w \in Requests, Arrive(w)
  PROVE  SerialInv'
<1>1. ASSUME NEW op, Begin(w, op), NEW label, NEW locals, NEW amounts, Goto(w, label, locals, amounts),
             UNCHANGED Database, Fresh(w)'
      PROVE  SerialInv'
  <2>1. \A v \in Requests : pc[v] = "idle"
    BY <1>1 DEF Begin
  <2>2. Alone' /\ \A v \in Requests : Fresh(v)'
    BY <1>1, <2>1, GotoFresh
  <2>3. Books'
    BY <1>1, BooksSame DEF SerialInv
  <2>4. QED
    BY <2>2, <2>3 DEF SerialInv
<1>2. ASSUME NEW label, NEW locals, NEW amounts, Goto(w, label, locals, amounts)
      PROVE  pc'[w] = label /\ loc'[w] = locals /\ cash'[w] = amounts
  BY <1>2 DEF Goto, TablesOK, ControlTypeOK, MoneyTypeOK
<1>3. ASSUME NEW op, Begin(w, op), NEW m \in Milestones, milestones[m].status = "pending", NEW amounts,
             NEW label \in {"gen_number", "um_write", "dm_write"},
             Goto(w, label, [NoLocals EXCEPT !.mid = m], amounts), UNCHANGED Database
      PROVE  SerialInv'
  <2>1. PICK l : l = [NoLocals EXCEPT !.mid = m]
    OBVIOUS
  <2>2. l.mid = m
    BY <2>1 DEF NoLocals
  <2>3. pc'[w] = label /\ loc'[w] = l
    BY <1>2, <1>3, <2>1
  <2>4. Fresh(w)'
    BY <1>3, <2>2, <2>3 DEF Fresh, HasInvoice, HasMilestone, Database
  <2>5. QED
    BY <1>1, <1>3, <2>4
<1>4. ASSUME NEW amount, NEW tax, CreateRead(w, amount, tax) PROVE SerialInv'
  <2>1. PICK l : l = [NoLocals EXCEPT !.number = nextNumber]
    OBVIOUS
  <2>2. l.mid = Null
    BY <2>1 DEF NoLocals
  <2>3. PICK c : c = [NoCash EXCEPT !.amount = amount, !.tax = tax]
    OBVIOUS
  <2>4. Begin(w, "create") /\ Goto(w, "create_commit", l, c) /\ UNCHANGED Database
    BY <1>4, <2>1, <2>3 DEF CreateRead
  <2>5. pc'[w] = "create_commit" /\ loc'[w] = l
    BY <1>2, <2>4
  <2>6. Fresh(w)'
    BY <2>2, <2>5 DEF Fresh, HasInvoice, HasMilestone
  <2>7. QED
    BY <1>1, <2>4, <2>6
<1>5. ASSUME NEW m \in Milestones, NEW tax, GenerateRead(w, m, tax) PROVE SerialInv'
  BY <1>3, <1>5 DEF GenerateRead
<1>6. ASSUME NEW m \in Milestones, NEW amount, UpdateMilestoneRead(w, m, amount) PROVE SerialInv'
  BY <1>3, <1>6 DEF UpdateMilestoneRead
<1>7. ASSUME NEW m \in Milestones, DeleteMilestoneRead(w, m) PROVE SerialInv'
  BY <1>3, <1>7 DEF DeleteMilestoneRead
<1>8. ASSUME NEW op, Begin(w, op), NEW i \in Invoices, NEW label \in HasInvoice,
             NEW pid, NEW amounts \in CashRows, ReadInvoice(w, i, label, pid, amounts),
             label # "dp_commit",
             label \in {"update_write", "send_write"} => invoices[i].status = "draft",
             label \in {"void_commit", "pay_commit"} => invoices[i].status # "voided",
             label = "pay_commit" => amounts.amount <= money[i].due,
             label = "dp_sum" => pid \in PaymentsOf(i)
      PROVE  SerialInv'
  <2>1. PICK row \in MoneyRows : row = money[i]
    BY DEF TablesOK, MoneyTypeOK
  <2>2. PICK c : c = [amounts EXCEPT !.was = row]
    OBVIOUS
  <2>3. c.was = row /\ c.amount = amounts.amount
    BY <2>2 DEF CashRows
  <2>4. PICK l : l = [NoLocals EXCEPT !.iid = i, !.pid = pid, !.row = invoices[i]]
    OBVIOUS
  <2>5. l.iid = i /\ l.pid = pid /\ l.row = invoices[i]
    BY <2>4 DEF NoLocals
  <2>6. Goto(w, label, l, c) /\ UNCHANGED Database /\ InvoiceExists(i)
    BY <1>8, <2>1, <2>2, <2>4 DEF ReadInvoice
  <2>7. pc'[w] = label /\ loc'[w] = l /\ cash'[w] = c
    BY <1>2, <2>6
  <2>8. /\ InvoiceExists(i)' /\ l.row = invoices'[i] /\ c.was = money'[i]
        /\ label = "dp_sum" => l.pid \in PaymentsOf(i)'
    BY <1>8, <2>1, <2>3, <2>5, <2>6 DEF Database, InvoiceExists, PaymentsOf
  <2>9. label \notin HasMilestone /\ label # "create_commit"
    BY DEF HasInvoice, HasMilestone
  <2>10. /\ label \in {"update_write", "send_write"} => l.row.status = "draft"
         /\ label \in {"void_commit", "pay_commit"} => l.row.status # "voided"
         /\ label = "pay_commit" => c.amount <= c.was.due
    BY <1>8, <2>1, <2>3, <2>5
  <2>11. Fresh(w)'
    BY <1>8, <2>5, <2>7, <2>8, <2>9, <2>10 DEF Fresh
  <2>12. QED
    BY <1>1, <1>8, <2>6, <2>11
<1>9. {"update_write", "send_write", "void_commit", "pay_commit", "dp_sum", "di_commit"} \subseteq HasInvoice
  BY DEF HasInvoice
<1>10. ASSUME NEW i \in Invoices, NEW amount \in Amounts \cup {Null}, NEW tax \in Taxes \cup {Null},
              UpdateRead(w, i, amount, tax)
       PROVE  SerialInv'
  <2>1. PICK c : c = [NoCash EXCEPT !.amount = amount, !.tax = tax]
    OBVIOUS
  <2>2. c \in CashRows
    BY <2>1, NoCashType, MoneyAssumption DEF NoCash, CashRows
  <2>3. Begin(w, "update") /\ ReadInvoice(w, i, "update_write", Null, c) /\ invoices[i].status = "draft"
    BY <1>10, <2>1 DEF UpdateRead
  <2>4. QED
    BY <1>8, <1>9, <2>2, <2>3
<1>11. ASSUME NEW i \in Invoices, SendRead(w, i) PROVE SerialInv'
  <2>1. Begin(w, "send") /\ ReadInvoice(w, i, "send_write", Null, NoCash) /\ invoices[i].status = "draft"
    BY <1>11 DEF SendRead
  <2>2. QED
    BY <1>8, <1>9, <2>1, NoCashType
<1>12. ASSUME NEW i \in Invoices, VoidRead(w, i) PROVE SerialInv'
  <2>1. Begin(w, "void") /\ ReadInvoice(w, i, "void_commit", Null, NoCash) /\ invoices[i].status # "voided"
    BY <1>12 DEF VoidRead
  <2>2. QED
    BY <1>8, <1>9, <2>1, NoCashType
<1>13. ASSUME NEW i \in Invoices, DeleteInvoiceRead(w, i) PROVE SerialInv'
  <2>1. Begin(w, "delete_invoice") /\ ReadInvoice(w, i, "di_commit", Null, NoCash)
    BY <1>13 DEF DeleteInvoiceRead
  <2>2. QED
    BY <1>8, <1>9, <2>1, NoCashType
<1>14. ASSUME NEW i \in Invoices, NEW amount \in Amounts, PayRead(w, i, amount) PROVE SerialInv'
  <2>1. PICK c : c = [NoCash EXCEPT !.amount = amount]
    OBVIOUS
  <2>2. c \in CashRows /\ c.amount = amount
    BY <2>1, NoCashType, MoneyAssumption DEF NoCash, CashRows
  <2>3. /\ Begin(w, "pay") /\ ReadInvoice(w, i, "pay_commit", Null, c)
        /\ amount <= money[i].due /\ invoices[i].status # "voided"
    BY <1>14, <2>1 DEF PayRead
  <2>4. QED
    BY <1>8, <1>9, <2>2, <2>3
<1>15. ASSUME NEW i \in Invoices, NEW p \in Payments, DeletePaymentRead(w, i, p) PROVE SerialInv'
  <2>1. /\ Begin(w, "delete_payment") /\ ReadInvoice(w, i, "dp_sum", p, NoCash)
        /\ p \in PaymentsOf(i)
    BY <1>15 DEF DeletePaymentRead
  <2>2. QED
    BY <1>8, <1>9, <2>1, NoCashType
<1>16. QED
  BY <1>4, <1>5, <1>6, <1>7, <1>10, <1>11, <1>12, <1>13, <1>14, <1>15 DEF Arrive

(* A new invoice has its books in order.                                   *)
LEMMA CreateBooks ==
  ASSUME TablesOK, Books, NEW w \in Requests, Fresh(w), CreateCommit(w) \/ GenerateCommit(w), ~Rollback(w)
  PROVE  Books'
<1>1. PICK i \in Invoices :
        /\ InsertInvoice(w, i)
        /\ pc[w] = "create_commit" => UNCHANGED milestones
        /\ pc[w] = "gen_commit" =>
             /\ loc[w].mid \in Milestones
             /\ milestones'[loc[w].mid].status = "invoiced" /\ milestones'[loc[w].mid].invoice = i
             /\ MilestonesKept(loc[w].mid)
  BY CreateDoes
<1>2. /\ pc[w] \in {"create_commit", "gen_commit"} /\ UNCHANGED payments /\ pc[w] \in HasAmounts
      /\ cash[w].amount \in Nat /\ cash[w].tax \in Nat
  BY CreateDoes DEF HasAmounts, TablesOK, MoneyTypeOK, CashSet
<1>3. PICK m : m = loc[w].mid
  OBVIOUS
<1>4. /\ invoices[i].status = "none" /\ invoices'[i].status = "draft" /\ ~invoices'[i].sent
      /\ invoices'[i].milestone = m
      /\ money'[i].amount = cash[w].amount /\ money'[i].tax = cash[w].tax /\ money'[i].paid = 0
      /\ money'[i].due = cash[w].amount + cash[w].tax
      /\ OthersKept(i)
  BY <1>1, <1>2, <1>3, InsertDoes
<1>5. \/ m = Null /\ UNCHANGED milestones
      \/ /\ m \in Milestones /\ milestones[m].status = "pending"
         /\ milestones'[m].status = "invoiced" /\ milestones'[m].invoice = i /\ MilestonesKept(m)
  BY <1>1, <1>2, <1>3 DEF Fresh, HasMilestone
<1>6. InvoiceExists(i)' /\ ~InvoiceExists(i)
  BY <1>4 DEF InvoiceExists, Gone
<1>7. \A j \in Invoices \ {i} : InvoiceExists(j)' <=> InvoiceExists(j)
  BY <1>4 DEF InvoiceExists, OthersKept
<1>8. PaymentsOf(i)' = {}
  BY <1>2, <1>6 DEF Books, LinksAlive, PaymentsOf
<1>9. PaymentSum(PaymentsOf(i))' = 0
  BY <1>8, SumEmpty DEF PaymentSum
<1>10. InvoiceGood(i)'
  BY <1>2, <1>4, <1>9 DEF InvoiceGood, Total
<1>11. \A j \in Invoices \ {i} : InvoiceGood(j)'
  BY <1>2, <1>4, <1>7, InvoiceSame DEF Books, OthersKept
<1>12. LinksAlive'
  <2>1. \A p \in Payments : payments'[p].status = "live" =>
          \E j \in Invoices : payments'[p].invoice = j /\ InvoiceExists(j)'
    BY <1>2, <1>6, <1>7 DEF Books, LinksAlive
  <2>2. \A k \in Milestones : MilestoneExists(k) \/ k = m => MilestoneExists(k)'
    BY <1>5, RowsAssumption DEF MilestoneExists, MilestonesKept, Gone
  <2>3. ASSUME NEW j \in Invoices, InvoiceExists(j)', invoices'[j].milestone # Null
        PROVE  \E k \in Milestones : invoices'[j].milestone = k /\ MilestoneExists(k)'
    <3>1. CASE j = i
      BY <1>4, <1>5, <2>2, <2>3, <3>1
    <3>2. CASE j # i
      BY <1>4, <1>7, <2>2, <2>3, <3>2 DEF Books, LinksAlive, OthersKept
    <3>3. QED
      BY <3>1, <3>2
  <2>4. QED
    BY <2>1, <2>3 DEF LinksAlive
<1>13. ASSUME NothingDeleted', NEW k \in Milestones PROVE MilestoneGood(k)'
  <2>1. NothingDeleted
    BY <1>2, <1>4, <1>13 DEF NothingDeleted, OthersKept
  <2>2. MilestoneGood(k)
    BY <2>1 DEF Books
  <2>3. CASE k = m
    <3>1. k # Null
      BY RowsAssumption, <1>13
    <3>2. LiveInvoices(k) = {}
      BY <1>5, <2>2, <2>3, <3>1 DEF MilestoneGood
    <3>3. LiveInvoices(k)' = {i}
      BY <1>4, <1>6, <1>7, <2>3, <3>2 DEF LiveInvoices, OthersKept
    <3>4. milestones'[k].status = "invoiced" /\ milestones'[k].invoice = i
      BY <1>5, <2>3, <3>1
    <3>5. QED
      BY <1>4, <3>3, <3>4 DEF MilestoneGood
  <2>4. CASE k # m
    <3>1. milestones'[k] = milestones[k]
      BY <1>5, <2>4 DEF MilestonesKept
    <3>2. \A j \in Invoices : (j \in LiveInvoices(k))' <=> j \in LiveInvoices(k)
      BY <1>4, <1>6, <1>7, <2>4 DEF LiveInvoices, OthersKept
    <3>3. \A j \in LiveInvoices(k) : invoices'[j] = invoices[j]
      BY <1>4, <1>6 DEF LiveInvoices, OthersKept
    <3>4. QED
      BY <2>2, <3>1, <3>2, <3>3, MilestoneSame
  <2>5. QED
    BY <2>3, <2>4
<1>14. QED
  BY <1>10, <1>11, <1>12, <1>13 DEF Books

(* An edit of a draft.                                                     *)
LEMMA UpdateBooks ==
  ASSUME TablesOK, Books, NEW w \in Requests, Fresh(w), UpdateWrite(w), ~Rollback(w)
  PROVE  Books'
<1>1. PICK i : i = loc[w].iid
  OBVIOUS
<1>2. pc[w] = "update_write" /\ pc[w] \in HasInvoice
  BY DEF UpdateWrite, HasInvoice
<1>3. i \in Invoices /\ money[i] = cash[w].was /\ invoices[i].status = "draft"
  BY <1>1, <1>2, HandlersInvoice DEF Fresh
<1>4. /\ InvoiceExists(i) /\ UNCHANGED <<invoices, payments, milestones>>
      /\ money'[i].paid = money[i].paid
      /\ money'[i].due = Total(money'[i]) - money[i].paid
      /\ \A j \in Invoices \ {i} : money'[j] = money[j]
  BY <1>1, <1>3, UpdateDoes
<1>5. InvoiceGood(i)'
  <2>1. money[i].paid = PaymentSum(PaymentsOf(i))
    BY <1>3, <1>4 DEF Books, InvoiceGood
  <2>2. PaymentSum(PaymentsOf(i))' = PaymentSum(PaymentsOf(i))
    BY <1>4 DEF PaymentSum, PaymentsOf
  <2>3. money[i].paid = 0 /\ ~invoices[i].sent
    BY <1>3, <1>4 DEF Books, InvoiceGood
  <2>4. QED
    BY <1>3, <1>4, <2>1, <2>2, <2>3 DEF InvoiceGood, Total
<1>6. \A j \in Invoices \ {i} : InvoiceGood(j)'
  BY <1>4, InvoiceSame DEF Books, InvoiceExists
<1>7. LinksAlive'
  BY <1>4 DEF Books, LinksAlive, InvoiceExists, MilestoneExists
<1>8. \A m \in Milestones : MilestoneGood(m) => MilestoneGood(m)'
  BY <1>4 DEF MilestoneGood, LiveInvoices, InvoiceExists
<1>9. NothingDeleted' => NothingDeleted
  BY <1>4 DEF NothingDeleted
<1>10. QED
  BY <1>5, <1>6, <1>7, <1>8, <1>9 DEF Books

(* A draft is sent.                                                        *)
LEMMA SendBooks ==
  ASSUME TablesOK, Books, NEW w \in Requests, Fresh(w), SendWrite(w), ~Rollback(w)
  PROVE  Books'
<1>1. PICK i : i = loc[w].iid
  OBVIOUS
<1>2. pc[w] = "send_write" /\ pc[w] \in HasInvoice
  BY DEF SendWrite, HasInvoice
<1>3. i \in Invoices /\ invoices[i].status = "draft"
  BY <1>1, <1>2, HandlersInvoice DEF Fresh
<1>4. /\ InvoiceExists(i) /\ UNCHANGED <<money, payments, milestones>>
      /\ invoices'[i].status = "sent" /\ invoices'[i].sent /\ invoices'[i].milestone = invoices[i].milestone
      /\ \A j \in Invoices \ {i} : invoices'[j] = invoices[j]
  BY <1>1, SendDoes
<1>5. \A j \in Invoices : InvoiceExists(j)' <=> InvoiceExists(j)
  BY <1>4 DEF InvoiceExists, Gone
<1>6. InvoiceGood(i)'
  <2>1. /\ money[i].paid = PaymentSum(PaymentsOf(i)) /\ money[i].due = Total(money[i]) - money[i].paid
        /\ money[i].paid = 0
    BY <1>3, <1>4 DEF Books, InvoiceGood
  <2>2. PaymentSum(PaymentsOf(i))' = PaymentSum(PaymentsOf(i))
    BY <1>4 DEF PaymentSum, PaymentsOf
  <2>3. QED
    BY <1>4, <2>1, <2>2 DEF InvoiceGood, Total
<1>7. \A j \in Invoices \ {i} : InvoiceGood(j)'
  BY <1>4, <1>5, InvoiceSame DEF Books
<1>8. LinksAlive'
  <2>1. \A p \in Payments : payments'[p].status = "live" =>
          \E j \in Invoices : payments'[p].invoice = j /\ InvoiceExists(j)'
    BY <1>4, <1>5 DEF Books, LinksAlive
  <2>2. \A j \in Invoices : invoices'[j].milestone = invoices[j].milestone
    BY <1>4
  <2>3. QED
    BY <1>4, <1>5, <2>1, <2>2 DEF Books, LinksAlive, MilestoneExists
<1>9. ASSUME NothingDeleted', NEW m \in Milestones PROVE MilestoneGood(m)'
  <2>1. NothingDeleted
    BY <1>3, <1>4, <1>9 DEF NothingDeleted
  <2>2. MilestoneGood(m)
    BY <2>1 DEF Books
  <2>3. \A j \in Invoices : (j \in LiveInvoices(m))' <=> j \in LiveInvoices(m)
    BY <1>3, <1>4, <1>5 DEF LiveInvoices
  <2>4. \A j \in Invoices : invoices'[j].status = "paid" <=> invoices[j].status = "paid"
    BY <1>3, <1>4
  <2>5. QED
    BY <1>4, <2>2, <2>3, <2>4, MilestoneSame DEF LiveInvoices
<1>10. QED
  BY <1>6, <1>7, <1>8, <1>9 DEF Books

(* An invoice is voided, and its milestone is free again.                  *)
LEMMA VoidBooks ==
  ASSUME TablesOK, Books, NEW w \in Requests, Fresh(w), VoidCommit(w), ~Rollback(w)
  PROVE  Books'
<1>1. PICK i : i = loc[w].iid
  OBVIOUS
<1>m. PICK m : m = loc[w].row.milestone
  OBVIOUS
<1>2. pc[w] = "void_commit" /\ pc[w] \in HasInvoice
  BY DEF VoidCommit, HasInvoice
<1>3. i \in Invoices /\ invoices[i].status # "voided" /\ invoices[i].milestone = m /\ m \in Milestones \cup {Null}
  BY <1>1, <1>m, <1>2, HandlersInvoice DEF Fresh
<1>4. /\ InvoiceExists(i) /\ UNCHANGED <<money, payments>>
      /\ invoices'[i].status = "voided" /\ invoices'[i].milestone = m
      /\ \A j \in Invoices \ {i} : invoices'[j] = invoices[j]
      /\ m # Null => milestones'[m].status = "pending" /\ milestones'[m].invoice = Null
      /\ MilestonesKept(m)
  BY <1>1, <1>m, <1>3, VoidDoes
<1>5. \A j \in Invoices : InvoiceExists(j)' <=> InvoiceExists(j)
  BY <1>4 DEF InvoiceExists, Gone
<1>6. InvoiceGood(i)'
  <2>1. money[i].paid = PaymentSum(PaymentsOf(i)) /\ money[i].due = Total(money[i]) - money[i].paid
    BY <1>3, <1>4 DEF Books, InvoiceGood
  <2>2. PaymentSum(PaymentsOf(i))' = PaymentSum(PaymentsOf(i))
    BY <1>4 DEF PaymentSum, PaymentsOf
  <2>3. QED
    BY <1>4, <2>1, <2>2 DEF InvoiceGood, Total
<1>7. \A j \in Invoices \ {i} : InvoiceGood(j)'
  BY <1>4, <1>5, InvoiceSame DEF Books
<1>8. LinksAlive'
  <2>1. \A p \in Payments : payments'[p].status = "live" =>
          \E j \in Invoices : payments'[p].invoice = j /\ InvoiceExists(j)'
    BY <1>4, <1>5 DEF Books, LinksAlive
  <2>2. \A j \in Invoices : invoices'[j].milestone = invoices[j].milestone
    BY <1>3, <1>4
  <2>3. \A k \in Milestones : MilestoneExists(k) => MilestoneExists(k)'
    BY <1>4, RowsAssumption DEF MilestoneExists, MilestonesKept, Gone
  <2>4. QED
    BY <1>5, <2>1, <2>2, <2>3 DEF Books, LinksAlive
<1>9. ASSUME NothingDeleted', NEW k \in Milestones PROVE MilestoneGood(k)'
  <2>1. NothingDeleted
    BY <1>4, <1>9 DEF NothingDeleted, InvoiceExists, Gone
  <2>2. MilestoneGood(k)
    BY <2>1 DEF Books
  <2>3. CASE k = m
    <3>1. k # Null
      BY RowsAssumption, <1>9
    <3>2. i \in LiveInvoices(k)
      BY <1>3, <1>4, <2>3 DEF LiveInvoices
    <3>3. LiveInvoices(k)' = {}
      BY <1>4, <1>5, <2>2, <3>2 DEF LiveInvoices, MilestoneGood
    <3>4. QED
      BY <1>4, <2>3, <3>1, <3>3 DEF MilestoneGood
  <2>4. CASE k # m
    <3>1. milestones'[k] = milestones[k]
      BY <1>4, <2>4 DEF MilestonesKept
    <3>2. \A j \in Invoices : (j \in LiveInvoices(k))' <=> j \in LiveInvoices(k)
      BY <1>3, <1>4, <1>5, <2>4 DEF LiveInvoices
    <3>3. \A j \in LiveInvoices(k) : invoices'[j] = invoices[j]
      BY <1>3, <1>4, <2>4 DEF LiveInvoices
    <3>4. QED
      BY <2>2, <3>1, <3>2, <3>3, MilestoneSame
  <2>5. QED
    BY <2>3, <2>4
<1>10. QED
  BY <1>6, <1>7, <1>8, <1>9 DEF Books

(* A payment is recorded.                                                  *)
LEMMA PayBooks ==
  ASSUME TablesOK, Books, NEW w \in Requests, Fresh(w), PayCommit(w), ~Rollback(w)
  PROVE  Books'
<1>1. PICK i : i = loc[w].iid
  OBVIOUS
<1>m. PICK m : m = loc[w].row.milestone
  OBVIOUS
<1>w. PICK was : was = money[i]
  OBVIOUS
<1>a. PICK amount : amount = cash[w].amount
  OBVIOUS
<1>2. pc[w] = "pay_commit" /\ pc[w] \in HasInvoice
  BY DEF PayCommit, HasInvoice
<1>3. /\ i \in Invoices /\ invoices[i].status # "voided" /\ invoices[i].milestone = m
      /\ m \in Milestones \cup {Null} /\ cash[w].was = was
      /\ was.paid \in Nat /\ Total(was) \in Nat /\ was.due \in Int
      /\ amount \in Nat \ {0} /\ amount <= was.due
  BY <1>1, <1>m, <1>w, <1>a, <1>2, HandlersInvoice DEF Fresh, TablesOK, MoneyTypeOK, CashSet, MoneyRows
<1>4. PICK paid \in Nat : paid = was.paid + amount
  BY <1>3
<1>5. /\ InvoiceExists(i) /\ paid # 0
      /\ \E p \in Payments :
           /\ payments[p].status = "none"
           /\ payments' = [payments EXCEPT ![p] = [status |-> "live", invoice |-> i, amount |-> amount]]
      /\ money'[i].paid = paid /\ money'[i].due = Total(was) - paid /\ AsksTheSame(i)
      /\ invoices'[i].status = IF Total(was) - paid <= 0 THEN "paid" ELSE "partial"
      /\ invoices'[i].milestone = m
      /\ OthersKept(i)
      /\ \E k \in Milestones \cup {Null} :
           /\ k = IF Total(was) - paid <= 0 THEN m ELSE Null
           /\ k # Null => milestones'[k].status = "paid" /\ milestones'[k].invoice = milestones[k].invoice
           /\ MilestonesKept(k)
  BY <1>1, <1>m, <1>a, <1>3, <1>4, PayDoes
<1>6. PICK p \in Payments :
        /\ payments[p].status = "none"
        /\ payments' = [payments EXCEPT ![p] = [status |-> "live", invoice |-> i, amount |-> amount]]
  BY <1>5
<1>7. /\ payments'[p].status = "live" /\ payments'[p].invoice = i /\ payments'[p].amount = amount
      /\ \A q \in Payments \ {p} : payments'[q] = payments[q]
  BY <1>6 DEF TablesOK, MoneyTypeOK
<1>8. \A j \in Invoices : InvoiceExists(j)' <=> InvoiceExists(j)
  BY <1>5 DEF InvoiceExists, OthersKept, Gone
<1>9. was.due = Total(was) - was.paid /\ was.paid = PaymentSum(PaymentsOf(i)) /\ invoices[i].status # "paid"
  BY <1>w, <1>3, <1>5 DEF Books, InvoiceGood
<1>10. money'[i].paid = PaymentSum(PaymentsOf(i))'
  <2>1. PICK S \in SUBSET Payments : S = PaymentsOf(i)
    BY DEF PaymentsOf
  <2>2. p \notin S /\ PaymentsOf(i)' = S \cup {p}
    BY <1>6, <1>7, <2>1 DEF PaymentsOf
  <2>3. PICK f : f = [q \in Payments |-> payments'[q].amount]
    OBVIOUS
  <2>4. IsFiniteSet(S)
    BY RowsAssumption, FS_Subset
  <2>5. \A q \in S \cup {p} : f[q] \in Nat
    BY <1>3, <1>7, <2>3 DEF TablesOK, MoneyTypeOK, PaymentRows
  <2>6. SumFunctionOnSet(f, S \cup {p}) = f[p] + SumFunctionOnSet(f, S)
    BY <2>2, <2>4, <2>5, SumOneIn
  <2>7. PaymentSum(S)' = PaymentSum(S)
    BY <1>7, <2>2, SumKept
  <2>8. SumFunctionOnSet(f, S) = PaymentSum(S)
    BY <2>3, <2>7 DEF PaymentSum
  <2>9. PaymentSum(PaymentsOf(i))' = SumFunctionOnSet(f, S \cup {p})
    BY <2>2, <2>3 DEF PaymentSum
  <2>10. PaymentSum(S) = was.paid /\ f[p] = amount
    BY <1>7, <1>9, <2>1, <2>3
  <2>11. QED
    BY <1>3, <1>4, <1>5, <2>6, <2>8, <2>9, <2>10
<1>11. InvoiceGood(i)'
  <2>1. Total(money'[i]) = Total(was)
    BY <1>w, <1>5 DEF AsksTheSame, Total
  <2>2. QED
    BY <1>3, <1>4, <1>5, <1>10, <2>1 DEF InvoiceGood, Total
<1>12. \A j \in Invoices \ {i} : InvoiceGood(j)'
  <2>1. ASSUME NEW j \in Invoices \ {i}, NEW q \in Payments, q \in PaymentsOf(j) \/ (q \in PaymentsOf(j))'
        PROVE  payments'[q] = payments[q]
    BY <1>6, <1>7, <2>1 DEF PaymentsOf
  <2>2. QED
    BY <1>5, <1>8, <2>1, InvoiceSame DEF Books, OthersKept
<1>13. LinksAlive'
  <2>1. \A q \in Payments : payments'[q].status = "live" =>
          \E j \in Invoices : payments'[q].invoice = j /\ InvoiceExists(j)'
    BY <1>3, <1>5, <1>7, <1>8 DEF Books, LinksAlive
  <2>2. \A j \in Invoices : invoices'[j].milestone = invoices[j].milestone
    BY <1>3, <1>5 DEF OthersKept
  <2>3. \A k \in Milestones : MilestoneExists(k) => MilestoneExists(k)'
    BY <1>5, RowsAssumption DEF MilestoneExists, MilestonesKept, Gone
  <2>4. QED
    BY <1>8, <2>1, <2>2, <2>3 DEF Books, LinksAlive
<1>14. ASSUME NothingDeleted', NEW k \in Milestones PROVE MilestoneGood(k)'
  <2>1. NothingDeleted
    BY <1>5, <1>6, <1>7, <1>14 DEF NothingDeleted, OthersKept, InvoiceExists, Gone
  <2>2. MilestoneGood(k)
    BY <2>1 DEF Books
  <2>3. k # Null
    BY RowsAssumption, <1>14
  <2>4. \A j \in Invoices : (j \in LiveInvoices(k))' <=> j \in LiveInvoices(k)
    BY <1>3, <1>5, <1>8 DEF LiveInvoices, OthersKept
  <2>5. CASE k = m /\ Total(was) - paid <= 0
    <3>1. i \in LiveInvoices(k)
      BY <1>3, <1>5, <2>5 DEF LiveInvoices
    <3>2. milestones[k].status \in {"invoiced", "paid"}
      <4>1. MilestoneExists(k)
        BY <1>3, <1>5, <2>3, <2>5 DEF Books, LinksAlive
      <4>2. QED
        BY <2>2, <3>1, <4>1 DEF MilestoneGood, MilestoneExists, Gone, TablesOK, MoneyTypeOK, MilestoneRows
    <3>3. milestones[k].invoice = i
      BY <2>2, <3>1, <3>2 DEF MilestoneGood
    <3>4. milestones'[k].status = "paid" /\ milestones'[k].invoice = i /\ invoices'[i].status = "paid"
      BY <1>5, <2>3, <2>5, <3>3
    <3>5. LiveInvoices(k)' = LiveInvoices(k)
      BY <2>4 DEF LiveInvoices
    <3>6. QED
      BY <2>2, <3>1, <3>4, <3>5 DEF MilestoneGood
  <2>6. CASE ~(k = m /\ Total(was) - paid <= 0)
    <3>1. milestones'[k] = milestones[k]
      BY <1>5, <2>3, <2>6 DEF MilestonesKept
    <3>2. \A j \in LiveInvoices(k) : invoices'[j].status = "paid" <=> invoices[j].status = "paid"
      BY <1>3, <1>5, <1>9, <2>6 DEF LiveInvoices, OthersKept
    <3>3. QED
      BY <2>2, <2>4, <3>1, <3>2, MilestoneSame
  <2>7. QED
    BY <2>5, <2>6
<1>15. QED
  BY <1>11, <1>12, <1>13, <1>14 DEF Books

(* A payment is deleted.                                                   *)
LEMMA DeletePaymentBooks ==
  ASSUME TablesOK, Books, NEW w \in Requests, Fresh(w), DeletePaymentCommit(w), ~Rollback(w)
  PROVE  Books'
<1>1. PICK i : i = loc[w].iid
  OBVIOUS
<1>p. PICK p : p = loc[w].pid
  OBVIOUS
<1>s. PICK sum : sum = cash[w].sum
  OBVIOUS
<1>2. pc[w] = "dp_commit" /\ pc[w] \in HasInvoice
  BY DEF DeletePaymentCommit, HasInvoice
<1>3. /\ i \in Invoices /\ loc[w].row = invoices[i] /\ cash[w].was = money[i] /\ sum \in Nat
      /\ Total(money[i]) \in Nat
      /\ p \in PaymentsOf(i) /\ sum = PaymentSum(PaymentsOf(i) \ {p})
  BY <1>1, <1>p, <1>s, <1>2, HandlersInvoice DEF Fresh
<1>4. /\ InvoiceExists(i) /\ p \in Payments
      /\ payments' = [payments EXCEPT ![p].status = "deleted"]
      /\ money'[i].paid = sum /\ money'[i].due = Total(money[i]) - sum /\ AsksTheSame(i)
      /\ invoices'[i].status = Left(w)
      /\ invoices'[i].milestone = invoices[i].milestone /\ invoices'[i].sent = invoices[i].sent
      /\ OthersKept(i)
      /\ \A k \in Milestones : MilestoneExists(k) => MilestoneExists(k)'
  <2>1. /\ InvoiceExists(i) /\ loc[w].pid \in Payments
        /\ payments' = [payments EXCEPT ![loc[w].pid].status = "deleted"]
        /\ money'[i].paid = cash[w].sum /\ money'[i].due = Total(cash[w].was) - cash[w].sum /\ AsksTheSame(i)
        /\ invoices'[i].status = Left(w)
        /\ invoices'[i].milestone = invoices[i].milestone /\ invoices'[i].sent = invoices[i].sent
        /\ OthersKept(i)
    BY <1>1, DeletePaymentDoes
  <2>2. \A k \in Milestones : MilestoneExists(k) => MilestoneExists(k)'
    BY DeletePaymentDoes
  <2>3. QED
    BY <1>p, <1>s, <1>3, <2>1, <2>2
<1>5. /\ payments'[p].status = "deleted" /\ payments'[p].invoice = i
      /\ \A q \in Payments \ {p} : payments'[q] = payments[q]
  BY <1>3, <1>4 DEF PaymentsOf, TablesOK, MoneyTypeOK, PaymentRows
<1>6. Left(w) = IF sum = 0 THEN IF invoices[i].sent THEN "sent" ELSE "draft"
                ELSE IF Total(money[i]) - sum <= 0 THEN "paid" ELSE "partial"
  BY <1>s, <1>3 DEF Left
<1>7. \A j \in Invoices : InvoiceExists(j)' <=> InvoiceExists(j)
  BY <1>4, <1>6 DEF InvoiceExists, OthersKept, Gone
<1>8. PaymentSum(PaymentsOf(i))' = sum
  <2>1. PICK S \in SUBSET Payments : S = PaymentsOf(i) \ {p}
    BY DEF PaymentsOf
  <2>2. PaymentsOf(i)' = S
    BY <1>5, <2>1 DEF PaymentsOf
  <2>3. PaymentSum(S)' = PaymentSum(S)
    BY <1>5, <2>1, SumKept
  <2>4. PaymentSum(PaymentsOf(i))' = PaymentSum(S)
    BY <2>2, <2>3 DEF PaymentSum
  <2>5. QED
    BY <1>3, <2>1, <2>4
<1>9. InvoiceGood(i)'
  <2>1. Total(money'[i]) = Total(money[i])
    BY <1>4 DEF AsksTheSame, Total
  <2>2. QED
    BY <1>3, <1>4, <1>6, <1>8, <2>1 DEF InvoiceGood, Total
<1>10. \A j \in Invoices \ {i} : InvoiceGood(j)'
  <2>1. ASSUME NEW j \in Invoices \ {i}, NEW q \in Payments, q \in PaymentsOf(j) \/ (q \in PaymentsOf(j))'
        PROVE  payments'[q] = payments[q]
    BY <1>3, <1>5, <2>1 DEF PaymentsOf
  <2>2. QED
    BY <1>4, <1>7, <2>1, InvoiceSame DEF Books, OthersKept
<1>11. LinksAlive'
  <2>1. \A q \in Payments : payments'[q].status = "live" =>
          \E j \in Invoices : payments'[q].invoice = j /\ InvoiceExists(j)'
    BY <1>5, <1>7 DEF Books, LinksAlive
  <2>2. \A j \in Invoices : invoices'[j].milestone = invoices[j].milestone
    BY <1>4 DEF OthersKept
  <2>3. QED
    BY <1>4, <1>7, <2>1, <2>2 DEF Books, LinksAlive
<1>12. ~NothingDeleted'
  BY <1>4, <1>5 DEF NothingDeleted
<1>13. QED
  BY <1>9, <1>10, <1>11, <1>12 DEF Books

(* An invoice is deleted, and its payments with it.                        *)
LEMMA DeleteInvoiceBooks ==
  ASSUME TablesOK, Books, NEW w \in Requests, Fresh(w), DeleteInvoiceCommit(w), ~Rollback(w)
  PROVE  Books'
<1>1. PICK i : i = loc[w].iid
  OBVIOUS
<1>2. pc[w] = "di_commit" /\ pc[w] \in HasInvoice
  BY DEF DeleteInvoiceCommit, HasInvoice
<1>3. i \in Invoices
  BY <1>1, <1>2, HandlersInvoice
<1>4. /\ InvoiceExists(i) /\ UNCHANGED money
      /\ invoices'[i].status = "deleted" /\ \A j \in Invoices \ {i} : invoices'[j] = invoices[j]
      /\ \A p \in Payments : payments'[p] = IF p \in PaymentsOf(i) THEN [payments[p] EXCEPT !.status = "deleted"]
                                            ELSE payments[p]
      /\ \A k \in Milestones : MilestoneExists(k) => MilestoneExists(k)'
  BY <1>1, DeleteInvoiceDoes
<1>5. ASSUME NEW p \in Payments
      PROVE  \/ p \in PaymentsOf(i) /\ payments'[p].status = "deleted"
             \/ p \notin PaymentsOf(i) /\ payments'[p] = payments[p]
  <2>1. PICK row : row = [payments[p] EXCEPT !.status = "deleted"]
    OBVIOUS
  <2>2. row.status = "deleted"
    BY <2>1 DEF TablesOK, MoneyTypeOK, PaymentRows
  <2>3. payments'[p] = IF p \in PaymentsOf(i) THEN row ELSE payments[p]
    BY <1>4, <2>1
  <2>4. QED
    BY <2>2, <2>3
<1>6. ~InvoiceExists(i)' /\ \A j \in Invoices \ {i} : InvoiceExists(j)' <=> InvoiceExists(j)
  BY <1>4 DEF InvoiceExists, Gone
<1>7. InvoiceGood(i)'
  BY <1>6 DEF InvoiceGood
<1>8. \A j \in Invoices \ {i} : InvoiceGood(j)'
  <2>1. ASSUME NEW j \in Invoices \ {i}, NEW q \in Payments, q \in PaymentsOf(j) \/ (q \in PaymentsOf(j))'
        PROVE  payments'[q] = payments[q]
    <3>1. q \notin PaymentsOf(i) \/ payments'[q].status = "deleted"
      BY <1>5
    <3>2. QED
      BY <1>5, <2>1 DEF PaymentsOf
  <2>2. QED
    BY <1>4, <1>6, <2>1, InvoiceSame DEF Books
<1>9. LinksAlive'
  <2>1. \A q \in Payments : payments'[q].status = "live" =>
          \E j \in Invoices : payments'[q].invoice = j /\ InvoiceExists(j)'
    <3>1. ASSUME NEW q \in Payments, payments'[q].status = "live"
          PROVE  payments[q].status = "live" /\ payments'[q].invoice = payments[q].invoice /\ payments[q].invoice # i
      BY <1>5, <3>1 DEF PaymentsOf
    <3>2. QED
      BY <1>6, <3>1 DEF Books, LinksAlive
  <2>2. QED
    BY <1>4, <1>6, <2>1 DEF Books, LinksAlive
<1>10. ~NothingDeleted'
  BY <1>3, <1>4 DEF NothingDeleted
<1>11. QED
  BY <1>7, <1>8, <1>9, <1>10 DEF Books

(* A pending milestone is edited or deleted.                               *)
LEMMA MilestoneWriteBooks ==
  ASSUME TablesOK, Books, NEW w \in Requests, Fresh(w), UpdateMilestoneWrite(w) \/ DeleteMilestoneWrite(w),
         ~Rollback(w)
  PROVE  Books'
<1>1. PICK m : m = loc[w].mid
  OBVIOUS
<1>2. /\ UNCHANGED <<money, payments>> /\ pc[w] \in {"um_write", "dm_write"}
      /\ m \in Milestones /\ MilestonesKept(m)
      /\ \/ /\ UNCHANGED invoices
            /\ milestones'[m].status = milestones[m].status /\ milestones'[m].invoice = milestones[m].invoice
         \/ /\ milestones'[m].status = "deleted"
            /\ \A i \in Invoices :
                 /\ invoices'[i].status = invoices[i].status /\ invoices'[i].sent = invoices[i].sent
                 /\ invoices'[i].milestone = IF invoices[i].milestone = m THEN Null ELSE invoices[i].milestone
  BY <1>1, MilestoneWriteDoes
<1>3. milestones[m].status = "pending" /\ m # Null
  BY <1>1, <1>2, RowsAssumption DEF Fresh, HasMilestone
<1>4. \A j \in Invoices : InvoiceExists(j)' <=> InvoiceExists(j)
  BY <1>2 DEF InvoiceExists
<1>5. \A j \in Invoices : InvoiceGood(j)'
  BY <1>2, <1>4, InvoiceSame DEF Books
<1>6. \A j \in Invoices : \/ invoices'[j].milestone = Null
                          \/ invoices'[j].milestone = invoices[j].milestone
  BY <1>2
<1>7. LinksAlive'
  <2>1. \A q \in Payments : payments'[q].status = "live" =>
          \E j \in Invoices : payments'[q].invoice = j /\ InvoiceExists(j)'
    BY <1>2, <1>4 DEF Books, LinksAlive
  <2>2. CASE milestones'[m].status = milestones[m].status
    <3>1. \A k \in Milestones : MilestoneExists(k) => MilestoneExists(k)'
      BY <1>2, <2>2 DEF MilestoneExists, MilestonesKept
    <3>2. QED
      BY <1>4, <1>6, <2>1, <3>1 DEF Books, LinksAlive
  <2>3. CASE milestones'[m].status = "deleted"
    <3>1. \A k \in Milestones \ {m} : MilestoneExists(k) => MilestoneExists(k)'
      BY <1>2 DEF MilestoneExists, MilestonesKept
    <3>2. \A j \in Invoices : invoices'[j].milestone # m
      BY <1>2, <1>3, <2>3
    <3>3. QED
      BY <1>4, <1>6, <2>1, <3>1, <3>2 DEF Books, LinksAlive
  <2>4. QED
    BY <1>2, <2>2, <2>3
<1>8. ASSUME NothingDeleted', NEW k \in Milestones PROVE MilestoneGood(k)'
  <2>1. NothingDeleted
    BY <1>2, <1>8 DEF NothingDeleted
  <2>2. MilestoneGood(k)
    BY <2>1 DEF Books
  <2>3. CASE k = m
    <3>1. LiveInvoices(k) = {}
      BY <1>3, <2>2, <2>3 DEF MilestoneGood
    <3>2. LiveInvoices(k)' = {}
      BY <1>2, <1>3, <1>4, <2>3, <3>1 DEF LiveInvoices
    <3>3. milestones'[k].status \in {"pending", "deleted"}
      BY <1>2, <1>3, <2>3
    <3>4. QED
      BY <3>2, <3>3 DEF MilestoneGood
  <2>4. CASE k # m
    <3>1. milestones'[k] = milestones[k]
      BY <1>2, <2>4 DEF MilestonesKept
    <3>2. \A j \in Invoices : invoices'[j].milestone = k <=> invoices[j].milestone = k
      BY <1>2, <2>4, RowsAssumption
    <3>3. \A j \in Invoices : (j \in LiveInvoices(k))' <=> j \in LiveInvoices(k)
      BY <1>2, <1>4, <3>2 DEF LiveInvoices
    <3>4. QED
      BY <1>2, <2>2, <3>1, <3>3, MilestoneSame DEF LiveInvoices
  <2>5. QED
    BY <2>3, <2>4
<1>9. QED
  BY <1>5, <1>7, <1>8 DEF Books

(* The next step of the handler in flight.                                 *)
LEMMA HandlerSerial ==
  ASSUME TablesOK, SerialInv, NEW w \in Requests, HandlerStep(w) \/ DbError(w)
  PROVE  SerialInv'
<1>1. pc[w] # "idle"
  BY DEF HandlerStep, DbError, CreateCommit, GenerateNumber, GenerateCommit, UpdateWrite, SendWrite, VoidCommit,
     PayCommit, DeletePaymentSum, DeletePaymentCommit, DeleteInvoiceCommit, UpdateMilestoneWrite, DeleteMilestoneWrite
<1>2. ASSUME Finish(w), Books' PROVE SerialInv'
  BY <1>1, <1>2, FinishFresh DEF SerialInv
<1>3. CASE Rollback(w)
  BY <1>2, <1>3, BooksSame DEF Rollback, SerialInv
<1>4. Books /\ Fresh(w) /\ \A v \in Requests \ {w} : pc[v] = "idle"
  BY <1>1 DEF SerialInv, Alone
<1>5. ASSUME NEW label, NEW locals, NEW amounts, Goto(w, label, locals, amounts), UNCHANGED Database, Fresh(w)'
      PROVE  SerialInv'
  BY <1>4, <1>5, GotoFresh, BooksSame DEF SerialInv
<1>6. ASSUME NEW label, NEW locals, NEW amounts, Goto(w, label, locals, amounts)
      PROVE  pc'[w] = label /\ loc'[w] = locals /\ cash'[w] = amounts
  BY <1>6 DEF Goto, TablesOK, ControlTypeOK, MoneyTypeOK
<1>7. CASE (CreateCommit(w) \/ GenerateCommit(w)) /\ ~Rollback(w)
  BY <1>2, <1>4, <1>7, CreateDoes, CreateBooks
<1>8. CASE GenerateNumber(w)
  <2>1. PICK l : l = [loc[w] EXCEPT !.number = nextNumber]
    OBVIOUS
  <2>2. l.mid = loc[w].mid
    BY <2>1 DEF TablesOK, ControlTypeOK, Locals
  <2>3. pc[w] = "gen_number" /\ Goto(w, "gen_commit", l, cash[w]) /\ UNCHANGED Database
    BY <1>8, <2>1 DEF GenerateNumber
  <2>4. milestones[loc[w].mid].status = "pending"
    BY <1>4, <2>3 DEF Fresh, HasMilestone
  <2>5. pc'[w] = "gen_commit" /\ loc'[w] = l
    BY <1>6, <2>3
  <2>6. Fresh(w)'
    BY <2>2, <2>3, <2>4, <2>5 DEF Fresh, HasInvoice, Database
  <2>7. QED
    BY <1>5, <2>3, <2>6
<1>9. CASE UpdateWrite(w) /\ ~Rollback(w)
  BY <1>2, <1>4, <1>9, UpdateDoes, UpdateBooks
<1>10. CASE SendWrite(w) /\ ~Rollback(w)
  BY <1>2, <1>4, <1>10, SendDoes, SendBooks
<1>11. CASE VoidCommit(w) /\ ~Rollback(w)
  BY <1>2, <1>4, <1>11, VoidDoes, VoidBooks
<1>12. CASE PayCommit(w) /\ ~Rollback(w)
  BY <1>2, <1>4, <1>12, PayDoes, PayBooks
<1>13. CASE DeletePaymentSum(w)
  <2>1. PICK sum : sum = PaymentSum(PaymentsOf(loc[w].iid) \ {loc[w].pid})
    OBVIOUS
  <2>2. PICK c : c = [cash[w] EXCEPT !.sum = sum]
    OBVIOUS
  <2>3. c.was = cash[w].was /\ c.sum = sum
    BY <2>2 DEF TablesOK, MoneyTypeOK, CashRows
  <2>4. pc[w] = "dp_sum" /\ Goto(w, "dp_commit", loc[w], c) /\ UNCHANGED Database
    BY <1>13, <2>1, <2>2 DEF DeletePaymentSum
  <2>5. /\ InvoiceExists(loc[w].iid) /\ loc[w].row = invoices[loc[w].iid] /\ cash[w].was = money[loc[w].iid]
        /\ loc[w].pid \in PaymentsOf(loc[w].iid)
    BY <1>4, <2>4 DEF Fresh, HasInvoice
  <2>6. pc'[w] = "dp_commit" /\ loc'[w] = loc[w] /\ cash'[w] = c
    BY <1>6, <2>4
  <2>7. PICK l : l = loc[w]
    OBVIOUS
  <2>8. /\ InvoiceExists(l.iid)' /\ l.row = invoices'[l.iid] /\ c.was = money'[l.iid]
        /\ l.pid \in PaymentsOf(l.iid)' /\ c.sum = PaymentSum(PaymentsOf(l.iid) \ {l.pid})'
    BY <2>1, <2>3, <2>4, <2>5, <2>7 DEF Database, InvoiceExists, PaymentsOf, PaymentSum
  <2>9. Fresh(w)'
    BY <2>6, <2>7, <2>8 DEF Fresh, HasMilestone
  <2>10. QED
    BY <1>5, <2>4, <2>9
<1>14. CASE DeletePaymentCommit(w) /\ ~Rollback(w)
  BY <1>2, <1>4, <1>14, DeletePaymentDoes, DeletePaymentBooks
<1>15. CASE DeleteInvoiceCommit(w) /\ ~Rollback(w)
  BY <1>2, <1>4, <1>15, DeleteInvoiceDoes, DeleteInvoiceBooks
<1>16. CASE (UpdateMilestoneWrite(w) \/ DeleteMilestoneWrite(w)) /\ ~Rollback(w)
  BY <1>2, <1>4, <1>16, MilestoneWriteDoes, MilestoneWriteBooks
<1>17. CASE DbError(w)
  BY <1>3, <1>17 DEF DbError
<1>18. QED
  BY <1>3, <1>7, <1>8, <1>9, <1>10, <1>11, <1>12, <1>13, <1>14, <1>15, <1>16, <1>17 DEF HandlerStep

(* Every step keeps the books when handlers do not overlap.                *)
LEMMA SerialNext ==
  ASSUME Serial, TablesOK, SerialInv, [Next]_vars
  PROVE  SerialInv'
<1>1. ASSUME \A w \in Requests : pc'[w] = "idle", Books' PROVE SerialInv'
  BY <1>1 DEF SerialInv, Alone, Fresh, HasInvoice, HasMilestone
<1>2. CASE Crash
  BY <1>1, <1>2, BooksSame DEF Crash, SerialInv
<1>3. ASSUME NEW new \in NewMilestones, CreateMilestones(new) PROVE SerialInv'
  <2>1. PICK ids \in SUBSET Milestones : new \in [ids -> Amounts]
    BY DEF NewMilestones
  <2>2. /\ UNCHANGED <<invoices, money, payments, pc>> /\ \A w \in Requests : pc[w] = "idle"
        /\ \A m \in ids : milestones[m].status = "none" /\ milestones'[m].status = "pending"
        /\ \A m \in Milestones \ ids : milestones'[m] = milestones[m]
    BY <1>3, <2>1 DEF CreateMilestones
  <2>3. \A i \in Invoices : InvoiceExists(i)' <=> InvoiceExists(i)
    BY <2>2 DEF InvoiceExists
  <2>4. \A i \in Invoices : InvoiceGood(i)'
    BY <2>2, <2>3, InvoiceSame DEF SerialInv, Books
  <2>5. \A m \in Milestones : MilestoneExists(m) => MilestoneExists(m)'
    BY <2>2 DEF MilestoneExists, Gone
  <2>6. LinksAlive'
    BY <2>2, <2>3, <2>5 DEF SerialInv, Books, LinksAlive
  <2>7. ASSUME NothingDeleted', NEW m \in Milestones PROVE MilestoneGood(m)'
    <3>1. MilestoneGood(m)
      BY <2>2, <2>7 DEF SerialInv, Books, NothingDeleted
    <3>2. CASE m \in ids
      <4>1. m # Null /\ ~MilestoneExists(m)
        BY <2>2, <3>2, RowsAssumption DEF MilestoneExists, Gone
      <4>2. LiveInvoices(m)' = {}
        BY <2>2, <2>3, <4>1 DEF SerialInv, Books, LinksAlive, LiveInvoices
      <4>3. QED
        BY <2>2, <3>2, <4>2 DEF MilestoneGood
    <3>3. CASE m \notin ids
      BY <2>2, <2>3, <3>1, <3>3, MilestoneSame DEF LiveInvoices
    <3>4. QED
      BY <3>2, <3>3
  <2>8. QED
    BY <1>1, <2>2, <2>4, <2>6, <2>7 DEF Books
<1>4. CASE Wait \/ UNCHANGED vars
  <2>1. UNCHANGED Database /\ UNCHANGED <<pc, loc, cash>>
    BY <1>4 DEF Wait, vars, Database
  <2>2. Books'
    BY <2>1, BooksSame DEF SerialInv
  <2>3. ASSUME NEW w \in Requests PROVE Fresh(w)'
    <3>1. PICK l : l = loc[w]
      OBVIOUS
    <3>2. PICK c : c = cash[w]
      OBVIOUS
    <3>3. /\ InvoiceExists(l.iid)' <=> InvoiceExists(l.iid)
          /\ l.pid \in PaymentsOf(l.iid)' <=> l.pid \in PaymentsOf(l.iid)
          /\ PaymentSum(PaymentsOf(l.iid) \ {l.pid})' = PaymentSum(PaymentsOf(l.iid) \ {l.pid})
      BY <2>1 DEF Database, InvoiceExists, PaymentsOf, PaymentSum
    <3>4. Fresh(w)
      BY DEF SerialInv
    <3>5. QED
      BY <2>1, <3>1, <3>2, <3>3, <3>4 DEF Fresh, Database
  <2>4. Alone'
    BY <2>1 DEF SerialInv, Alone
  <2>5. QED
    BY <2>2, <2>3, <2>4 DEF SerialInv
<1>5. QED
  BY <1>2, <1>3, <1>4, ArriveSerial, HandlerSerial DEF Next

(* What serial requests keep holds at first.                               *)
LEMMA SerialInit == Init => SerialInv
<1> SUFFICES ASSUME Init PROVE SerialInv
  OBVIOUS
<1>1. (\A w \in Requests : pc[w] = "idle") /\ \A i \in Invoices : ~InvoiceExists(i)
  BY DEF Init, InvoiceExists, NoInvoice, Gone
<1>2. \A p \in Payments : payments[p].status = "none"
  BY DEF Init, NoPayment
<1>3. \A m \in Milestones : milestones[m].status = "none" /\ LiveInvoices(m) = {}
  BY <1>1 DEF Init, NoMilestone, LiveInvoices
<1>4. Books
  BY <1>1, <1>2, <1>3 DEF Books, InvoiceGood, LinksAlive, MilestoneGood
<1>5. QED
  BY <1>1, <1>4 DEF SerialInv, Alone, Fresh, HasInvoice, HasMilestone

(* It holds always.                                                        *)
LEMMA SerialAlways == Serial => (Spec => []SerialInv)
<1> SUFFICES ASSUME Serial PROVE Spec => []SerialInv
  OBVIOUS
<1>1. TablesOK /\ SerialInv /\ [Next]_vars => SerialInv'
  BY SerialNext
<1>2. QED
  BY <1>1, SerialInit, InvoiceTablesCorrect, PTL DEF Spec

(* amount_paid is the sum of the invoice's payments, however many payments *)
(* are recorded and deleted one after the other, errors and crashes        *)
(* included.                                                               *)
THEOREM PaidIsTheSum ==
  ASSUME Serial
  PROVE  Spec => []PaidIsSumOfPayments
<1>1. SerialInv => PaidIsSumOfPayments
  BY DEF SerialInv, Books, InvoiceGood, PaidIsSumOfPayments
<1>2. QED
  BY <1>1, SerialAlways, PTL

(* The status of an invoice tells how much of it is paid.                  *)
THEOREM StatusTellsPaid ==
  ASSUME Serial
  PROVE  Spec => []StatusFollowsMoney
<1>1. SerialInv => StatusFollowsMoney
  BY DEF SerialInv, Books, InvoiceGood, StatusFollowsMoney
<1>2. QED
  BY <1>1, SerialAlways, PTL

(* A milestone has at most one invoice that counts and follows it, until   *)
(* an invoice or a payment is deleted.                                     *)
THEOREM MilestonesFollow ==
  ASSUME Serial
  PROVE  Spec => []MilestoneFollowsInvoice
<1>1. ASSUME SerialInv, NothingDeleted, NEW m \in Milestones
      PROVE  /\ Cardinality(LiveInvoices(m)) <= 1
             /\ CASE milestones[m].status = "pending"  -> LiveInvoices(m) = {}
                  [] milestones[m].status = "invoiced" ->
                       \E i \in LiveInvoices(m) : milestones[m].invoice = i /\ invoices[i].status # "paid"
                  [] milestones[m].status = "paid"     ->
                       \E i \in LiveInvoices(m) : milestones[m].invoice = i /\ invoices[i].status = "paid"
                  [] OTHER -> TRUE
  <2>1. MilestoneGood(m)
    BY <1>1 DEF SerialInv, Books
  <2>2. Cardinality(LiveInvoices(m)) <= 1
    <3>1. CASE LiveInvoices(m) = {}
      BY <3>1, FS_EmptySet
    <3>2. CASE LiveInvoices(m) # {}
      <4>1. PICK i : LiveInvoices(m) = {i}
        BY <2>1, <3>2 DEF MilestoneGood
      <4>2. QED
        BY <4>1, FS_Singleton
    <3>3. QED
      BY <3>1, <3>2
  <2>3. QED
    BY <2>1, <2>2 DEF MilestoneGood
<1>2. SerialInv => MilestoneFollowsInvoice
  BY <1>1 DEF MilestoneFollowsInvoice
<1>3. QED
  BY <1>2, SerialAlways, PTL

(* amount_due stays what is left of the total after amount_paid, however   *)
(* payments, deletions and status changes overlap; an edit writes it from  *)
(* the row as read, so with edits this takes handlers one at a time.       *)
THEOREM BalanceHolds ==
  ASSUME "update" \notin Ops \/ Serial
  PROVE  Spec => []BalanceKept
<1>1. CASE "update" \notin Ops
  <2>1. TablesOK /\ BalanceInv /\ [Next]_vars => BalanceInv'
    BY <1>1, BalanceNext
  <2>2. BalanceInv => BalanceKept
    BY DEF BalanceInv
  <2>3. QED
    BY <2>1, <2>2, BalanceInit, InvoiceTablesCorrect, PTL DEF Spec
<1>2. CASE Serial
  <2>1. SerialInv => BalanceKept
    BY DEF SerialInv, Books, InvoiceGood, BalanceKept
  <2>2. QED
    BY <1>2, <2>1, SerialAlways, PTL
<1>3. QED
  BY <1>1, <1>2

=============================================================================
