SPECIFICATION Spec
CONSTANTS
  Invoices = {i1, i2}
  Payments = {p1, p2}
  Milestones = {m1}
  Requests = {r1}
  Null = Null
  Ops = {"create", "generate", "update", "send", "void", "pay", "delete_payment", "delete_invoice", "create_milestone", "update_milestone", "delete_milestone"}
  Faults = {"error", "crash"}
  Serial = TRUE
  Amounts = {1, 2}
  Taxes = {0, 1}
  i1 = i1
  i2 = i2
  m1 = m1
  p1 = p1
  p2 = p2
  r1 = r1
SYMMETRY RowSymmetry
INVARIANT PaidIsSumOfPayments
INVARIANT StatusFollowsMoney
INVARIANT MilestoneFollowsInvoice
