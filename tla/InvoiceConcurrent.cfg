SPECIFICATION Spec
CONSTANTS
  Invoices = {i1, i2}
  Payments = {p1, p2}
  Milestones = {m1}
  Requests = {r1, r2}
  Null = Null
  Ops = {"create", "generate", "send", "void", "pay", "delete_payment", "create_milestone", "update_milestone", "delete_milestone"}
  Faults = {"error"}
  Serial = FALSE
  Amounts = {1}
  Taxes = {0, 1}
  i1 = i1
  i2 = i2
  m1 = m1
  p1 = p1
  p2 = p2
  r1 = r1
  r2 = r2
SYMMETRY SlotSymmetry
INVARIANT BalanceKept
INVARIANT PaidWithinTotal
PROPERTY SequentialNumbers
