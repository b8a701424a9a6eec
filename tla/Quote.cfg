SPECIFICATION Spec
CONSTANTS
  Requests = {r1, r2}
  Levels = 2
  MaxFlows = 2
  MaxFaults = 1
  r1 = r1
  r2 = r2
SYMMETRY RequestSymmetry
INVARIANT LevelsInOrder
INVARIANT MailedNotReady
INVARIANT WonIsCustomer
INVARIANT StatusFollowsApproval
