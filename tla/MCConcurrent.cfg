SPECIFICATION Spec
CONSTANTS
  Requests = {r1, r2}
  Starter = starter
  Feedback = {f1}
  None = None
  MaxFaults = 1
SYMMETRY RequestSymmetry
INVARIANTS
  TypeOK
  
  
  GateNeedsApproval
  PausedUndecided
  StatusIsTrue
  BranchesJoined
PROPERTIES
  NeverBack
