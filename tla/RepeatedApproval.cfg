SPECIFICATION Spec
CONSTANTS
  Requests = {r1, r2}
  Starter = starter
  Feedback = {f1}
  None = None
  MaxFaults = 0
INVARIANTS
  DeliveredOnce
