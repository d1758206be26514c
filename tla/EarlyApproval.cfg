SPECIFICATION FairSpec
CONSTANTS
  Requests = {r1}
  Starter = starter
  Feedback = {f1}
  None = None
  MaxFaults = 0
PROPERTIES
  ApprovalDelivers
