SPECIFICATION FairPatientSpec
CONSTANTS
  Requests = {r1, r2, r3}
  Starter = starter
  Feedback = {f1, f2}
  None = None
  MaxFaults = 2
INVARIANTS
  
  
  
  RestAgrees
PROPERTIES
  CompletedIsFinal
  ImplementsReviewLoop
