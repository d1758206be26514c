SPECIFICATION Spec
CONSTANTS
  start = start
  retake1 = retake1
  retake2 = retake2
  t1 = t1
  t2 = t2
  None = None
  Calls <- MCCalls
  Retakes <- MCRetakes
  Tickets <- MCTickets
  MaxFaults = 1
SYMMETRY Symmetry
INVARIANTS TypeOK LineageGoesBack  
 
