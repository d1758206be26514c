SPECIFICATION FairSpec
CONSTANTS
  performance = performance
  security = security
  modeling = modeling
  diagram = diagram
  text = text
  Callers = {performance, security, modeling, diagram, text}
  Structured = {performance, security, modeling, diagram}
  Sibling <- MCSibling
  Permits = 2
  MaxRetries = 2
INVARIANTS
  TypeOK
  PermitsConserved
  NoLostWakeup
PROPERTIES
  FirstComeFirstServed
  EveryCallEnds
