SPECIFICATION PatientSpec
CONSTANTS
  Requests = {r1}
  Starter = starter
  Feedback = {f1}
  None = None
  MaxFaults = 1
INVARIANTS
  ScriptWithDiagram
