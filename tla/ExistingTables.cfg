SPECIFICATION Spec
CONSTANTS
  Models <- Extensions
  Before <- Catalog
  Others <- NoChanges
  MaxSessions = 1
  MaxChanges = 0
  None = None
INVARIANTS ScriptHasTheChanges
