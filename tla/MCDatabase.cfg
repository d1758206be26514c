SPECIFICATION Spec
CONSTANTS
  Models <- AllModels
  Before <- Catalog
  Others <- Changes
  MaxSessions = 2
  MaxChanges = 1
  None = None
INVARIANTS TypeOK ScriptBuildsTheModel SchemaInTime 
PROPERTIES DowngradeRestores
