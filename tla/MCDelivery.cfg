SPECIFICATION FairSpec
CONSTANTS
  run = run
  Agents = {run}
  Attached <- OneResult
  Completing = {run}
  MaxAttempts = 3
  MaxEdits = 2
INVARIANTS TypeOK DeliveryInv EffectsBounded
PROPERTIES KeepsPromise EveryRunEnds
