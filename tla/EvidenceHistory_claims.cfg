\* Rechecks of every kind of response, and histories of rechecks, scans and imports.
SPECIFICATION Spec
CONSTANTS
  a1 = a1
  a2 = a2
  Addresses = {a1, a2}
  Nothing = Nothing
  HeaderLimit = 2
  ResponseLimit = 4
  ScanTimeout = 3
  RequestTimeout = 2
  Delay = 1
  CloseTimeout = 1
  MaxRead = 3
  Scenes <- MCScenes
INVARIANTS TypeOK ConclusionsAreTrue RecheckBounded ResolvedIsReal DamageWithdraws
CHECK_DEADLOCK FALSE
