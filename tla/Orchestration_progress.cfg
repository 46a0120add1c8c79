\* Liveness; no symmetry.
SPECIFICATION FairSpec
CONSTANTS
  a1 = a1
  a2 = a2
  Assessments = {a1}
  Plan <- LongPlan
  Workers = {w1, w2}
  NoWorker = NoWorker
  MaxClaims = 2
  MaxFaults = 2
  MaxLockLosses = 0
PROPERTIES ClaimedWorkCloses StartedStagesEnd
