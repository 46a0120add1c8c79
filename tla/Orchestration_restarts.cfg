\* Crashes, interrupts and restarts with a worker lock that outlives its holder.
SPECIFICATION Spec
CONSTANTS
  a1 = a1
  a2 = a2
  Assessments = {a1, a2}
  Plan <- MixedPlan
  Workers = {w1, w2}
  NoWorker = NoWorker
  MaxClaims = 3
  MaxFaults = 2
  MaxLockLosses = 0
SYMMETRY WorkerSymmetry
INVARIANTS TypeOK NoStageLeftRunning NoOrphanRun
PROPERTIES ClosedFrozen ImplementsLifecycle
