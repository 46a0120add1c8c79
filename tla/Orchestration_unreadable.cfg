\* A worker stops between two stages; its assessment cannot be loaded again.
SPECIFICATION Spec
CONSTANTS
  a1 = a1
  a2 = a2
  Assessments = {a1}
  Plan <- LongPlan
  Workers = {w1, w2}
  NoWorker = NoWorker
  MaxClaims = 2
  MaxFaults = 1
  MaxLockLosses = 0
SYMMETRY WorkerSymmetry
INVARIANTS ClosedReadable
