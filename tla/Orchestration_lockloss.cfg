\* The session of the worker lock may die while its holder goes on.
SPECIFICATION Spec
CONSTANTS
  a1 = a1
  a2 = a2
  Assessments = {a1}
  Plan <- LongPlan
  Workers = {w1, w2}
  NoWorker = NoWorker
  MaxClaims = 2
  MaxFaults = 1
  MaxLockLosses = 2
SYMMETRY WorkerSymmetry
INVARIANTS RowLocksHold LaunchedOnce StagesInOrder EvidenceBacksStages VerdictMatchesStages
PROPERTIES OutcomesFinal
