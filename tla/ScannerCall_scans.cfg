\* Scans whose scanner writes too much, forks, hangs, outlives its leader or leaves the group.
SPECIFICATION Spec
CONSTANTS
  Leader = Leader
  Child = Child
  OutputLimit = 2
  VersionLimit = 1
  ErrorLimit = 1
  PipeSize = 2
  MaxOutput = 2
  MaxCancels = 2
INVARIANTS TypeOK ReportIsWhole WithinLimits NothingLeftBehind CancellationHeard
PROPERTIES ScanEnds
CHECK_DEADLOCK FALSE
