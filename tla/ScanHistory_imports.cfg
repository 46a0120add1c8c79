\* Concurrent and repeated imports and scans of one identifier.
SPECIFICATION FairSpec
CONSTANTS
  Runs = {r1}
  Planned = {}
  Restored = {}
  Rechecks = {}
  Callers = {c1, c2}
  Payloads = {b1, b2, bad}
  Invalid = {bad}
  Plain = Plain
  Junk = Junk
  Absent = Absent
  NoCaller = NoCaller
  NoRun = NoRun
  MaxCalls = 3
  MaxFaults = 1
  MaxLosses = 1
  MaxDamages = 0
INVARIANTS TypeOK LiveScanRuns ScannedOnce EvidencePublished SucceededHasEvidence AnswersAgree
  ReportIsTrue
PROPERTIES ImplementsRunRecord RunsEnd
