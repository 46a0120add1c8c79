\* history-reconcile and history-verify beside imports, scans and rechecks.
SPECIFICATION Spec
CONSTANTS
  Runs = {r1, r2}
  Planned = {r2}
  Restored = {r2}
  Rechecks = {x1}
  Callers = {c1, c2}
  Payloads = {b1}
  Invalid = {}
  Plain = Plain
  Junk = Junk
  Absent = Absent
  NoCaller = NoCaller
  NoRun = NoRun
  MaxCalls = 2
  MaxFaults = 0
  MaxLosses = 0
  MaxDamages = 1
SYMMETRY CallerSymmetry
INVARIANTS IngestOwnsRun AuditComplete
