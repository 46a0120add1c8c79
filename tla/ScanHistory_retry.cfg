\* An import stops between the link of a file and the unlink of its temporary name.
SPECIFICATION Spec
CONSTANTS
  Runs = {r1}
  Planned = {}
  Restored = {}
  Rechecks = {}
  Callers = {c1, c2}
  Payloads = {b1}
  Invalid = {}
  Plain = Plain
  Junk = Junk
  Absent = Absent
  NoCaller = NoCaller
  NoRun = NoRun
  MaxCalls = 2
  MaxFaults = 1
  MaxLosses = 0
  MaxDamages = 0
SYMMETRY CallerSymmetry
INVARIANTS RetryAccepted
