\* A recheck commits while reconcile walks over the directories.
SPECIFICATION Spec
CONSTANTS
  Runs = {r1}
  Planned = {}
  Restored = {}
  Rechecks = {x1}
  Callers = {c1, c2}
  Payloads = {b1}
  Invalid = {}
  Plain = Plain
  Junk = Junk
  Absent = Absent
  NoCaller = NoCaller
  NoRun = NoRun
  MaxCalls = 1
  MaxFaults = 0
  MaxLosses = 0
  MaxDamages = 0
SYMMETRY CallerSymmetry
PROPERTIES ResponsesNotUnreferenced
