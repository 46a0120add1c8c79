---------------------------- MODULE ScanHistory ----------------------------
(***************************************************************************)
(* Scan history and its artifacts.  Any process may import a report, scan, *)
(* or reconcile (storage/operations.py, storage/history.py); each works on *)
(* a run under that run's session advisory lock (storage/database.py) and  *)
(* on the same connection, so that the end of the session takes the lock   *)
(* and the right to write rows away together.  Files are published without *)
(* overwriting (storage/artifacts.py) before the transaction that refers   *)
(* to them commits, and a process whose session has died may still publish.*)
(***************************************************************************)
EXTENDS Naturals, FiniteSets

CONSTANTS
  Runs,           \* run identifiers
  Planned,        \* those reserved by stages of assessments
  Restored,       \* those that had a directory, but no row, from the beginning
  Rechecks,       \* identifiers of recheck acquisitions
  Callers,        \* processes
  Payloads,       \* reports a scanner can produce
  Invalid,        \* those that do not parse, or exceed the scope of the run
  Plain,          \* bytes that are not in question: an import's empty stderr, ...
  Junk,           \* bytes nobody published
  Absent,         \* no file, no row, no payload
  NoCaller, NoRun,
  MaxCalls,       \* bound: imports and scans
  MaxFaults,      \* bound: crashes and uncaught exceptions
  MaxLosses,      \* bound: sessions that end while their process goes on
  MaxDamages      \* bound: referenced files removed or altered from outside

ASSUME RunAssumption ==
  /\ Planned \subseteq Runs /\ Restored \subseteq Runs
  /\ NoRun \notin Runs /\ Runs \cap Rechecks = {}
ASSUME CallerAssumption == NoCaller \notin Callers
ASSUME BytesAssumption ==
  /\ Invalid \subseteq Payloads
  /\ Absent \notin Payloads /\ Absent # Plain
  /\ Junk \notin Payloads \cup {Plain, Absent}
ASSUME BoundAssumption == {MaxCalls, MaxFaults, MaxLosses, MaxDamages} \subseteq Nat

VARIABLES
  status,     \* runs.status (and stages.status, always changed with it)
  kind,       \* runs.kind
  artifact,   \* bytes an artifact row's digest stands for
  health,     \* health of an artifact row
  file,       \* bytes of a published file
  twin,       \* files whose temporary link still exists, so that st_nlink is 2
  dirs,       \* directories below the artifact root
  lock,       \* holder of a run's session advisory lock
  pc, call, role,   \* where a caller is, what it was asked to do, which file it publishes
  audit,      \* the variables of a caller's reconcile
  calls, faults, losses, damages,   \* counters behind the bounds
  answers,    \* history: imports and scans that returned a report
  scans       \* history: times a scanner was started for a run

rows  == <<status, kind, artifact, health>>
disk  == <<file, twin, dirs>>
local == <<lock, pc, call, role, audit>>
bound == <<calls, faults, losses, damages>>
ghost == <<answers, scans>>
vars  == <<rows, disk, local, bound, ghost>>

Roles == {"stdout", "stderr"}
Files == (Runs \X Roles) \cup (Rechecks \X {"response"})
FilesOf(d) == {f \in Files : f[1] = d}
\* An issue names a directory (an identifier) or a file in one (a path with a slash).
ASSUME NameAssumption == Files \cap (Runs \cup Rechecks) = {}
Bytes == Payloads \cup {Plain, Junk, Absent}

RunStatus == {"none", "running", "succeeded", "failed", "interrupted"}
Health == {"none", "ready", "missing", "corrupt"}
PublishPcs == {"check", "link", "unlink", "commit"}
TxPcs == PublishPcs \cup {"compare"}
RunPcs == TxPcs \cup {"begin", "mkdir", "scan", "ingest", "failed", "interrupted"}
\* Where the next step needs the session.
DbPcs == {"begin", "ingest", "compare", "commit", "failed", "interrupted", "run"}
Pcs == RunPcs \cup {"idle", "runs", "run", "list", "paths"}

Calls == [op : {"none", "import", "scan", "reconcile"},
          run : Runs \cup {NoRun}, payload : Payloads \cup {Absent}]
NoCall == [op |-> "none", run |-> NoRun, payload |-> Absent]

Issues == (Runs \cup Rechecks \cup Files)
            \X {"busy", "interrupted", "missing", "corrupt", "unreferenced"}
Audits == [todo : SUBSET (Runs \cup Rechecks), known : SUBSET (Runs \cup Rechecks),
           issues : SUBSET Issues, bad : SUBSET Files, stray : SUBSET Runs]
NoAudit == [todo |-> {}, known |-> {}, issues |-> {}, bad |-> {}, stray |-> {}]

StoreTypeOK ==
  /\ status \in [Runs -> RunStatus] /\ kind \in [Runs -> {"none", "import", "scan"}]
  /\ artifact \in [Files -> Bytes] /\ health \in [Files -> Health]
  /\ file \in [Files -> Bytes] /\ twin \in SUBSET Files
  /\ dirs \in SUBSET (Runs \cup Rechecks)
  /\ calls \in Nat /\ faults \in Nat /\ losses \in Nat /\ damages \in Nat
  /\ answers \in SUBSET (Runs \X Payloads) /\ scans \in [Runs -> Nat]

CallerTypeOK ==
  /\ lock \in [Runs -> Callers \cup {NoCaller}]
  /\ pc \in [Callers -> Pcs] /\ call \in [Callers -> Calls]
  /\ role \in [Callers -> Roles] /\ audit \in [Callers -> Audits]
  /\ \A c \in Callers :
       /\ pc[c] \in RunPcs \cup {"run"} => call[c].run \in Runs
       /\ pc[c] \in TxPcs \cup {"ingest"} => call[c].payload \in Payloads
       /\ call[c].op = "import" => call[c].payload \in Payloads
       /\ pc[c] \in {"runs", "run"} => audit[c].todo \subseteq Runs

\* Rows have the values the schema allows, and a caller that works on a run
\* knows which, and which bytes to store once it is about to store them.
TypeOK == StoreTypeOK /\ CallerTypeOK

Init ==
  /\ status = [r \in Runs |-> "none"] /\ kind = [r \in Runs |-> "none"]
  /\ artifact = [f \in Files |-> Absent] /\ health = [f \in Files |-> "none"]
  /\ file = [f \in Files |-> IF f \in Restored \X {"stdout"} THEN Junk ELSE Absent]
  /\ twin = {} /\ dirs = Restored
  /\ lock = [r \in Runs |-> NoCaller]
  /\ pc = [c \in Callers |-> "idle"] /\ call = [c \in Callers |-> NoCall]
  /\ role = [c \in Callers |-> "stdout"] /\ audit = [c \in Callers |-> NoAudit]
  /\ calls = 0 /\ faults = 0 /\ losses = 0 /\ damages = 0
  /\ answers = {} /\ scans = [r \in Runs |-> 0]

-----------------------------------------------------------------------------
(* Locks, rows and files.                                                  *)

Target(c) == call[c].run

\* The caller's session is alive: it still holds its run's lock.
Live(c) == lock[Target(c)] = c

\* Mutant of RowLocked: ingest reads the row without FOR UPDATE.
RowNeverLocked(r) == FALSE

\* The row is locked by an open ingestion (SELECT ... FOR UPDATE).
RowLocked(r) == \E c \in Callers : Target(c) = r /\ Live(c) /\ pc[c] \in TxPcs

Goto(c, label) == pc' = [pc EXCEPT ![c] = label]

\* The call returns or raises; locked_run gives the lock back.
Leave(c) ==
  /\ Goto(c, "idle")
  /\ call' = [call EXCEPT ![c] = NoCall]
  /\ role' = [role EXCEPT ![c] = "stdout"]
  /\ audit' = [audit EXCEPT ![c] = NoAudit]
  /\ lock' = IF Target(c) # NoRun /\ Live(c) THEN [lock EXCEPT ![Target(c)] = NoCaller] ELSE lock

\* Mutant of Finished: the UPDATE lacks its WHERE status = 'running'.
FinishedAlways(r, outcome) == [status EXCEPT ![r] = outcome]

\* _finish: UPDATE ... WHERE status = 'running'.
Finished(r, outcome) ==
  IF status[r] = "running" THEN [status EXCEPT ![r] = outcome] ELSE status

FileAt(c) == <<Target(c), role[c]>>
Content(c, f) ==
  IF f[2] = "stderr" /\ call[c].op = "import" THEN Plain ELSE call[c].payload

\* ArtifactStore.read refuses a file with a second link.
Readable(f) == file[f] # Absent /\ f \notin twin

HealthOf(f) ==
  IF file[f] = Absent THEN "missing"
  ELSE IF f \in twin \/ file[f] # artifact[f] THEN "corrupt" ELSE "ready"

Bad(f) == artifact[f] # Absent /\ HealthOf(f) # "ready"

-----------------------------------------------------------------------------
(* Taking a run's lock, and begin.                                         *)

Start(c, op, r, p) ==
  /\ pc[c] = "idle" /\ calls < MaxCalls
  /\ lock[r] = NoCaller
  /\ lock' = [lock EXCEPT ![r] = c]
  /\ call' = [call EXCEPT ![c] = [op |-> op, run |-> r, payload |-> p]]
  /\ calls' = calls + 1
  /\ Goto(c, "begin")
  /\ UNCHANGED <<rows, disk, role, audit, faults, losses, damages, ghost>>

\* begin refuses to import under an identifier a stage has reserved.
StartImport(c) == \E r \in Runs \ Planned, p \in Payloads : Start(c, "import", r, p)
StartScan(c) == \E r \in Runs : Start(c, "scan", r, Absent)

InsertRow(c, k) ==
  /\ status' = [status EXCEPT ![Target(c)] = "running"]
  /\ kind' = [kind EXCEPT ![Target(c)] = k]
  /\ UNCHANGED <<artifact, health>>

\* An import of an identifier that was imported before goes on: a retry.
BeginImport(c) ==
  /\ pc[c] = "begin" /\ call[c].op = "import" /\ Live(c)
  /\ \/ /\ status[Target(c)] = "none" /\ InsertRow(c, "import")
        /\ Goto(c, "ingest") /\ UNCHANGED <<lock, call, role, audit>>
     \/ /\ kind[Target(c)] = "import" /\ UNCHANGED rows
        /\ Goto(c, "ingest") /\ UNCHANGED <<lock, call, role, audit>>
     \/ kind[Target(c)] = "scan" /\ UNCHANGED rows /\ Leave(c)
  /\ UNCHANGED <<disk, bound, ghost>>

\* Mutant of BeginScan: a scan is retried like an import.
BeginScanAgain(c) ==
  /\ pc[c] = "begin" /\ call[c].op = "scan" /\ Live(c)
  /\ InsertRow(c, "scan")
  /\ Goto(c, "mkdir")
  /\ UNCHANGED <<lock, call, role, audit, disk, bound, ghost>>

\* A scan wants a new identifier; a planned one must also be its stage's, running.
BeginScan(c) ==
  /\ pc[c] = "begin" /\ call[c].op = "scan" /\ Live(c)
  /\ \/ /\ status[Target(c)] = "none" /\ InsertRow(c, "scan")
        /\ Goto(c, "mkdir") /\ UNCHANGED <<lock, call, role, audit>>
     \/ /\ status[Target(c)] # "none" \/ Target(c) \in Planned
        /\ Leave(c) /\ UNCHANGED rows
  /\ UNCHANGED <<disk, bound, ghost>>

MakeDirectory(c) ==
  /\ pc[c] = "mkdir"
  /\ dirs' = dirs \cup {Target(c)}
  /\ scans' = [scans EXCEPT ![Target(c)] = @ + 1]
  /\ Goto(c, "scan")
  /\ UNCHANGED <<rows, file, twin, lock, call, role, audit, bound, answers>>

\* The scanner ends with a report, with an ExecutionError, or is cancelled.
Scan(c) ==
  /\ pc[c] = "scan"
  /\ \/ /\ Goto(c, "ingest")
        /\ \E p \in Payloads : call' = [call EXCEPT ![c].payload = p]
     \/ Goto(c, "failed") /\ UNCHANGED call
     \/ Goto(c, "interrupted") /\ UNCHANGED call
  /\ UNCHANGED <<rows, disk, lock, role, audit, bound, ghost>>

\* _failure.
EndRun(c) ==
  /\ pc[c] \in {"failed", "interrupted"} /\ Live(c)
  /\ status' = Finished(Target(c), pc[c])
  /\ Leave(c)
  /\ UNCHANGED <<kind, artifact, health, disk, bound, ghost>>

-----------------------------------------------------------------------------
(* ingest: one transaction around the publication of two files.            *)

\* The row is locked, the report parsed and compared with the scope, and only then
\* the status looked at.  A scan leaves its run running when its report is invalid.
OpenIngest(c) ==
  /\ pc[c] = "ingest" /\ Live(c)
  /\ LET st == status[Target(c)] IN
       IF call[c].payload \in Invalid
         THEN \/ /\ call[c].op = "import" /\ Goto(c, "failed")
                 /\ UNCHANGED <<lock, call, role, audit>>
              \/ call[c].op = "scan" /\ Leave(c)
         ELSE \/ /\ st \in {"running", "succeeded"}
                 /\ Goto(c, IF st = "running" THEN "check" ELSE "compare")
                 /\ UNCHANGED <<lock, call, role, audit>>
              \/ st \notin {"running", "succeeded"} /\ Leave(c)
  /\ UNCHANGED <<rows, disk, bound, ghost>>

Answered(c) == answers' = answers \cup {<<Target(c), call[c].payload>>}

\* Mutant of CompareStored: the recorded digests are not compared.
CompareNothing(c) ==
  /\ pc[c] = "compare" /\ Live(c)
  /\ Answered(c)
  /\ Leave(c)
  /\ UNCHANGED <<rows, disk, bound, scans>>

\* A run that succeeded answers again, if its records and files are the same bytes.
CompareStored(c) ==
  /\ pc[c] = "compare" /\ Live(c)
  /\ IF \A f \in FilesOf(Target(c)) :
          artifact[f] = Content(c, f) /\ Readable(f) /\ file[f] = Content(c, f)
       THEN Answered(c) ELSE UNCHANGED answers
  /\ Leave(c)
  /\ UNCHANGED <<rows, disk, bound, scans>>

\* Mutant of NextFile: the loop over the two files does not end.
NextFileForever(c) ==
  /\ role' = [role EXCEPT ![c] = IF @ = "stdout" THEN "stderr" ELSE "commit"]
  /\ Goto(c, "check")

NextFile(c) ==
  IF role[c] = "stdout"
    THEN role' = [role EXCEPT ![c] = "stderr"] /\ Goto(c, "check")
    ELSE UNCHANGED role /\ Goto(c, "commit")

\* publish: an existing file must hold the same bytes.
CheckFile(c) ==
  /\ pc[c] = "check"
  /\ dirs' = dirs \cup {Target(c)}
  /\ LET f == FileAt(c) IN
       \/ /\ file[f] = Absent
          /\ Goto(c, "link") /\ UNCHANGED <<lock, call, role, audit>>
       \/ /\ Readable(f) /\ file[f] = Content(c, f)
          /\ NextFile(c) /\ UNCHANGED <<lock, call, audit>>
       \/ file[f] # Absent /\ (~Readable(f) \/ file[f] # Content(c, f)) /\ Leave(c)
  /\ UNCHANGED <<rows, file, twin, bound, ghost>>

\* Mutant of LinkFile: the temporary file is renamed over whatever is there.
LinkFileOver(c) ==
  /\ pc[c] = "link"
  /\ file' = [file EXCEPT ![FileAt(c)] = Content(c, FileAt(c))]
  /\ twin' = twin \cup {FileAt(c)}
  /\ Goto(c, "unlink")
  /\ UNCHANGED <<rows, dirs, lock, call, role, audit, bound, ghost>>

\* The bytes are written to a temporary file that is then linked to its name.
LinkFile(c) ==
  /\ pc[c] = "link"
  /\ LET f == FileAt(c) IN
       \/ /\ file[f] = Absent
          /\ file' = [file EXCEPT ![f] = Content(c, f)]
          /\ twin' = twin \cup {f}
          /\ Goto(c, "unlink") /\ UNCHANGED <<lock, call, role, audit>>
       \/ file[f] # Absent /\ UNCHANGED <<file, twin>> /\ Leave(c)
  /\ UNCHANGED <<rows, dirs, bound, ghost>>

\* Mutant of UnlinkTemporary: each artifact row is committed with its file.
UnlinkAndCommit(c) ==
  /\ pc[c] = "unlink"
  /\ twin' = twin \ {FileAt(c)}
  /\ artifact' = [artifact EXCEPT ![FileAt(c)] = Content(c, FileAt(c))]
  /\ NextFile(c)
  /\ UNCHANGED <<status, kind, health, file, dirs, lock, call, audit, bound, ghost>>

UnlinkTemporary(c) ==
  /\ pc[c] = "unlink"
  /\ twin' = twin \ {FileAt(c)}
  /\ NextFile(c)
  /\ UNCHANGED <<rows, file, dirs, lock, call, audit, bound, ghost>>

\* Artifact rows and observations are inserted, the run finished and all of it
\* committed.  The acknowledgment may get lost.
CommitIngest(c) ==
  /\ pc[c] = "commit" /\ Live(c)
  /\ artifact' = [f \in Files |->
                    IF f \in FilesOf(Target(c)) THEN Content(c, f) ELSE artifact[f]]
  /\ health' = [f \in Files |-> IF f \in FilesOf(Target(c)) THEN "ready" ELSE health[f]]
  /\ status' = Finished(Target(c), "succeeded")
  /\ Answered(c) \/ UNCHANGED answers
  /\ Leave(c)
  /\ UNCHANGED <<kind, disk, bound, scans>>

-----------------------------------------------------------------------------
(* Assessments: what they do to the same rows and files.                   *)

\* reconcile_stale interrupts a run it planned without taking the run's lock.
InterruptPlanned(r) ==
  /\ r \in Planned /\ status[r] = "running" /\ ~RowLocked(r)
  /\ status' = Finished(r, "interrupted")
  /\ UNCHANGED <<kind, artifact, health, disk, local, bound, ghost>>

\* persist_recheck publishes a response ...
PublishResponse(x) ==
  /\ x \notin dirs
  /\ dirs' = dirs \cup {x}
  /\ file' = [file EXCEPT ![<<x, "response">>] = Plain]
  /\ UNCHANGED <<rows, twin, local, bound, ghost>>

\* ... and refers to it in a transaction of its own, if it still owns the stage.
CommitResponse(x) ==
  /\ x \in dirs /\ artifact[<<x, "response">>] = Absent
  /\ artifact' = [artifact EXCEPT ![<<x, "response">>] = Plain]
  /\ health' = [health EXCEPT ![<<x, "response">>] = "ready"]
  /\ UNCHANGED <<status, kind, disk, local, bound, ghost>>

-----------------------------------------------------------------------------
(* reconcile.                                                              *)

\* Mutant of BeginReconcile: every running run is interrupted at once, without its lock.
BeginReconcileAtOnce(c) ==
  /\ pc[c] = "idle"
  /\ status' = [r \in Runs |->
                  IF status[r] = "running" /\ ~RowLocked(r) THEN "interrupted" ELSE status[r]]
  /\ Goto(c, "list")
  /\ UNCHANGED <<kind, artifact, health, disk, lock, call, role, audit, bound, ghost>>

\* The identifiers of all runs are read first.
BeginReconcile(c) ==
  /\ pc[c] = "idle"
  /\ LET ids == {r \in Runs : status[r] # "none"} IN
       audit' = [audit EXCEPT ![c] =
         [todo |-> ids, known |-> ids, issues |-> {},
          bad |-> {f \in Files : Bad(f)},
          stray |-> {r \in dirs \cap Runs : status[r] = "none"}]]
  /\ call' = [call EXCEPT ![c] = [NoCall EXCEPT !.op = "reconcile"]]
  /\ Goto(c, "runs")
  /\ UNCHANGED <<rows, disk, lock, role, bound, ghost>>

\* Mutant of LockRun: a busy run is passed over in silence.
LockRunSilently(c) ==
  /\ pc[c] = "runs"
  /\ \E r \in audit[c].todo :
       \/ /\ lock[r] = NoCaller
          /\ call' = [call EXCEPT ![c].run = r]
          /\ lock' = [lock EXCEPT ![r] = c]
          /\ Goto(c, "run") /\ UNCHANGED audit
       \/ /\ lock[r] # NoCaller
          /\ audit' = [audit EXCEPT ![c].todo = @ \ {r}]
          /\ UNCHANGED <<call, lock, pc>>
  /\ UNCHANGED <<rows, disk, role, bound, ghost>>

LockRun(c) ==
  /\ pc[c] = "runs"
  /\ \E r \in audit[c].todo :
       \/ /\ lock[r] = NoCaller
          /\ call' = [call EXCEPT ![c].run = r]
          /\ lock' = [lock EXCEPT ![r] = c]
          /\ Goto(c, "run") /\ UNCHANGED audit
       \/ /\ lock[r] # NoCaller
          /\ audit' = [audit EXCEPT ![c].todo = @ \ {r}, ![c].issues = @ \cup {<<r, "busy">>}]
          /\ UNCHANGED <<call, lock, pc>>
  /\ UNCHANGED <<rows, disk, role, bound, ghost>>

\* The health of the artifact rows in `fs` is written anew.
Examined(fs) ==
  [f \in Files |-> IF f \in fs /\ artifact[f] # Absent THEN HealthOf(f) ELSE health[f]]
Unhealthy(fs) == {<<f, HealthOf(f)>> : f \in {g \in fs : Bad(g)}}
Unreferenced(fs) ==
  {<<f, "unreferenced">> : f \in {g \in fs : file[g] # Absent /\ artifact[g] = Absent}}

\* Mutant of ReconcileRun: imports are left to be retried.
ReconcileScanOnly(c) ==
  /\ pc[c] = "run" /\ Live(c)
  /\ LET r == Target(c) IN
       /\ status' = IF kind[r] = "scan" THEN Finished(r, "interrupted") ELSE status
       /\ health' = Examined(FilesOf(r))
       /\ audit' = [audit EXCEPT ![c].todo = @ \ {r},
            ![c].issues = @ \cup Unhealthy(FilesOf(r)) \cup Unreferenced(FilesOf(r))]
       /\ lock' = [lock EXCEPT ![r] = NoCaller]
  /\ call' = [call EXCEPT ![c].run = NoRun]
  /\ Goto(c, "runs")
  /\ UNCHANGED <<kind, artifact, disk, role, bound, ghost>>

\* One transaction under the run's lock, which is given back after it.
ReconcileRun(c) ==
  /\ pc[c] = "run" /\ Live(c)
  /\ LET r == Target(c)
         abandoned == IF status[r] = "running" THEN {<<r, "interrupted">>} ELSE {}
     IN /\ status' = Finished(r, "interrupted")
        /\ health' = Examined(FilesOf(r))
        /\ audit' = [audit EXCEPT ![c].todo = @ \ {r},
             ![c].issues = @ \cup abandoned \cup Unhealthy(FilesOf(r))
                             \cup Unreferenced(FilesOf(r))]
        /\ lock' = [lock EXCEPT ![r] = NoCaller]
  /\ call' = [call EXCEPT ![c].run = NoRun]
  /\ Goto(c, "runs")
  /\ UNCHANGED <<kind, artifact, disk, role, bound, ghost>>

\* The recheck artifacts, in a transaction without any lock.
ReconcileRechecks(c) ==
  /\ pc[c] = "runs" /\ audit[c].todo = {}
  /\ LET fs == Rechecks \X {"response"} IN
       /\ health' = Examined(fs)
       /\ audit' = [audit EXCEPT
            ![c].known = @ \cup {x \in Rechecks : artifact[<<x, "response">>] # Absent},
            ![c].issues = @ \cup Unhealthy(fs)]
  /\ Goto(c, "list")
  /\ UNCHANGED <<status, kind, artifact, disk, lock, call, role, bound, ghost>>

ListRoot(c) ==
  /\ pc[c] = "list"
  /\ audit' = [audit EXCEPT ![c].todo = dirs \ audit[c].known]
  /\ Goto(c, "paths")
  /\ UNCHANGED <<rows, disk, lock, call, role, bound, ghost>>

\* A directory that is still no run's is reported; rechecks are not looked up again.
ReportPath(c) ==
  /\ pc[c] = "paths"
  /\ \E d \in audit[c].todo :
       LET begun == d \in Runs /\ status[d] # "none" IN
         audit' = [audit EXCEPT ![c].todo = @ \ {d},
                     ![c].issues = @ \cup IF begun THEN {} ELSE {<<d, "unreferenced">>}]
  /\ UNCHANGED <<rows, disk, lock, pc, call, role, bound, ghost>>

EndReconcile(c) ==
  /\ pc[c] = "paths" /\ audit[c].todo = {}
  /\ Leave(c)
  /\ UNCHANGED <<rows, disk, bound, ghost>>

-----------------------------------------------------------------------------
(* Faults.                                                                 *)

\* A process whose session has died learns of it at its next statement.
DatabaseError(c) ==
  /\ pc[c] \in DbPcs /\ ~Live(c)
  /\ Leave(c)
  /\ UNCHANGED <<rows, disk, bound, ghost>>

\* The process dies or an exception leaves the call; what it published stays.
Crash(c) ==
  /\ pc[c] # "idle" /\ faults < MaxFaults
  /\ faults' = faults + 1
  /\ Leave(c)
  /\ UNCHANGED <<rows, disk, calls, losses, damages, ghost>>

LoseSession(c) ==
  /\ pc[c] \in RunPcs \cup {"run"} /\ Live(c) /\ losses < MaxLosses
  /\ losses' = losses + 1
  /\ lock' = [lock EXCEPT ![Target(c)] = NoCaller]
  /\ UNCHANGED <<rows, disk, pc, call, role, audit, calls, faults, damages, ghost>>

\* Somebody removes or alters a file an artifact row refers to.
Damage(f) ==
  /\ artifact[f] # Absent /\ file[f] \notin {Absent, Junk} /\ damages < MaxDamages
  /\ damages' = damages + 1
  /\ \E b \in {Absent, Junk} : file' = [file EXCEPT ![f] = b]
  /\ UNCHANGED <<rows, twin, dirs, local, calls, faults, losses, ghost>>

-----------------------------------------------------------------------------
Step(c) ==
  \/ BeginImport(c) \/ BeginScan(c) \/ MakeDirectory(c) \/ Scan(c) \/ EndRun(c)
  \/ OpenIngest(c) \/ CompareStored(c)
  \/ CheckFile(c) \/ LinkFile(c) \/ UnlinkTemporary(c) \/ CommitIngest(c)
  \/ LockRun(c) \/ ReconcileRun(c) \/ ReconcileRechecks(c)
  \/ ListRoot(c) \/ ReportPath(c) \/ EndReconcile(c)
  \/ DatabaseError(c)

Next ==
  \/ \E c \in Callers :
       \/ StartImport(c) \/ StartScan(c) \/ BeginReconcile(c)
       \/ Step(c) \/ Crash(c) \/ LoseSession(c)
  \/ \E r \in Runs : InterruptPlanned(r)
  \/ \E x \in Rechecks : PublishResponse(x) \/ CommitResponse(x)
  \/ \E f \in Files : Damage(f)

Spec == Init /\ [][Next]_vars

\* A started call makes progress, and history-reconcile is called again and again.
FairSpec ==
  /\ Spec
  /\ \A c \in Callers : WF_vars(Step(c))
  /\ WF_vars(\E c \in Callers : BeginReconcile(c))

-----------------------------------------------------------------------------
(* Safety.                                                                 *)

\* An open ingestion of a live session has the run to itself: neither a reconcile
\* nor reconcile_stale nor another caller ends the run between the SELECT ... FOR
\* UPDATE and the commit, so that the commit finds it running and without evidence.
IngestOwnsRun ==
  \A c \in Callers : pc[c] \in PublishPcs /\ Live(c) => status[Target(c)] = "running"

\* Nobody ends the run of a scan whose session is alive, except an assessment that
\* gave its own stage up.
LiveScanRuns ==
  \A c \in Callers :
    /\ call[c].op = "scan" /\ Target(c) \notin Planned /\ Live(c)
    /\ pc[c] \in {"mkdir", "scan", "ingest", "failed", "interrupted"}
    => status[Target(c)] = "running"

\* An identifier is scanned at most once, through crashes, lost sessions,
\* reconciliations and repeated calls.
ScannedOnce == \A r \in Runs : scans[r] <= 1

\* The files of a run that succeeded are those its rows describe, unless damaged from
\* outside: also when callers published under the same identifier at the same time,
\* one of them without its lock.
EvidencePublished ==
  damages = 0 =>
    \A f \in Files : artifact[f] # Absent => Readable(f) /\ file[f] = artifact[f]

\* The commit that makes a run succeed writes both of its artifact rows, and nothing else
\* writes any: no run that was not begun, goes on, failed or was interrupted has even one
\* of them, and none that succeeded lacks one.
SucceededHasEvidence ==
  \A r \in Runs : \A f \in FilesOf(r) : artifact[f] # Absent <=> status[r] = "succeeded"

\* Two calls that returned a report for one identifier returned the same one, and
\* it is the one on record: a retry is answered, other bytes never are.
AnswersAgree ==
  \A a \in answers : status[a[1]] = "succeeded" /\ artifact[<<a[1], "stdout">>] = a[2]

\* When reconcile returns, every artifact that was bad when it began is reported, or
\* its run is reported busy; so is every directory that never belonged to a run.
\* history-verify, the gate of a restore, relies on it.
AuditComplete ==
  \A c \in Callers :
    pc[c] = "paths" /\ audit[c].todo = {} =>
      /\ \A f \in audit[c].bad :
           \/ <<f[1], "busy">> \in audit[c].issues
           \/ \E h \in {"missing", "corrupt"} : <<f, h>> \in audit[c].issues
      /\ \A r \in audit[c].stray : status[r] = "none" => <<r, "unreferenced">> \in audit[c].issues

\* What reconcile puts in its report is no artefact of what goes on beside it, and holds until
\* it returns.  A file it calls unreferenced is evidence of no run, neither then nor by a retry
\* since: history-verify lets such files pass.  A directory it calls unreferenced was there,
\* without a run, when it began: it is none that a run has made since.  An artifact it calls
\* missing or corrupt was damaged from outside, and not just being published.
ReportIsTrue ==
  \A c \in Callers :
    /\ \A r \in Runs :
         /\ <<r, "unreferenced">> \in audit[c].issues => r \in audit[c].stray
         /\ \A f \in FilesOf(r) : <<f, "unreferenced">> \in audit[c].issues => artifact[f] = Absent
    /\ damages = 0 =>
         \A f \in Files, h \in {"missing", "corrupt"} : <<f, h>> \notin audit[c].issues

\* An import that stopped can be retried with the same bytes: whatever it left on
\* disk is accepted by publish.  It is not when it stopped between link and unlink.
RetryAccepted ==
  \A r \in Runs :
    /\ status[r] = "running" /\ kind[r] = "import"
    /\ \A c \in Callers : Target(c) # r
    => \A f \in FilesOf(r) : file[f] # Absent => Readable(f)

-----------------------------------------------------------------------------
(* Action properties.                                                      *)

NewlyReported(d) ==
  \E c \in Callers : <<d, "unreferenced">> \in audit'[c].issues \ audit[c].issues

\* No response there is a row of is reported as an unreferenced directory.  It may be: the
\* rechecks are read before the directories, and not looked up again.
ResponsesNotUnreferenced ==
  [][\A x \in Rechecks : NewlyReported(x) => artifact[<<x, "response">>] = Absent]_vars

-----------------------------------------------------------------------------
(* Refinement and liveness.                                                *)

Record == INSTANCE RunRecord WITH value <- [r \in Runs |-> artifact[<<r, "stdout">>]]

\* Every run is a RunRecord: it begins once, ends once, and its evidence is final.
ImplementsRunRecord == Record!Spec

\* A run that nobody works on any more does not stay running.
RunsEnd == \A r \in Runs : status[r] = "running" ~> status[r] # "running"
=============================================================================
