------------------------- MODULE ScanHistoryProofs -------------------------
(***************************************************************************)
(* Theorems about ScanHistory, for every set of runs, callers and payloads *)
(* and for any number of calls, faults, lost sessions and damaged files.   *)
(***************************************************************************)
EXTENDS ScanHistory, TLAPS

-----------------------------------------------------------------------------
(* Type correctness.                                                       *)

\* A file of a run is one of the files; the current one in particular.
LEMMA FilesOfRun ==
  ASSUME NEW r \in Runs
  PROVE  /\ FilesOf(r) \subseteq Files
         /\ \A ro \in Roles : <<r, ro>> \in FilesOf(r)
         /\ \A f \in FilesOf(r) : \E ro \in Roles : f = <<r, ro>>
         /\ \A f \in FilesOf(r) : f[1] = r
  BY RunAssumption DEF FilesOf, Files, Roles

\* What a caller publishes is bytes.
LEMMA ContentIsBytes ==
  ASSUME NEW c \in Callers, call[c].payload \in Payloads, NEW f
  PROVE  Content(c, f) \in Payloads \cup {Plain}
  BY DEF Content

\* What reconcile writes about artifacts is health.
LEMMA HealthIsHealth ==
  ASSUME NEW f
  PROVE  HealthOf(f) \in {"missing", "corrupt", "ready"}
  BY DEF HealthOf

\* Rewriting health keeps it well typed.
LEMMA ExaminedType ==
  ASSUME health \in [Files -> Health], NEW fs
  PROVE  Examined(fs) \in [Files -> Health]
  BY HealthIsHealth DEF Examined, Health

\* _finish keeps the status well typed.
LEMMA FinishedType ==
  ASSUME status \in [Runs -> RunStatus], NEW r \in Runs,
         NEW outcome \in {"succeeded", "failed", "interrupted"}
  PROVE  Finished(r, outcome) \in [Runs -> RunStatus]
  BY DEF Finished, RunStatus

\* The end of a call keeps the caller's variables well typed.
LEMMA LeaveType ==
  ASSUME CallerTypeOK, NEW c \in Callers, Leave(c)
  PROVE  CallerTypeOK'
  <1>1. "idle" \in Pcs /\ "idle" \notin RunPcs \cup {"run"} /\ "idle" \notin TxPcs \cup {"ingest"}
    BY DEF Pcs, RunPcs, TxPcs, PublishPcs
  <1>2. NoCall \in Calls /\ NoAudit \in Audits /\ "stdout" \in Roles
    BY DEF NoCall, NoAudit, Calls, Audits, Roles
  <1>3. lock' \in [Runs -> Callers \cup {NoCaller}]
    BY DEF CallerTypeOK, Leave
  <1>4. NoCall.op # "import"
    BY DEF NoCall
  <1> QED BY <1>1, <1>2, <1>3, <1>4 DEF CallerTypeOK, Leave, Goto

\* A step of one caller keeps them well typed if its own are.
LEMMA CallerStepType ==
  ASSUME CallerTypeOK, NEW c \in Callers, NEW label \in Pcs, pc' = [pc EXCEPT ![c] = label],
         lock' \in [Runs -> Callers \cup {NoCaller}],
         call' \in [Callers -> Calls], role' \in [Callers -> Roles],
         audit' \in [Callers -> Audits],
         \A d \in Callers \ {c} : call'[d] = call[d] /\ audit'[d] = audit[d],
         label \in RunPcs \cup {"run"} => call'[c].run \in Runs,
         label \in TxPcs \cup {"ingest"} => call'[c].payload \in Payloads,
         call'[c].op = "import" => call'[c].payload \in Payloads,
         label \in {"runs", "run"} => audit'[c].todo \subseteq Runs
  PROVE  CallerTypeOK'
  <1>1. pc' \in [Callers -> Pcs] /\ pc'[c] = label /\ \A d \in Callers \ {c} : pc'[d] = pc[d]
    BY DEF CallerTypeOK
  <1>2. ASSUME NEW d \in Callers
        PROVE  /\ pc'[d] \in RunPcs \cup {"run"} => call'[d].run \in Runs
               /\ pc'[d] \in TxPcs \cup {"ingest"} => call'[d].payload \in Payloads
               /\ call'[d].op = "import" => call'[d].payload \in Payloads
               /\ pc'[d] \in {"runs", "run"} => audit'[d].todo \subseteq Runs
    <2>1. CASE d = c
      BY <1>1, <2>1
    <2>2. CASE d # c
      BY <1>1, <2>2 DEF CallerTypeOK
    <2> QED BY <2>1, <2>2
  <1> QED BY <1>1, <1>2 DEF CallerTypeOK

\* So does one that moves on with the same call.
LEMMA GotoType ==
  ASSUME CallerTypeOK, NEW c \in Callers, NEW label \in Pcs \ {"runs", "run"}, Goto(c, label),
         label \in RunPcs => call[c].run \in Runs,
         label \in TxPcs \cup {"ingest"} => call[c].payload \in Payloads,
         role' \in [Callers -> Roles], UNCHANGED <<lock, call, audit>>
  PROVE  CallerTypeOK'
  <1>1. "run" \notin RunPcs
    BY DEF RunPcs, TxPcs, PublishPcs
  <1> QED BY <1>1, CallerStepType DEF CallerTypeOK, Goto

\* And one to the next file.
LEMMA NextFileType ==
  ASSUME CallerTypeOK, NEW c \in Callers, pc[c] \in PublishPcs, NextFile(c),
         UNCHANGED <<lock, call, audit>>
  PROVE  CallerTypeOK'
  <1>1. {"check", "commit"} \subseteq Pcs /\ pc[c] \in RunPcs /\ pc[c] \in TxPcs
    BY DEF Pcs, RunPcs, TxPcs, PublishPcs
  <1>2. call[c].run \in Runs /\ call[c].payload \in Payloads
    BY <1>1 DEF CallerTypeOK
  <1>3. role' \in [Callers -> Roles]
    BY DEF NextFile, Roles, CallerTypeOK
  <1> QED BY <1>1, <1>2, <1>3, GotoType DEF NextFile

\* Reports of reconcile are issues.
LEMMA IssueTypes ==
  ASSUME NEW r \in Runs
  PROVE  /\ Unhealthy(FilesOf(r)) \subseteq Issues
         /\ Unreferenced(FilesOf(r)) \subseteq Issues
         /\ Unhealthy(Rechecks \X {"response"}) \subseteq Issues
         /\ {<<r, "interrupted">>} \subseteq Issues
         /\ {<<r, "busy">>} \subseteq Issues
  <1>1. \A g : Bad(g) => HealthOf(g) \in {"missing", "corrupt"}
    BY HealthIsHealth DEF Bad
  <1>2. FilesOf(r) \subseteq Files /\ Rechecks \X {"response"} \subseteq Files
    BY DEF FilesOf, Files
  <1> QED BY <1>1, <1>2 DEF Issues, Unhealthy, Unreferenced

\* Every step keeps rows, files and counters well typed.
LEMMA StoreTypeStep ==
  ASSUME TypeOK, [Next]_vars
  PROVE  StoreTypeOK'
  <1> USE DEF TypeOK, StoreTypeOK
  <1>1. CASE UNCHANGED vars
    BY <1>1 DEF vars, rows, disk, bound, ghost
  <1>2. ASSUME NEW c \in Callers, StartImport(c) \/ StartScan(c) \/ BeginReconcile(c)
        PROVE  StoreTypeOK'
    BY <1>2 DEF StartImport, StartScan, Start, BeginReconcile, rows, disk, bound, ghost
  <1>3. ASSUME NEW c \in Callers, BeginImport(c) \/ BeginScan(c) PROVE StoreTypeOK'
    <2>1. Target(c) \in Runs
      BY <1>3 DEF BeginImport, BeginScan, RunPcs, CallerTypeOK, Target
    <2> QED BY <1>3, <2>1 DEF BeginImport, BeginScan, InsertRow, RunStatus, rows, disk, bound, ghost
  <1>4. ASSUME NEW c \in Callers, MakeDirectory(c) PROVE StoreTypeOK'
    <2>1. Target(c) \in Runs
      BY <1>4 DEF MakeDirectory, RunPcs, CallerTypeOK, Target
    <2> QED BY <1>4, <2>1 DEF MakeDirectory, rows, bound
  <1>5. ASSUME NEW c \in Callers, Scan(c) \/ OpenIngest(c) \/ DatabaseError(c) \/ EndReconcile(c)
        PROVE  StoreTypeOK'
    BY <1>5 DEF Scan, OpenIngest, DatabaseError, EndReconcile, rows, disk, bound, ghost
  <1>6. ASSUME NEW c \in Callers, EndRun(c) PROVE StoreTypeOK'
    <2>1. Target(c) \in Runs
      BY <1>6 DEF EndRun, RunPcs, CallerTypeOK, Target
    <2>2. status' \in [Runs -> RunStatus]
      BY <1>6, <2>1, FinishedType DEF EndRun
    <2> QED BY <1>6, <2>2 DEF EndRun, disk, bound, ghost
  <1>7. ASSUME NEW c \in Callers, CompareStored(c) PROVE StoreTypeOK'
    <2>1. Target(c) \in Runs /\ call[c].payload \in Payloads
      BY <1>7 DEF CompareStored, RunPcs, TxPcs, CallerTypeOK, Target
    <2> QED BY <1>7, <2>1 DEF CompareStored, Answered, rows, disk, bound
  <1>8. ASSUME NEW c \in Callers, CheckFile(c) \/ LinkFile(c) \/ UnlinkTemporary(c)
        PROVE  StoreTypeOK'
    <2>1. Target(c) \in Runs /\ call[c].payload \in Payloads /\ role[c] \in Roles
      BY <1>8 DEF CheckFile, LinkFile, UnlinkTemporary, RunPcs, TxPcs, PublishPcs, CallerTypeOK,
                  Target
    <2>2. FileAt(c) \in Files /\ Content(c, FileAt(c)) \in Bytes
      BY <2>1, FilesOfRun, ContentIsBytes DEF FileAt, Bytes
    <2> QED BY <1>8, <2>1, <2>2
            DEF CheckFile, LinkFile, UnlinkTemporary, rows, disk, bound, ghost
  <1>9. ASSUME NEW c \in Callers, CommitIngest(c) PROVE StoreTypeOK'
    <2>1. Target(c) \in Runs /\ call[c].payload \in Payloads
      BY <1>9 DEF CommitIngest, RunPcs, TxPcs, PublishPcs, CallerTypeOK, Target
    <2>2. status' \in [Runs -> RunStatus]
      BY <1>9, <2>1, FinishedType DEF CommitIngest
    <2>3. \A f : Content(c, f) \in Bytes
      BY <2>1, ContentIsBytes DEF Bytes
    <2>4. artifact' \in [Files -> Bytes] /\ health' \in [Files -> Health]
      BY <1>9, <2>3 DEF CommitIngest, Health
    <2> QED BY <1>9, <2>1, <2>2, <2>4 DEF CommitIngest, Answered, disk, bound
  <1>10. ASSUME NEW c \in Callers, LockRun(c) \/ ListRoot(c) \/ ReportPath(c) PROVE StoreTypeOK'
    BY <1>10 DEF LockRun, ListRoot, ReportPath, rows, disk, bound, ghost
  <1>11. ASSUME NEW c \in Callers, ReconcileRun(c) PROVE StoreTypeOK'
    <2>1. Target(c) \in Runs
      BY <1>11 DEF ReconcileRun, CallerTypeOK, Target
    <2>2. status' \in [Runs -> RunStatus] /\ health' \in [Files -> Health]
      BY <1>11, <2>1, FinishedType, ExaminedType DEF ReconcileRun
    <2> QED BY <1>11, <2>2 DEF ReconcileRun, disk, bound, ghost
  <1>12. ASSUME NEW c \in Callers, ReconcileRechecks(c) PROVE StoreTypeOK'
    <2>1. health' \in [Files -> Health]
      BY <1>12, ExaminedType DEF ReconcileRechecks
    <2> QED BY <1>12, <2>1 DEF ReconcileRechecks, disk, bound, ghost
  <1>13. ASSUME NEW c \in Callers, Crash(c) \/ LoseSession(c) PROVE StoreTypeOK'
    BY <1>13 DEF Crash, LoseSession, rows, disk, ghost
  <1>14. ASSUME NEW r \in Runs, InterruptPlanned(r) PROVE StoreTypeOK'
    <2>1. status' \in [Runs -> RunStatus]
      BY <1>14, FinishedType DEF InterruptPlanned
    <2> QED BY <1>14, <2>1 DEF InterruptPlanned, disk, bound, ghost
  <1>15. ASSUME NEW x \in Rechecks, PublishResponse(x) \/ CommitResponse(x) PROVE StoreTypeOK'
    <2>1. <<x, "response">> \in Files
      BY DEF Files
    <2> QED BY <1>15, <2>1
            DEF PublishResponse, CommitResponse, Bytes, Health, rows, disk, bound, ghost
  <1>16. ASSUME NEW f \in Files, Damage(f) PROVE StoreTypeOK'
    BY <1>16 DEF Damage, Bytes, rows, ghost
  <1> QED
    BY <1>1, <1>2, <1>3, <1>4, <1>5, <1>6, <1>7, <1>8, <1>9, <1>10, <1>11, <1>12, <1>13, <1>14,
       <1>15, <1>16
       DEF Next, Step

-----------------------------------------------------------------------------
\* Every step keeps locks and callers well typed.
LEMMA CallerTypeStep ==
  ASSUME TypeOK, [Next]_vars
  PROVE  CallerTypeOK'
  <1> USE DEF TypeOK
  <1>p. /\ RunPcs \cup {"idle", "runs", "run", "list", "paths"} = Pcs
        /\ RunPcs = {"check", "link", "unlink", "commit", "compare", "begin", "mkdir", "scan",
                     "ingest", "failed", "interrupted"}
        /\ TxPcs = {"check", "link", "unlink", "commit", "compare"}
    BY DEF Pcs, RunPcs, TxPcs, PublishPcs
  <1>1. CASE UNCHANGED vars
    BY <1>1 DEF vars, local, CallerTypeOK
  <1>2. ASSUME NEW c \in Callers, StartImport(c) \/ StartScan(c) PROVE CallerTypeOK'
    <2>1. PICK r \in Runs, op \in {"import", "scan"}, p \in Payloads \cup {Absent} :
            Start(c, op, r, p) /\ (op = "import" => p \in Payloads)
      BY <1>2 DEF StartImport, StartScan
    <2> DEFINE new == [op |-> op, run |-> r, payload |-> p]
    <2>2. new \in Calls /\ call' = [call EXCEPT ![c] = new]
      BY <2>1 DEF Start, Calls
    <2>3. lock' \in [Runs -> Callers \cup {NoCaller}] /\ UNCHANGED <<role, audit>>
      BY <2>1 DEF Start, CallerTypeOK
    <2>4. /\ call' \in [Callers -> Calls] /\ call'[c] = new
          /\ \A d \in Callers \ {c} : call'[d] = call[d]
      BY <2>2 DEF CallerTypeOK
    <2> HIDE DEF new
    <2>5. new.run \in Runs /\ new.op = op /\ new.payload = p
      BY DEF new
    <2>6. pc' = [pc EXCEPT ![c] = "begin"]
      BY <2>1 DEF Start, Goto
    <2> QED BY <2>1, <2>3, <2>4, <2>5, <2>6, <1>p, CallerStepType DEF CallerTypeOK
  <1>3. ASSUME NEW c \in Callers, BeginReconcile(c) PROVE CallerTypeOK'
    <2>1. /\ audit' \in [Callers -> Audits] /\ audit'[c].todo \subseteq Runs
          /\ \A d \in Callers \ {c} : audit'[d] = audit[d]
      BY <1>3 DEF BeginReconcile, CallerTypeOK, Audits
    <2>2. /\ call' \in [Callers -> Calls] /\ call'[c].op # "import"
          /\ \A d \in Callers \ {c} : call'[d] = call[d]
      BY <1>3 DEF BeginReconcile, CallerTypeOK, Calls, NoCall
    <2>3. pc' = [pc EXCEPT ![c] = "runs"] /\ UNCHANGED <<lock, role>>
      BY <1>3 DEF BeginReconcile, Goto
    <2> QED BY <2>1, <2>2, <2>3, <1>p, CallerStepType DEF CallerTypeOK
  <1>4. ASSUME NEW c \in Callers, BeginImport(c) PROVE CallerTypeOK'
    <2>1. CASE Leave(c)
      BY <2>1, LeaveType
    <2>2. CASE Goto(c, "ingest") /\ UNCHANGED <<lock, call, role, audit>>
      <3>1. call[c].run \in Runs
        BY <1>4, <1>p DEF BeginImport, CallerTypeOK
      <3>2. call[c].payload \in Payloads
        BY <1>4 DEF BeginImport, CallerTypeOK
      <3> QED BY <2>2, <3>1, <3>2, <1>p, GotoType DEF CallerTypeOK
    <2> QED BY <1>4, <2>1, <2>2 DEF BeginImport
  <1>5. ASSUME NEW c \in Callers, BeginScan(c) \/ MakeDirectory(c) PROVE CallerTypeOK'
    <2>1. CASE Leave(c)
      BY <2>1, LeaveType
    <2>2. ASSUME NEW label \in {"mkdir", "scan"},
                 Goto(c, label), UNCHANGED <<lock, call, role, audit>>
          PROVE  CallerTypeOK'
      <3>1. call[c].run \in Runs
        BY <1>5, <1>p DEF BeginScan, MakeDirectory, CallerTypeOK
      <3> QED BY <2>2, <3>1, <1>p, GotoType DEF CallerTypeOK
    <2> QED BY <1>5, <2>1, <2>2 DEF BeginScan, MakeDirectory
  <1>6. ASSUME NEW c \in Callers, Scan(c) PROVE CallerTypeOK'
    <2>1. call[c].run \in Runs /\ call[c] \in Calls
      BY <1>6, <1>p DEF Scan, CallerTypeOK
    <2>2. CASE Goto(c, "failed") \/ Goto(c, "interrupted")
      <3>1. UNCHANGED <<lock, call, role, audit>>
        BY <1>6, <2>2 DEF Scan, Goto, local, CallerTypeOK
      <3> QED BY <1>6, <2>1, <2>2, <3>1, <1>p, GotoType DEF Scan, CallerTypeOK
    <2>3. ASSUME Goto(c, "ingest"), NEW p \in Payloads, call' = [call EXCEPT ![c].payload = p]
          PROVE  CallerTypeOK'
      <3>1. call' \in [Callers -> Calls] /\ call'[c].run \in Runs /\ call'[c].payload \in Payloads
        BY <2>1, <2>3 DEF CallerTypeOK, Calls
      <3>2. \A d \in Callers \ {c} : call'[d] = call[d]
        BY <2>3 DEF CallerTypeOK
      <3> QED BY <1>6, <2>3, <3>1, <3>2, <1>p DEF Scan, CallerTypeOK, Goto
    <2> QED BY <1>6, <2>2, <2>3 DEF Scan
  <1>7. ASSUME NEW c \in Callers, EndRun(c) \/ CompareStored(c) \/ CommitIngest(c)
                                  \/ DatabaseError(c) \/ EndReconcile(c) \/ Crash(c)
        PROVE  CallerTypeOK'
    BY <1>7, LeaveType DEF EndRun, CompareStored, CommitIngest, DatabaseError, EndReconcile, Crash
  <1>8. ASSUME NEW c \in Callers, OpenIngest(c) PROVE CallerTypeOK'
    <2>1. CASE Leave(c)
      BY <2>1, LeaveType
    <2>2. ASSUME NEW label \in {"failed", "check", "compare"},
                 Goto(c, label), UNCHANGED <<lock, call, role, audit>>
          PROVE  CallerTypeOK'
      <3>1. call[c].run \in Runs /\ call[c].payload \in Payloads
        BY <1>8, <1>p DEF OpenIngest, CallerTypeOK
      <3> QED BY <2>2, <3>1, <1>p, GotoType DEF CallerTypeOK
    <2> QED BY <1>8, <2>1, <2>2 DEF OpenIngest
  <1>9. ASSUME NEW c \in Callers, CheckFile(c) \/ LinkFile(c) \/ UnlinkTemporary(c)
        PROVE  CallerTypeOK'
    <2>1. CASE Leave(c)
      BY <2>1, LeaveType
    <2>2. CASE NextFile(c) /\ UNCHANGED <<lock, call, audit>>
      BY <1>9, <2>2, NextFileType DEF CheckFile, LinkFile, UnlinkTemporary, PublishPcs
    <2>3. ASSUME NEW label \in {"link", "unlink"},
                 Goto(c, label), UNCHANGED <<lock, call, role, audit>>
          PROVE  CallerTypeOK'
      <3>1. call[c].run \in Runs /\ call[c].payload \in Payloads
        BY <1>9, <1>p DEF CheckFile, LinkFile, UnlinkTemporary, CallerTypeOK
      <3> QED BY <2>3, <3>1, <1>p, GotoType DEF CallerTypeOK
    <2> QED BY <1>9, <2>1, <2>2, <2>3 DEF CheckFile, LinkFile, UnlinkTemporary
  <1>10. ASSUME NEW c \in Callers, LockRun(c) PROVE CallerTypeOK'
    <2>1. PICK r \in audit[c].todo :
            \/ /\ call' = [call EXCEPT ![c].run = r] /\ lock' = [lock EXCEPT ![r] = c]
               /\ Goto(c, "run") /\ UNCHANGED audit
            \/ /\ audit' = [audit EXCEPT ![c].todo = @ \ {r},
                                         ![c].issues = @ \cup {<<r, "busy">>}]
               /\ UNCHANGED <<call, lock, pc>>
      BY <1>10 DEF LockRun
    <2>q. UNCHANGED role
      BY <1>10 DEF LockRun
    <2>2. audit[c] \in Audits /\ call[c] \in Calls /\ r \in Runs /\ audit[c].todo \subseteq Runs
      BY <1>10, <2>1 DEF LockRun, CallerTypeOK
    <2>3. CASE /\ call' = [call EXCEPT ![c].run = r] /\ lock' = [lock EXCEPT ![r] = c]
               /\ Goto(c, "run") /\ UNCHANGED audit
      <3>1. /\ call' \in [Callers -> Calls] /\ call'[c].run = r
            /\ call'[c].op = call[c].op /\ call'[c].payload = call[c].payload
            /\ \A d \in Callers \ {c} : call'[d] = call[d]
        BY <2>2, <2>3 DEF CallerTypeOK, Calls
      <3>2. lock' \in [Runs -> Callers \cup {NoCaller}]
        BY <2>2, <2>3 DEF CallerTypeOK
      <3> QED BY <2>2, <2>3, <2>q, <3>1, <3>2, <1>p, CallerStepType DEF CallerTypeOK, Goto
    <2>4. CASE /\ audit' = [audit EXCEPT ![c].todo = @ \ {r},
                                         ![c].issues = @ \cup {<<r, "busy">>}]
               /\ UNCHANGED <<call, lock, pc>>
      <3>1. /\ audit' \in [Callers -> Audits] /\ audit'[c].todo \subseteq Runs
            /\ \A d \in Callers \ {c} : audit'[d] = audit[d]
        BY <2>2, <2>4, IssueTypes DEF CallerTypeOK, Audits
      <3>2. pc' = [pc EXCEPT ![c] = pc[c]] /\ pc[c] = "runs"
        BY <1>10, <2>4 DEF LockRun, CallerTypeOK
      <3> QED BY <2>2, <2>4, <2>q, <3>1, <3>2, <1>p, CallerStepType DEF CallerTypeOK
    <2> QED BY <2>1, <2>3, <2>4
  <1>11. ASSUME NEW c \in Callers, ReconcileRun(c) PROVE CallerTypeOK'
    <2>1. /\ Target(c) \in Runs /\ audit[c] \in Audits /\ call[c] \in Calls
          /\ audit[c].todo \subseteq Runs
      BY <1>11 DEF ReconcileRun, CallerTypeOK, Target
    <2>2. PICK new \in SUBSET Issues :
            audit' = [audit EXCEPT ![c].todo = @ \ {Target(c)}, ![c].issues = @ \cup new]
      <3> DEFINE r == Target(c)
                 abandoned == IF status[r] = "running" THEN {<<r, "interrupted">>} ELSE {}
      <3>1. abandoned \cup Unhealthy(FilesOf(r)) \cup Unreferenced(FilesOf(r)) \in SUBSET Issues
        BY <2>1, IssueTypes
      <3>2. audit' = [audit EXCEPT ![c].todo = @ \ {r}, ![c].issues =
              @ \cup (abandoned \cup Unhealthy(FilesOf(r)) \cup Unreferenced(FilesOf(r)))]
        BY <1>11 DEF ReconcileRun
      <3> QED BY <3>1, <3>2
    <2>3. /\ audit' \in [Callers -> Audits] /\ audit'[c].todo \subseteq Runs
          /\ \A d \in Callers \ {c} : audit'[d] = audit[d]
      BY <2>1, <2>2 DEF CallerTypeOK, Audits
    <2>4. /\ call' \in [Callers -> Calls]
          /\ call'[c].op = call[c].op /\ call'[c].payload = call[c].payload
          /\ \A d \in Callers \ {c} : call'[d] = call[d]
      BY <1>11, <2>1 DEF ReconcileRun, CallerTypeOK, Calls
    <2>5. lock' \in [Runs -> Callers \cup {NoCaller}] /\ UNCHANGED role
      BY <1>11, <2>1 DEF ReconcileRun, CallerTypeOK
    <2> QED BY <1>11, <2>3, <2>4, <2>5, <1>p, CallerStepType
            DEF ReconcileRun, CallerTypeOK, Goto
  <1>12. ASSUME NEW c \in Callers, ReconcileRechecks(c) PROVE CallerTypeOK'
    <2>1. Unhealthy(Rechecks \X {"response"}) \subseteq Issues
      BY <1>12, HealthIsHealth DEF Unhealthy, Issues, Files, Bad
    <2>2. audit[c] \in Audits
      BY DEF CallerTypeOK
    <2>3. /\ audit' \in [Callers -> Audits] /\ \A d \in Callers \ {c} : audit'[d] = audit[d]
      BY <1>12, <2>1, <2>2 DEF ReconcileRechecks, CallerTypeOK, Audits
    <2> QED BY <1>12, <2>3, <1>p, CallerStepType DEF ReconcileRechecks, CallerTypeOK, Goto
  <1>13. ASSUME NEW c \in Callers, ListRoot(c) \/ ReportPath(c) PROVE CallerTypeOK'
    <2>1. audit[c] \in Audits /\ dirs \subseteq Runs \cup Rechecks
      BY DEF CallerTypeOK, StoreTypeOK
    <2>2. CASE ListRoot(c)
      <3>1. /\ audit' \in [Callers -> Audits] /\ \A d \in Callers \ {c} : audit'[d] = audit[d]
        BY <2>1, <2>2 DEF ListRoot, CallerTypeOK, Audits
      <3>2. pc' = [pc EXCEPT ![c] = "paths"] /\ UNCHANGED <<lock, call, role>>
        BY <2>2 DEF ListRoot, Goto
      <3> QED BY <3>1, <3>2, <1>p, CallerStepType DEF CallerTypeOK
    <2>3. CASE ReportPath(c)
      <3>1. PICK d \in audit[c].todo, new \in SUBSET Issues :
              audit' = [audit EXCEPT ![c].todo = @ \ {d}, ![c].issues = @ \cup new]
        <4>1. \A d \in audit[c].todo : {<<d, "unreferenced">>} \in SUBSET Issues
          BY <2>1 DEF Audits, Issues
        <4> QED BY <2>3, <4>1 DEF ReportPath
      <3>2. /\ audit' \in [Callers -> Audits] /\ \A e \in Callers \ {c} : audit'[e] = audit[e]
        BY <2>1, <3>1 DEF CallerTypeOK, Audits
      <3>3. pc' = [pc EXCEPT ![c] = "paths"] /\ UNCHANGED <<lock, call, role>>
        BY <2>3 DEF ReportPath, CallerTypeOK
      <3> QED BY <3>2, <3>3, <1>p, CallerStepType DEF CallerTypeOK
    <2> QED BY <1>13, <2>2, <2>3
  <1>14. ASSUME NEW c \in Callers, LoseSession(c) PROVE CallerTypeOK'
    <2>1. lock' \in [Runs -> Callers \cup {NoCaller}]
      BY <1>14 DEF LoseSession, CallerTypeOK
    <2> QED BY <1>14, <2>1 DEF LoseSession, CallerTypeOK
  <1>15. ASSUME \/ \E r \in Runs : InterruptPlanned(r)
                \/ \E x \in Rechecks : PublishResponse(x) \/ CommitResponse(x)
                \/ \E f \in Files : Damage(f)
         PROVE  CallerTypeOK'
    BY <1>15 DEF InterruptPlanned, PublishResponse, CommitResponse, Damage, local, CallerTypeOK
  <1> QED
    BY <1>1, <1>2, <1>3, <1>4, <1>5, <1>6, <1>7, <1>8, <1>9, <1>10, <1>11, <1>12, <1>13, <1>14,
       <1>15
       DEF Next, Step

-----------------------------------------------------------------------------
\* Every behaviour is well typed, whatever callers and faults do.
THEOREM HistoryTypeCorrect == Spec => []TypeOK
  <1>1. Init => TypeOK
    <2>1. NoCall \in Calls /\ NoAudit \in Audits
      BY DEF NoCall, NoAudit, Calls, Audits
    <2>2. NoCall.op # "import" /\ "idle" \in Pcs
          /\ "idle" \notin RunPcs \cup {"run"} /\ "idle" \notin TxPcs \cup {"ingest"}
      BY DEF NoCall, Pcs, RunPcs, TxPcs, PublishPcs
    <2> QED BY <2>1, <2>2, RunAssumption
            DEF Init, TypeOK, StoreTypeOK, CallerTypeOK, RunStatus, Health, Bytes, Roles
  <1>2. TypeOK /\ [Next]_vars => TypeOK'
    BY StoreTypeStep, CallerTypeStep DEF TypeOK
  <1> QED BY <1>1, <1>2, PTL DEF Spec
=============================================================================
