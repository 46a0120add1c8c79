------------------------- MODULE ScanHistoryAudit --------------------------
(***************************************************************************)
(* Theorems about reconcile of ScanHistory: what its report leaves out,    *)
(* and what it must not contain, while imports, scans, rechecks and        *)
(* assessments go on beside it.                                            *)
(***************************************************************************)
EXTENDS ScanHistorySafety

-----------------------------------------------------------------------------
(* A caller's audit is its own.                                            *)

\* The steps of a reconcile.
AuditStep(c) ==
  \/ BeginReconcile(c) \/ LockRun(c) \/ ReconcileRun(c) \/ ReconcileRechecks(c)
  \/ ListRoot(c) \/ ReportPath(c)

\* Only these write the variables of a caller's audit, except that a call that ends
\* drops them.
LEMMA WhoAudits ==
  ASSUME TypeOK, [Next]_vars, NEW c \in Callers
  PROVE  \/ audit'[c] = audit[c]
         \/ audit'[c] = NoAudit /\ pc'[c] = "idle"
         \/ AuditStep(c)
  <1> USE DEF TypeOK
  <1> DEFINE Good == \/ audit'[c] = audit[c]
                     \/ audit'[c] = NoAudit /\ pc'[c] = "idle"
                     \/ AuditStep(c)
  <1>1. CASE UNCHANGED vars
    BY <1>1 DEF vars, local
  <1>2. ASSUME NEW d \in Callers, StartImport(d) \/ StartScan(d) PROVE Good
    BY <1>2 DEF StartImport, StartScan, Start
  <1>3. ASSUME NEW d \in Callers, Leave(d) PROVE Good
    BY <1>3 DEF Leave, Goto, CallerTypeOK
  <1>4. ASSUME NEW d \in Callers,
               BeginImport(d) \/ BeginScan(d) \/ MakeDirectory(d) \/ Scan(d) \/ OpenIngest(d)
        PROVE  Good
    BY <1>4, <1>3 DEF BeginImport, BeginScan, MakeDirectory, Scan, OpenIngest
  <1>5. ASSUME NEW d \in Callers, CheckFile(d) \/ LinkFile(d) \/ UnlinkTemporary(d)
        PROVE  Good
    BY <1>5, <1>3 DEF CheckFile, LinkFile, UnlinkTemporary
  <1>6. ASSUME NEW d \in Callers,
               \/ EndRun(d) \/ CompareStored(d) \/ CommitIngest(d)
               \/ EndReconcile(d) \/ DatabaseError(d) \/ Crash(d)
        PROVE  Good
    BY <1>6, <1>3 DEF EndRun, CompareStored, CommitIngest, EndReconcile, DatabaseError, Crash
  <1>7. ASSUME NEW d \in Callers, AuditStep(d), d # c PROVE audit'[c] = audit[c]
    BY <1>7 DEF AuditStep, BeginReconcile, LockRun, ReconcileRun, ReconcileRechecks, ListRoot,
                ReportPath, CallerTypeOK
  <1>8. ASSUME NEW d \in Callers, LoseSession(d) PROVE Good
    BY <1>8 DEF LoseSession
  <1>9. ASSUME \/ \E r \in Runs : InterruptPlanned(r)
               \/ \E x \in Rechecks : PublishResponse(x) \/ CommitResponse(x)
               \/ \E f \in Files : Damage(f)
        PROVE  Good
    BY <1>9 DEF InterruptPlanned, PublishResponse, CommitResponse, Damage, local
  <1> QED
    BY <1>1, <1>2, <1>4, <1>5, <1>6, <1>7, <1>8, <1>9 DEF Next, Step, AuditStep

\* A caller is in an audit only if it was before, or begins one.
LEMMA WhoReconciles ==
  ASSUME TypeOK, [Next]_vars, NEW c \in Callers, ~AuditStep(c),
         pc'[c] \in {"runs", "run", "list", "paths"}
  PROVE  pc'[c] = pc[c] /\ audit'[c] = audit[c]
  <1> USE DEF TypeOK
  <1>1. audit'[c] = audit[c]
    BY WhoAudits
  <1>2. CASE ~OwnStep(c)
    BY <1>1, <1>2, Frame
  <1>3. ASSUME Leave(c) PROVE FALSE
    BY <1>3 DEF Leave, Goto, CallerTypeOK
  <1>4. CASE StartImport(c) \/ StartScan(c)
    BY <1>4 DEF StartImport, StartScan, Start, Goto, CallerTypeOK
  <1>5. CASE BeginImport(c) \/ BeginScan(c) \/ MakeDirectory(c) \/ Scan(c) \/ OpenIngest(c)
    BY <1>3, <1>5 DEF BeginImport, BeginScan, MakeDirectory, Scan, OpenIngest, Goto, CallerTypeOK
  <1>6. CASE CheckFile(c) \/ LinkFile(c) \/ UnlinkTemporary(c)
    BY <1>3, <1>6 DEF CheckFile, LinkFile, UnlinkTemporary, NextFile, Goto, CallerTypeOK
  <1>7. CASE \/ EndRun(c) \/ CompareStored(c) \/ CommitIngest(c)
             \/ EndReconcile(c) \/ DatabaseError(c) \/ Crash(c)
    BY <1>3, <1>7 DEF EndRun, CompareStored, CommitIngest, EndReconcile, DatabaseError, Crash
  <1> QED BY <1>1, <1>2, <1>4, <1>5, <1>6, <1>7 DEF OwnStep, Step, AuditStep

-----------------------------------------------------------------------------
(* What a reconcile has reported.                                          *)

\* The kind of a run is written with the row that begins it.
LEMMA WhoSetsKind ==
  ASSUME TypeOK, [Next]_vars, NEW r \in Runs, kind'[r] # kind[r]
  PROVE  status'[r] # "none"
  <1> USE DEF TypeOK
  <1>1. CASE UNCHANGED vars
    BY <1>1 DEF vars, rows
  <1>2. ASSUME NEW c \in Callers, BeginImport(c) \/ BeginScan(c) PROVE status'[r] # "none"
    BY <1>2 DEF BeginImport, BeginScan, InsertRow, rows, StoreTypeOK
  <1>3. ASSUME NEW c \in Callers,
               \/ StartImport(c) \/ StartScan(c) \/ BeginReconcile(c)
               \/ MakeDirectory(c) \/ Scan(c) \/ EndRun(c) \/ OpenIngest(c) \/ CompareStored(c)
               \/ CheckFile(c) \/ LinkFile(c) \/ UnlinkTemporary(c) \/ CommitIngest(c)
        PROVE  FALSE
    BY <1>3 DEF StartImport, StartScan, Start, BeginReconcile, MakeDirectory, Scan, EndRun,
                OpenIngest, CompareStored, CheckFile, LinkFile, UnlinkTemporary, CommitIngest, rows
  <1>4. ASSUME NEW c \in Callers,
               \/ LockRun(c) \/ ReconcileRun(c) \/ ReconcileRechecks(c) \/ ListRoot(c)
               \/ ReportPath(c) \/ EndReconcile(c) \/ DatabaseError(c) \/ Crash(c)
               \/ LoseSession(c)
        PROVE  FALSE
    BY <1>4 DEF LockRun, ReconcileRun, ReconcileRechecks, ListRoot, ReportPath, EndReconcile,
                DatabaseError, Crash, LoseSession, rows
  <1>5. ASSUME \/ \E q \in Runs : InterruptPlanned(q)
               \/ \E x \in Rechecks : PublishResponse(x) \/ CommitResponse(x)
               \/ \E f \in Files : Damage(f)
        PROVE  FALSE
    BY <1>5 DEF InterruptPlanned, PublishResponse, CommitResponse, Damage, rows
  <1> QED BY <1>1, <1>2, <1>3, <1>4, <1>5 DEF Next, Step

\* Whoever works on a run, or is to reconcile it, works on one that has begun.
Begun ==
  /\ \A r \in Runs : kind[r] # "none" => status[r] # "none"
  /\ \A c \in Callers :
       /\ pc[c] \in (RunPcs \ {"begin"}) \cup {"run"} => status[Target(c)] # "none"
       /\ pc[c] \in {"runs", "run"} => \A r \in audit[c].todo : status[r] # "none"

\* The row comes first, whoever goes on with the run afterwards.
LEMMA BegunStep ==
  ASSUME TypeOK, Begun, [Next]_vars
  PROVE  Begun'
  <1> USE DEF TypeOK
  <1> DEFINE Working(c) == pc[c] \in (RunPcs \ {"begin"}) \cup {"run"} => status[Target(c)] # "none"
             Listed(c) == pc[c] \in {"runs", "run"} => \A r \in audit[c].todo : status[r] # "none"
  <1>p. /\ RunPcs = {"check", "link", "unlink", "commit", "compare", "begin", "mkdir", "scan",
                     "ingest", "failed", "interrupted"}
        /\ \A r \in Runs : status[r] # "none" => status'[r] # "none"
    BY EndedStays DEF RunPcs, TxPcs, PublishPcs
  <1>1. ASSUME NEW r \in Runs, kind'[r] # "none" PROVE status'[r] # "none"
    BY <1>1, <1>p, WhoSetsKind DEF Begun
  <1>2. SUFFICES ASSUME NEW c \in Callers PROVE Working(c)' /\ Listed(c)'
    BY <1>1 DEF Begun
  <1>3. /\ Working(c) /\ Listed(c)
        /\ pc[c] \in RunPcs \cup {"run"} => Target(c) \in Runs
        /\ pc[c] \in {"runs", "run"} => audit[c].todo \subseteq Runs
    BY DEF Begun, CallerTypeOK, Target
  <1>4. CASE pc'[c] = "idle"
    BY <1>4, <1>p
  <1>5. CASE ~OwnStep(c)
    <2>1. pc'[c] = pc[c] /\ call'[c] = call[c]
      BY <1>5, Frame
    <2>2. CASE pc[c] \in {"runs", "run"}
      <3>1. audit'[c] = audit[c]
        BY <1>5, <2>1, <2>2, WhoReconciles DEF AuditStep, OwnStep, Step
      <3> QED BY <1>3, <1>p, <2>1, <3>1 DEF Target
    <2>3. CASE pc[c] \notin {"runs", "run"}
      BY <1>3, <1>p, <2>1, <2>3 DEF Target
    <2> QED BY <2>2, <2>3
  <1>6. ASSUME Leave(c) PROVE pc'[c] = "idle"
    BY <1>6 DEF Leave, Goto, CallerTypeOK
  <1>7. CASE StartImport(c) \/ StartScan(c)
    <2>1. pc'[c] = "begin"
      BY <1>7 DEF StartImport, StartScan, Start, Goto, CallerTypeOK
    <2> QED BY <2>1, <1>p
  <1>8. CASE BeginImport(c) \/ BeginScan(c)
    <2>1. CASE Leave(c)
      BY <1>4, <1>6, <2>1
    <2>2. CASE ~Leave(c)
      <3>1. /\ pc[c] = "begin" /\ call' = call /\ pc'[c] \in {"ingest", "mkdir"}
            /\ InsertRow(c, "import") \/ InsertRow(c, "scan") \/ kind[Target(c)] = "import"
        BY <1>8, <2>2 DEF BeginImport, BeginScan, Goto, CallerTypeOK
      <3>2. Target(c)' = Target(c) /\ Target(c) \in Runs
        BY <1>3, <1>p, <3>1 DEF Target
      <3>3. status'[Target(c)] # "none"
        BY <1>p, <3>1, <3>2 DEF InsertRow, StoreTypeOK, Begun
      <3> QED BY <1>p, <3>1, <3>2, <3>3
    <2> QED BY <2>1, <2>2
  <1>9. CASE \/ MakeDirectory(c) \/ Scan(c) \/ OpenIngest(c)
             \/ CheckFile(c) \/ LinkFile(c) \/ UnlinkTemporary(c)
    <2>1. CASE Leave(c)
      BY <1>4, <1>6, <2>1
    <2>2. CASE ~Leave(c)
      <3>1. pc[c] \in RunPcs \ {"begin"} /\ call'[c].run = call[c].run
        BY <1>9, <1>p, <2>2 DEF MakeDirectory, Scan, OpenIngest, CheckFile, LinkFile,
                                UnlinkTemporary, CallerTypeOK, Calls
      <3>2. pc'[c] \in RunPcs \ {"begin"}
        BY <1>9, <1>p, <2>2 DEF MakeDirectory, Scan, OpenIngest, CheckFile, LinkFile,
                                UnlinkTemporary, NextFile, Goto, CallerTypeOK
      <3> QED BY <1>3, <1>p, <3>1, <3>2 DEF Target
    <2> QED BY <2>1, <2>2
  <1>10. CASE \/ EndRun(c) \/ CompareStored(c) \/ CommitIngest(c)
              \/ EndReconcile(c) \/ DatabaseError(c) \/ Crash(c)
    BY <1>4, <1>6, <1>10 DEF EndRun, CompareStored, CommitIngest, EndReconcile, DatabaseError, Crash
  <1>11. CASE BeginReconcile(c)
    <2>1. /\ pc'[c] = "runs" /\ audit'[c].todo = {r \in Runs : status[r] # "none"}
      BY <1>11 DEF BeginReconcile, Goto, CallerTypeOK
    <2> QED BY <1>p, <2>1
  <1>12. CASE LockRun(c)
    <2>1. PICK r \in audit[c].todo :
            \/ /\ call' = [call EXCEPT ![c].run = r]
               /\ Goto(c, "run") /\ UNCHANGED audit
            \/ /\ audit' = [audit EXCEPT ![c].todo = @ \ {r},
                                         ![c].issues = @ \cup {<<r, "busy">>}]
               /\ UNCHANGED pc
      BY <1>12 DEF LockRun
    <2>2. /\ pc[c] = "runs" /\ r \in Runs /\ status'[r] # "none"
          /\ audit'[c].todo \subseteq audit[c].todo
      BY <1>3, <1>12, <1>p, <2>1 DEF LockRun, CallerTypeOK, Audits
    <2>3. Listed(c)'
      BY <1>3, <1>p, <2>2
    <2>4. pc'[c] = "runs" \/ (pc'[c] = "run" /\ call'[c].run = r)
      BY <2>1, <2>2 DEF Goto, CallerTypeOK, Calls
    <2> QED BY <1>p, <2>2, <2>3, <2>4 DEF Target
  <1>13. CASE ReconcileRun(c)
    <2>1. pc[c] = "run" /\ pc'[c] = "runs" /\ audit'[c].todo \subseteq audit[c].todo
      BY <1>13 DEF ReconcileRun, Goto, CallerTypeOK, Audits
    <2> QED BY <1>3, <1>p, <2>1
  <1>14. CASE ReconcileRechecks(c) \/ ListRoot(c) \/ ReportPath(c)
    <2>1. pc'[c] \in {"list", "paths"}
      BY <1>14 DEF ReconcileRechecks, ListRoot, ReportPath, Goto, CallerTypeOK
    <2> QED BY <1>p, <2>1
  <1> QED BY <1>5, <1>7, <1>8, <1>9, <1>10, <1>11, <1>12, <1>13, <1>14 DEF OwnStep, Step

\* So it is from the beginning.
LEMMA BegunHolds == Spec => []Begun
  <1>1. Init => Begun
    BY DEF Init, Begun, RunPcs, TxPcs, PublishPcs
  <1>2. TypeOK /\ Begun /\ [Next]_vars => Begun'
    BY BegunStep
  <1> QED BY <1>1, <1>2, HistoryTypeCorrect, PTL DEF Spec

\* The directory of a run is made on behalf of a run that has begun.
LEMMA RunsMakeDirectories ==
  ASSUME TypeOK, Begun, [Next]_vars, NEW r \in Runs, r \in dirs', r \notin dirs
  PROVE  status[r] # "none"
  <1> USE DEF TypeOK
  <1>1. CASE UNCHANGED vars
    BY <1>1 DEF vars, disk
  <1>2. ASSUME NEW c \in Callers, MakeDirectory(c) \/ CheckFile(c) PROVE status[r] # "none"
    <2>1. pc[c] \in RunPcs \ {"begin"} /\ Target(c) = r
      BY <1>2 DEF MakeDirectory, CheckFile, RunPcs, TxPcs, PublishPcs
    <2> QED BY <2>1 DEF Begun
  <1>3. ASSUME NEW x \in Rechecks, PublishResponse(x) PROVE FALSE
    BY <1>3, RunAssumption DEF PublishResponse
  <1>4. ASSUME NEW c \in Callers,
               \/ StartImport(c) \/ StartScan(c) \/ BeginReconcile(c)
               \/ BeginImport(c) \/ BeginScan(c) \/ EndRun(c) \/ ReconcileRun(c)
               \/ Scan(c) \/ OpenIngest(c) \/ CompareStored(c)
               \/ CommitIngest(c) \/ LinkFile(c) \/ UnlinkTemporary(c)
        PROVE  FALSE
    BY <1>4 DEF StartImport, StartScan, Start, BeginReconcile, BeginImport, BeginScan, EndRun,
                ReconcileRun, Scan, OpenIngest, CompareStored, CommitIngest, LinkFile,
                UnlinkTemporary, disk
  <1>5. ASSUME NEW c \in Callers,
               \/ LockRun(c) \/ ReconcileRechecks(c) \/ ListRoot(c) \/ ReportPath(c)
               \/ EndReconcile(c) \/ DatabaseError(c) \/ Crash(c) \/ LoseSession(c)
        PROVE  FALSE
    BY <1>5 DEF LockRun, ReconcileRechecks, ListRoot, ReportPath, EndReconcile, DatabaseError,
                Crash, LoseSession, disk
  <1>6. ASSUME \/ \E q \in Runs : InterruptPlanned(q)
               \/ \E x \in Rechecks : CommitResponse(x)
               \/ \E f \in Files : Damage(f)
        PROVE  FALSE
    BY <1>6 DEF InterruptPlanned, CommitResponse, Damage, disk
  <1> QED BY <1>1, <1>2, <1>3, <1>4, <1>5, <1>6 DEF Next, Step

\* What a caller's report says, and what its reconcile still needs to say no more than that:
\* directories without a run are those it began with, and it lists nothing else.
Truthful(c) ==
  /\ pc[c] \in {"runs", "run", "list", "paths"} =>
       \A r \in Runs : r \in dirs /\ status[r] = "none" => r \in audit[c].stray
  /\ pc[c] = "paths" => audit[c].todo \subseteq dirs
  /\ \A r \in Runs : <<r, "unreferenced">> \in audit[c].issues => r \in audit[c].stray
  /\ \A r \in Runs : \A f \in FilesOf(r) :
       <<f, "unreferenced">> \in audit[c].issues => status[r] \in {"failed", "interrupted"}
  /\ damages = 0 => \A f \in Files, h \in {"missing", "corrupt"} : <<f, h>> \notin audit[c].issues

\* A step that leaves a caller's issues alone leaves them true.
LEMMA IssuesStayTrue ==
  ASSUME TypeOK, Begun, [Next]_vars, NEW c \in Callers, Truthful(c),
         audit'[c].issues = audit[c].issues, audit'[c].stray = audit[c].stray,
         pc'[c] \in {"runs", "run", "list", "paths"} => pc[c] \in {"runs", "run", "list", "paths"},
         pc'[c] = "paths" => audit'[c].todo \subseteq dirs
  PROVE  Truthful(c)'
  <1>1. /\ dirs \subseteq dirs' /\ (damages' = 0 => damages = 0)
        /\ \A r \in Runs : status'[r] = "none" => status[r] = "none"
        /\ \A r \in Runs : status[r] \in {"failed", "interrupted"} => status'[r] = status[r]
    BY DirectoriesStay, EndedStays, PublishedStays
  <1>2. ASSUME NEW r \in Runs, r \in dirs', status'[r] = "none"
        PROVE  r \in dirs /\ status[r] = "none"
    BY <1>1, <1>2, RunsMakeDirectories
  <1> QED BY <1>1, <1>2 DEF Truthful, FilesOf

\* What reconcile adds is true as well: it looks at a run under the run's lock and ends it,
\* so that what is no evidence then never will be.
LEMMA TruthfulStep ==
  ASSUME TypeOK, Begun, SucceededHasEvidence, EvidencePublished, [Next]_vars,
         NEW c \in Callers, Truthful(c)
  PROVE  Truthful(c)'
  <1> USE DEF TypeOK
  <1>t. /\ audit \in [Callers -> Audits] /\ audit[c].issues \subseteq Issues
        /\ \A r \in Runs : \A f \in FilesOf(r) : f \in Files
        /\ \A f \in Files : f \notin Runs
    BY FilesOfRun, NameAssumption DEF CallerTypeOK, Audits
  <1>h. ASSUME NEW fs PROVE \A d : <<d, "unreferenced">> \notin Unhealthy(fs)
    BY HealthIsHealth DEF Unhealthy
  <1>b. ASSUME damages = 0, NEW fs \in SUBSET Files PROVE Unhealthy(fs) = {}
    <2>1. \A f \in fs : ~Bad(f)
      BY <1>b DEF EvidencePublished, Bad, HealthOf, Readable
    <2> QED BY <2>1 DEF Unhealthy
  <1>1. CASE ~AuditStep(c)
    <2>1. CASE audit'[c] = NoAudit /\ pc'[c] = "idle"
      BY <2>1 DEF Truthful, NoAudit, FilesOf
    <2>2. CASE audit'[c] = audit[c] /\ pc'[c] \in {"runs", "run", "list", "paths"}
      <3>1. pc'[c] = pc[c]
        BY <1>1, <2>2, WhoReconciles
      <3> QED BY <2>2, <3>1, IssuesStayTrue DEF Truthful
    <2>3. CASE audit'[c] = audit[c] /\ pc'[c] \notin {"runs", "run", "list", "paths"}
      BY <2>3, IssuesStayTrue
    <2> QED BY <1>1, <2>1, <2>2, <2>3, WhoAudits
  <1>2. CASE BeginReconcile(c)
    <2>1. /\ audit'[c].issues = {} /\ pc'[c] = "runs"
          /\ audit'[c].stray = {r \in dirs \cap Runs : status[r] = "none"}
          /\ dirs' = dirs /\ status' = status
      BY <1>2 DEF BeginReconcile, Goto, CallerTypeOK, rows, disk
    <2> QED BY <2>1 DEF Truthful, FilesOf
  <1>3. CASE LockRun(c)
    <2>1. PICK r \in audit[c].todo :
            \/ Goto(c, "run") /\ UNCHANGED audit
            \/ /\ audit' = [audit EXCEPT ![c].todo = @ \ {r},
                                         ![c].issues = @ \cup {<<r, "busy">>}]
               /\ UNCHANGED pc
      BY <1>3 DEF LockRun
    <2>2. /\ pc[c] = "runs" /\ pc'[c] \in {"runs", "run"} /\ audit'[c].stray = audit[c].stray
          /\ audit'[c].issues \subseteq audit[c].issues \cup {<<r, "busy">>}
          /\ UNCHANGED <<status, dirs, damages>>
      BY <1>3, <1>t, <2>1 DEF LockRun, Goto, CallerTypeOK, Audits, rows, disk, bound
    <2> QED BY <2>2 DEF Truthful, FilesOf
  <1>4. CASE ReconcileRun(c)
    <2> DEFINE q == Target(c)
    <2>1. /\ pc[c] = "run" /\ pc'[c] = "runs" /\ audit'[c].stray = audit[c].stray
          /\ audit'[c].issues \subseteq audit[c].issues \cup {<<q, "interrupted">>}
                                        \cup Unhealthy(FilesOf(q)) \cup Unreferenced(FilesOf(q))
          /\ status' = Finished(q, "interrupted") /\ UNCHANGED <<dirs, damages>>
      BY <1>4, <1>t DEF ReconcileRun, Goto, CallerTypeOK, Audits, disk, bound
    <2>2. q \in Runs /\ status[q] # "none"
      BY <2>1 DEF CallerTypeOK, Target, Begun
    <2>3. ASSUME NEW r \in Runs, NEW f \in FilesOf(r),
                 <<f, "unreferenced">> \in Unreferenced(FilesOf(q))
          PROVE  status'[r] \in {"failed", "interrupted"}
      <3>1. f \in FilesOf(q) /\ artifact[f] = Absent
        BY <2>3 DEF Unreferenced
      <3>2. r = q
        BY <2>2, <3>1, FilesOfRun
      <3>3. status[q] \in {"running", "failed", "interrupted"}
        BY <2>2, <3>1 DEF SucceededHasEvidence, StoreTypeOK, RunStatus
      <3> QED BY <2>1, <2>2, <3>2, <3>3 DEF Finished, StoreTypeOK
    <2>4. \A r \in Runs : <<r, "unreferenced">> \notin Unreferenced(FilesOf(q))
      BY <1>t, <2>2 DEF Unreferenced
    <2>5. \A f, h : <<f, h>> \in Unreferenced(FilesOf(q)) => h = "unreferenced"
      BY DEF Unreferenced
    <2>6. \A r \in Runs : /\ status'[r] = "none" => status[r] = "none"
                          /\ status[r] \in {"failed", "interrupted"} => status'[r] = status[r]
      BY EndedStays
    <2>7. /\ pc'[c] = "runs" /\ dirs' = dirs /\ damages' = damages
          /\ \A r \in Runs : r \in dirs /\ status[r] = "none" => r \in audit[c].stray
      BY <2>1 DEF Truthful
    <2>8. \A r \in Runs : <<r, "unreferenced">> \in audit'[c].issues => r \in audit'[c].stray
      BY <1>h, <2>1, <2>4 DEF Truthful
    <2>9. ASSUME NEW r \in Runs, NEW f \in FilesOf(r), <<f, "unreferenced">> \in audit'[c].issues
          PROVE  status'[r] \in {"failed", "interrupted"}
      BY <1>h, <2>1, <2>3, <2>6, <2>9 DEF Truthful
    <2>10. ASSUME damages = 0, NEW f \in Files, NEW h \in {"missing", "corrupt"}
           PROVE  <<f, h>> \notin audit'[c].issues
      <3>1. Unhealthy(FilesOf(q)) = {}
        BY <1>b, <2>2, <2>10, FilesOfRun
      <3> QED BY <2>1, <2>5, <2>10, <3>1 DEF Truthful
    <2> QED BY <2>1, <2>6, <2>7, <2>8, <2>9, <2>10 DEF Truthful, FilesOf
  <1>5. CASE ReconcileRechecks(c)
    <2> DEFINE fs == Rechecks \X {"response"}
    <2>1. /\ pc[c] = "runs" /\ pc'[c] = "list" /\ audit'[c].stray = audit[c].stray
          /\ audit'[c].issues = audit[c].issues \cup Unhealthy(fs)
          /\ UNCHANGED <<status, dirs, damages>>
      BY <1>5, <1>t DEF ReconcileRechecks, Goto, CallerTypeOK, Audits, disk, bound
    <2>2. damages = 0 => Unhealthy(fs) = {}
      BY <1>b DEF Files
    <2> QED BY <1>h, <2>1, <2>2 DEF Truthful, FilesOf
  <1>6. CASE ListRoot(c)
    <2>1. /\ pc[c] = "list" /\ pc'[c] = "paths" /\ audit'[c].stray = audit[c].stray
          /\ audit'[c].issues = audit[c].issues /\ audit'[c].todo \subseteq dirs
      BY <1>6, <1>t DEF ListRoot, Goto, CallerTypeOK, Audits
    <2> QED BY <2>1, IssuesStayTrue
  <1>7. CASE ReportPath(c)
    <2>1. PICK d \in audit[c].todo :
            audit' = [audit EXCEPT ![c].todo = @ \ {d},
                        ![c].issues = @ \cup IF d \in Runs /\ status[d] # "none"
                                               THEN {} ELSE {<<d, "unreferenced">>}]
      BY <1>7 DEF ReportPath
    <2>2. /\ pc[c] = "paths" /\ pc'[c] = "paths" /\ audit'[c].stray = audit[c].stray
          /\ audit'[c].todo = audit[c].todo \ {d}
          /\ audit'[c].issues \subseteq audit[c].issues \cup {<<d, "unreferenced">>}
          /\ d \in Runs /\ status[d] # "none" => audit'[c].issues = audit[c].issues
          /\ UNCHANGED <<status, dirs, damages>>
      BY <1>7, <1>t, <2>1 DEF ReportPath, Audits, rows, disk, bound
    <2>3. d \in dirs /\ (d \in Runs /\ status[d] = "none" => d \in audit[c].stray)
      BY <2>2 DEF Truthful
    <2>4. \A r \in Runs : \A f \in FilesOf(r) : f # d
      BY <1>t, <2>3, NameAssumption DEF StoreTypeOK
    <2>5. \A r \in Runs : <<r, "unreferenced">> \in audit'[c].issues => r \in audit'[c].stray
      BY <2>2, <2>3 DEF Truthful
    <2> QED BY <2>2, <2>4, <2>5 DEF Truthful, FilesOf
  <1> QED BY <1>1, <1>2, <1>3, <1>4, <1>5, <1>6, <1>7 DEF AuditStep

\* What reconcile puts in its report (history.py, reconcile) is so, and stays so until it
\* returns, for any number of lost sessions, crashes, retries and runs that begin beside it.
THEOREM ReportsAreTrue == Spec => []ReportIsTrue
  <1>1. Init => \A c \in Callers : Truthful(c)
    BY DEF Init, Truthful, NoAudit, FilesOf
  <1>2. /\ TypeOK /\ Begun /\ SucceededHasEvidence /\ EvidencePublished /\ [Next]_vars
        /\ (\A c \in Callers : Truthful(c))
        => (\A c \in Callers : Truthful(c))'
    BY TruthfulStep
  <1>3. SucceededHasEvidence /\ (\A c \in Callers : Truthful(c)) => ReportIsTrue
    BY DEF SucceededHasEvidence, Truthful, ReportIsTrue, FilesOf
  <1> QED BY <1>1, <1>2, <1>3, HistoryTypeCorrect, BegunHolds, EvidenceMeansSuccess,
             EvidenceIsPublished, PTL DEF Spec

-----------------------------------------------------------------------------
(* Sessions.                                                               *)

\* A step that loses no session takes no lock from a caller that does not step itself.
LEMMA LockKept ==
  ASSUME TypeOK, [Next]_vars, NEW c \in Callers, ~OwnStep(c), ~LoseSession(c),
         Target(c) \in Runs, Live(c)
  PROVE  Live(c)'
  <1> USE DEF TypeOK
  <1> DEFINE Kept == lock'[Target(c)] = c
  <1>p. /\ c # NoCaller /\ lock[Target(c)] = c /\ lock \in [Runs -> Callers \cup {NoCaller}]
        /\ call'[c] = call[c]
    BY CallerAssumption, Frame DEF Live, CallerTypeOK
  <1>q. SUFFICES Kept
    BY <1>p DEF Live, Target
  <1>1. CASE UNCHANGED vars
    BY <1>1, <1>p DEF vars, local
  <1>2. ASSUME NEW d \in Callers \ {c}, StartImport(d) \/ StartScan(d) PROVE Kept
    BY <1>2, <1>p DEF StartImport, StartScan, Start
  <1>3. ASSUME NEW d \in Callers \ {c}, Leave(d) PROVE Kept
    BY <1>3, <1>p DEF Leave, Live
  <1>4. ASSUME NEW d \in Callers \ {c},
               \/ BeginImport(d) \/ BeginScan(d) \/ MakeDirectory(d) \/ Scan(d) \/ OpenIngest(d)
               \/ CheckFile(d) \/ LinkFile(d) \/ UnlinkTemporary(d) \/ BeginReconcile(d)
        PROVE  Kept
    BY <1>4, <1>3, <1>p DEF BeginImport, BeginScan, MakeDirectory, Scan, OpenIngest, CheckFile,
                            LinkFile, UnlinkTemporary, BeginReconcile
  <1>5. ASSUME NEW d \in Callers \ {c},
               \/ EndRun(d) \/ CompareStored(d) \/ CommitIngest(d)
               \/ EndReconcile(d) \/ DatabaseError(d) \/ Crash(d)
        PROVE  Kept
    BY <1>5, <1>3 DEF EndRun, CompareStored, CommitIngest, EndReconcile, DatabaseError, Crash
  <1>6. ASSUME NEW d \in Callers \ {c}, LockRun(d) PROVE Kept
    BY <1>6, <1>p DEF LockRun
  <1>7. ASSUME NEW d \in Callers \ {c}, ReconcileRun(d) PROVE Kept
    BY <1>7, <1>p DEF ReconcileRun, Live
  <1>8. ASSUME NEW d \in Callers \ {c}, ReconcileRechecks(d) \/ ListRoot(d) \/ ReportPath(d)
        PROVE  Kept
    BY <1>8, <1>p DEF ReconcileRechecks, ListRoot, ReportPath
  <1>9. ASSUME NEW d \in Callers \ {c}, LoseSession(d) PROVE Kept
    BY <1>9, <1>p DEF LoseSession, Live
  <1>10. ASSUME \/ \E r \in Runs : InterruptPlanned(r)
                \/ \E x \in Rechecks : PublishResponse(x) \/ CommitResponse(x)
                \/ \E f \in Files : Damage(f)
         PROVE  Kept
    BY <1>10, <1>p DEF InterruptPlanned, PublishResponse, CommitResponse, Damage, local
  <1> QED
    BY <1>1, <1>2, <1>4, <1>5, <1>6, <1>7, <1>8, <1>9, <1>10 DEF Next, Step, OwnStep

\* As long as no session is lost, whoever works on a run holds its lock.
SessionsLive == \A c \in Callers : pc[c] \in RunPcs \cup {"run"} => Live(c)

\* A caller that goes on with a run keeps its lock, and nobody takes it away.
LEMMA SessionsStep ==
  ASSUME TypeOK, SessionsLive, losses = 0, losses' = 0, [Next]_vars
  PROVE  SessionsLive'
  <1> USE DEF TypeOK
  <1>s. SUFFICES ASSUME NEW c \in Callers, pc'[c] \in RunPcs \cup {"run"} PROVE Live(c)'
    BY DEF SessionsLive
  <1>l. ~LoseSession(c)
    BY DEF LoseSession
  <1>p. /\ RunPcs = {"check", "link", "unlink", "commit", "compare", "begin", "mkdir", "scan",
                     "ingest", "failed", "interrupted"}
        /\ "idle" \notin RunPcs \cup {"run"} /\ "runs" \notin RunPcs \cup {"run"}
    BY DEF RunPcs, TxPcs, PublishPcs
  <1>1. CASE ~OwnStep(c)
    <2>1. pc'[c] = pc[c]
      BY <1>1, Frame
    <2>2. Target(c) \in Runs /\ Live(c)
      BY <1>s, <2>1 DEF SessionsLive, CallerTypeOK, Target
    <2> QED BY <1>1, <1>l, <2>2, LockKept
  <1>2. ASSUME Leave(c) PROVE FALSE
    BY <1>s, <1>p, <1>2 DEF Leave, Goto, CallerTypeOK
  <1>3. CASE StartImport(c) \/ StartScan(c)
    <2>1. PICK r, op, p : r \in Runs /\ Start(c, op, r, p)
      BY <1>3 DEF StartImport, StartScan
    <2>2. lock'[r] = c /\ call'[c].run = r
      BY <2>1 DEF Start, CallerTypeOK
    <2> QED BY <2>2 DEF Live, Target
  <1>4. CASE \/ BeginImport(c) \/ BeginScan(c) \/ MakeDirectory(c) \/ Scan(c) \/ OpenIngest(c)
             \/ CheckFile(c) \/ LinkFile(c) \/ UnlinkTemporary(c)
    <2>1. pc[c] \in RunPcs
      BY <1>4, <1>p DEF BeginImport, BeginScan, MakeDirectory, Scan, OpenIngest, CheckFile,
                        LinkFile, UnlinkTemporary
    <2>2. lock' = lock /\ call'[c].run = call[c].run
      BY <1>4, <1>2 DEF BeginImport, BeginScan, MakeDirectory, Scan, OpenIngest, CheckFile,
                        LinkFile, UnlinkTemporary, CallerTypeOK, Calls
    <2>3. Live(c)
      BY <2>1 DEF SessionsLive
    <2> QED BY <2>2, <2>3 DEF Live, Target
  <1>5. CASE \/ EndRun(c) \/ CompareStored(c) \/ CommitIngest(c)
             \/ EndReconcile(c) \/ DatabaseError(c) \/ Crash(c)
    BY <1>2, <1>5 DEF EndRun, CompareStored, CommitIngest, EndReconcile, DatabaseError, Crash
  <1>6. CASE LockRun(c)
    <2>1. PICK r \in audit[c].todo :
            \/ call' = [call EXCEPT ![c].run = r] /\ lock' = [lock EXCEPT ![r] = c]
            \/ UNCHANGED pc
      BY <1>6 DEF LockRun
    <2>2. pc[c] = "runs" /\ r \in Runs
      BY <1>6, <2>1 DEF LockRun, CallerTypeOK
    <2>3. lock'[r] = c /\ call'[c].run = r
      BY <1>s, <1>p, <2>1, <2>2 DEF CallerTypeOK, Calls
    <2> QED BY <2>3 DEF Live, Target
  <1>7. CASE \/ BeginReconcile(c) \/ ReconcileRun(c) \/ ReconcileRechecks(c)
             \/ ListRoot(c) \/ ReportPath(c)
    BY <1>s, <1>p, <1>7 DEF BeginReconcile, ReconcileRun, ReconcileRechecks, ListRoot, ReportPath,
                            Goto, CallerTypeOK
  <1> QED BY <1>1, <1>3, <1>4, <1>5, <1>6, <1>7 DEF OwnStep, Step

\* So it is in every behaviour without a lost session.
LEMMA SessionsHold == Spec /\ [](losses = 0) => []SessionsLive
  <1>1. Init => SessionsLive
    BY DEF Init, SessionsLive, RunPcs, TxPcs, PublishPcs
  <1>2. TypeOK /\ SessionsLive /\ losses = 0 /\ (losses = 0)' /\ [Next]_vars => SessionsLive'
    BY SessionsStep
  <1> QED BY <1>1, <1>2, HistoryTypeCorrect, PTL DEF Spec

-----------------------------------------------------------------------------
(* A bad artifact stays bad.                                               *)

\* Rows of artifacts belong to runs that succeeded, and to responses that are there.
RowsBacked ==
  /\ \A r \in Runs : \A f \in FilesOf(r) : artifact[f] # Absent => status[r] = "succeeded"
  /\ \A x \in Rechecks : artifact[<<x, "response">>] # Absent => x \in dirs
  /\ \A f \in Files : artifact[f] # Junk

\* Every step keeps it so: a run's rows are written by the commit that ends it.
LEMMA RowsBackedStep ==
  ASSUME TypeOK, IngestOwnsRun, RowsBacked, [Next]_vars
  PROVE  RowsBacked'
  <1>1. ASSUME NEW r \in Runs, NEW f \in FilesOf(r), artifact'[f] # Absent
        PROVE  status'[r] = "succeeded"
    <2>1. CASE artifact'[f] = artifact[f]
      BY <1>1, <2>1, EndedStays DEF RowsBacked
    <2>2. CASE artifact'[f] # artifact[f]
      BY <2>2, WhoWritesEvidence, CommitWrites DEF TypeOK, StoreTypeOK
    <2> QED BY <2>1, <2>2
  <1>2. ASSUME NEW x \in Rechecks, artifact'[<<x, "response">>] # Absent
        PROVE  x \in dirs'
    <2>1. CASE artifact'[<<x, "response">>] = artifact[<<x, "response">>]
      BY <1>2, <2>1, DirectoriesStay DEF RowsBacked
    <2>2. CASE artifact'[<<x, "response">>] # artifact[<<x, "response">>]
      BY <2>2, WhoWritesResponses, DirectoriesStay
    <2> QED BY <2>1, <2>2
  <1>3. ASSUME NEW f \in Files, artifact'[f] # artifact[f] PROVE artifact'[f] # Junk
    <2>1. ASSUME NEW r \in Runs, f \in FilesOf(r) PROVE artifact'[f] # Junk
      <3>1. PICK c \in Callers : CommitIngest(c) /\ Target(c) = r
        BY <1>3, <2>1, WhoWritesEvidence
      <3>2. artifact'[f] = Content(c, f) /\ call[c].payload \in Payloads
        BY <2>1, <3>1, CommitWrites
      <3> QED BY <3>2, ContentIsBytes, BytesAssumption
    <2>2. ASSUME NEW x \in Rechecks, f = <<x, "response">> PROVE artifact'[f] # Junk
      BY <1>3, <2>2, WhoWritesResponses, BytesAssumption
    <2> QED BY <2>1, <2>2 DEF Files, FilesOf
  <1>4. \A f \in Files : artifact'[f] # Junk
    BY <1>3 DEF RowsBacked
  <1> QED BY <1>1, <1>2, <1>4 DEF RowsBacked, FilesOf

\* So it holds throughout.
LEMMA RowsBackedHolds == Spec => []RowsBacked
  <1>1. Init => RowsBacked
    <2>1. \A x \in Rechecks : <<x, "response">> \in Files
      BY DEF Files
    <2>2. \A r \in Runs : FilesOf(r) \subseteq Files
      BY FilesOfRun
    <2> QED BY <2>1, <2>2, BytesAssumption DEF Init, RowsBacked
  <1>2. TypeOK /\ IngestOwnsRun /\ RowsBacked /\ [Next]_vars => RowsBacked'
    BY RowsBackedStep
  <1> QED BY <1>1, <1>2, HistoryTypeCorrect, CallersOwnTheirRuns, PTL DEF Spec

\* A row of an artifact, once written, is not rewritten.
LEMMA RowStays ==
  ASSUME TypeOK, IngestOwnsRun, RowsBacked, [Next]_vars, NEW f \in Files, artifact[f] # Absent
  PROVE  artifact'[f] = artifact[f]
  <1> SUFFICES ASSUME artifact'[f] # artifact[f] PROVE FALSE
    OBVIOUS
  <1>1. ASSUME NEW r \in Runs, f \in FilesOf(r) PROVE FALSE
    <2>1. PICK c \in Callers : CommitIngest(c) /\ Target(c) = r
      BY <1>1, WhoWritesEvidence
    <2>2. status[r] = "running"
      BY <2>1, CommitWrites
    <2> QED BY <1>1, <2>2 DEF RowsBacked
  <1>2. ASSUME NEW x \in Rechecks, f = <<x, "response">> PROVE FALSE
    BY <1>2, WhoWritesResponses
  <1>3. (\E r \in Runs : f \in FilesOf(r)) \/ (\E x \in Rechecks : f = <<x, "response">>)
    BY DEF Files, FilesOf
  <1> QED BY <1>1, <1>2, <1>3

\* Nobody publishes a file there is a row of, as long as no session is lost: its
\* run is not running any more.
LEMMA NotPublished ==
  ASSUME TypeOK, IngestOwnsRun, RowsBacked, SessionsLive, NEW f \in Files, artifact[f] # Absent,
         NEW c \in Callers, pc[c] \in PublishPcs
  PROVE  FileAt(c) # f
  <1>1. Target(c) \in Runs /\ role[c] \in Roles
    BY DEF TypeOK, CallerTypeOK, Target, RunPcs, TxPcs
  <1>2. Live(c)
    BY DEF SessionsLive, RunPcs, TxPcs
  <1>3. status[Target(c)] = "running"
    BY <1>2 DEF IngestOwnsRun
  <1>4. FileAt(c) \in FilesOf(Target(c))
    BY <1>1, FilesOfRun DEF FileAt
  <1> QED BY <1>1, <1>3, <1>4 DEF RowsBacked

\* What happens to the file of an artifact row is damage.
LEMMA BadStays ==
  ASSUME TypeOK, IngestOwnsRun, RowsBacked, SessionsLive, [Next]_vars, NEW f \in Files, Bad(f)
  PROVE  Bad(f)'
  <1> USE DEF TypeOK
  <1>a. artifact[f] # Absent /\ artifact'[f] = artifact[f]
    BY RowStays DEF Bad
  <1>b. file[f] = Absent \/ f \in twin \/ file[f] # artifact[f]
    BY DEF Bad, HealthOf
  <1> DEFINE Worse == file'[f] = Absent \/ f \in twin' \/ file'[f] # artifact[f]
             Same == file'[f] = file[f] /\ (f \in twin' <=> f \in twin)
  <1>s. Same => Worse
    BY <1>b
  <1>q. SUFFICES Worse
    BY <1>a DEF Bad, HealthOf
  <1>t. file \in [Files -> Bytes] /\ artifact[f] \in Bytes
    BY DEF StoreTypeOK
  <1>1. ASSUME UNCHANGED vars PROVE Same
    BY <1>1 DEF vars, disk
  <1>2. ASSUME NEW c \in Callers, LinkFile(c) \/ UnlinkTemporary(c) PROVE Same
    <2>1. FileAt(c) # f
      BY <1>2, <1>a, NotPublished DEF LinkFile, UnlinkTemporary, PublishPcs
    <2> QED BY <1>2, <1>t, <2>1 DEF LinkFile, UnlinkTemporary
  <1>3. ASSUME NEW x \in Rechecks, PublishResponse(x) PROVE Same
    <2>1. f # <<x, "response">>
      BY <1>3, <1>a DEF PublishResponse, RowsBacked
    <2> QED BY <1>3, <1>t, <2>1 DEF PublishResponse
  <1>4. ASSUME NEW g \in Files, Damage(g) PROVE Worse
    <2>1. CASE g = f
      <3>1. file'[f] \in {Absent, Junk}
        BY <1>4, <1>t, <2>1 DEF Damage
      <3>2. CASE file'[f] = Absent
        BY <3>2
      <3>3. CASE file'[f] = Junk
        BY <3>3, <1>a DEF RowsBacked
      <3> QED BY <3>1, <3>2, <3>3
    <2>2. CASE g # f
      BY <1>4, <1>s, <1>t, <2>2 DEF Damage
    <2> QED BY <2>1, <2>2
  <1>5. ASSUME NEW c \in Callers,
               \/ StartImport(c) \/ StartScan(c) \/ BeginReconcile(c)
               \/ BeginImport(c) \/ BeginScan(c) \/ EndRun(c) \/ ReconcileRun(c)
               \/ MakeDirectory(c) \/ Scan(c) \/ OpenIngest(c) \/ CompareStored(c)
               \/ CheckFile(c) \/ CommitIngest(c)
        PROVE  Same
    BY <1>5 DEF StartImport, StartScan, Start, BeginReconcile, BeginImport, BeginScan, EndRun,
                ReconcileRun, MakeDirectory, Scan, OpenIngest, CompareStored, CheckFile,
                CommitIngest, disk
  <1>6. ASSUME NEW c \in Callers,
               \/ LockRun(c) \/ ReconcileRechecks(c) \/ ListRoot(c) \/ ReportPath(c)
               \/ EndReconcile(c) \/ DatabaseError(c) \/ Crash(c) \/ LoseSession(c)
        PROVE  Same
    BY <1>6 DEF LockRun, ReconcileRechecks, ListRoot, ReportPath, EndReconcile, DatabaseError,
                Crash, LoseSession, disk
  <1>7. ASSUME (\E r \in Runs : InterruptPlanned(r)) \/ (\E x \in Rechecks : CommitResponse(x))
        PROVE  Same
    BY <1>7 DEF InterruptPlanned, CommitResponse, disk
  <1> QED BY <1>s, <1>1, <1>2, <1>3, <1>4, <1>5, <1>6, <1>7 DEF Next, Step

-----------------------------------------------------------------------------
(* What a reconcile still owes its caller.                                 *)

\* Directories without a run when the reconcile began are none of the identifiers it
\* knows, so it lists them, and reports them unless a run has begun since.
StrayAccounted(c) ==
  /\ pc[c] \in {"runs", "run", "list"} =>
       \A r \in audit[c].stray : r \in dirs /\ r \notin audit[c].known
  /\ pc[c] = "paths" =>
       \A r \in audit[c].stray :
         status[r] = "none" => r \in audit[c].todo \/ <<r, "unreferenced">> \in audit[c].issues

\* Every step of a reconcile keeps account of them, and so does everybody else's.
LEMMA StrayStep ==
  ASSUME TypeOK, [Next]_vars, NEW c \in Callers, StrayAccounted(c)
  PROVE  StrayAccounted(c)'
  <1> USE DEF TypeOK
  <1>t. /\ audit \in [Callers -> Audits] /\ audit[c].stray \subseteq Runs
        /\ \A r \in Runs : r \notin Rechecks
    BY RunAssumption DEF CallerTypeOK, Audits
  <1>e. dirs \subseteq dirs' /\ \A r \in Runs : status'[r] = "none" => status[r] = "none"
    BY DirectoriesStay, EndedStays
  <1>1. CASE BeginReconcile(c)
    <2>1. /\ pc'[c] = "runs"
          /\ \A r \in audit'[c].stray : r \in dirs /\ r \notin audit'[c].known
      BY <1>1, <1>t DEF BeginReconcile, Goto, CallerTypeOK
    <2> QED BY <1>e, <2>1 DEF StrayAccounted
  <1>2. CASE LockRun(c) \/ ReconcileRun(c)
    <2>1. /\ pc[c] \in {"runs", "run"} /\ pc'[c] \in {"runs", "run"}
          /\ audit'[c].stray = audit[c].stray /\ audit'[c].known = audit[c].known
      <3>1. CASE LockRun(c)
        <4>1. PICK r \in audit[c].todo :
                \/ Goto(c, "run") /\ UNCHANGED audit
                \/ /\ audit' = [audit EXCEPT ![c].todo = @ \ {r},
                                             ![c].issues = @ \cup {<<r, "busy">>}]
                   /\ UNCHANGED pc
          BY <3>1 DEF LockRun
        <4>2. pc[c] = "runs"
          BY <3>1 DEF LockRun
        <4> QED BY <1>t, <4>1, <4>2 DEF Goto, CallerTypeOK, Audits
      <3>2. CASE ReconcileRun(c)
        BY <3>2, <1>t DEF ReconcileRun, Goto, CallerTypeOK, Audits
      <3> QED BY <1>2, <3>1, <3>2
    <2> QED BY <1>e, <2>1 DEF StrayAccounted
  <1>3. CASE ReconcileRechecks(c)
    <2>1. /\ pc[c] = "runs" /\ pc'[c] = "list" /\ audit'[c].stray = audit[c].stray
          /\ audit'[c].known \subseteq audit[c].known \cup Rechecks
      BY <1>3, <1>t DEF ReconcileRechecks, Goto, CallerTypeOK, Audits
    <2> QED BY <1>e, <1>t, <2>1 DEF StrayAccounted
  <1>4. CASE ListRoot(c)
    <2>1. /\ pc[c] = "list" /\ pc'[c] = "paths" /\ audit'[c].stray = audit[c].stray
          /\ audit'[c].todo = dirs \ audit[c].known
      BY <1>4, <1>t DEF ListRoot, Goto, CallerTypeOK, Audits
    <2> QED BY <2>1 DEF StrayAccounted
  <1>5. CASE ReportPath(c)
    <2>1. PICK d \in audit[c].todo :
            audit' = [audit EXCEPT ![c].todo = @ \ {d},
                        ![c].issues = @ \cup IF d \in Runs /\ status[d] # "none"
                                               THEN {} ELSE {<<d, "unreferenced">>}]
      BY <1>5 DEF ReportPath
    <2>2. /\ pc[c] = "paths" /\ pc'[c] = "paths" /\ audit'[c].stray = audit[c].stray
          /\ audit'[c].todo = audit[c].todo \ {d} /\ audit[c].issues \subseteq audit'[c].issues
          /\ (d \in Runs /\ status[d] = "none") => <<d, "unreferenced">> \in audit'[c].issues
      BY <1>5, <1>t, <2>1 DEF ReportPath, Audits
    <2> QED BY <1>e, <1>t, <2>2 DEF StrayAccounted
  <1>6. CASE ~AuditStep(c)
    <2>1. CASE pc'[c] \in {"runs", "run", "list", "paths"}
      <3>1. pc'[c] = pc[c] /\ audit'[c] = audit[c]
        BY <1>6, <2>1, WhoReconciles
      <3> QED BY <1>e, <1>t, <3>1 DEF StrayAccounted
    <2>2. CASE pc'[c] \notin {"runs", "run", "list", "paths"}
      BY <2>2 DEF StrayAccounted
    <2> QED BY <2>1, <2>2
  <1> QED BY <1>1, <1>2, <1>3, <1>4, <1>5, <1>6 DEF AuditStep

\* An artifact that was bad when the reconcile began is in its report, or still bad
\* and yet to be examined: its run is on the list, or it is a response.
Reported(c, f) ==
  \/ <<f[1], "busy">> \in audit[c].issues
  \/ \E h \in {"missing", "corrupt"} : <<f, h>> \in audit[c].issues
Examinable(c, f) == Bad(f) /\ f[1] \in audit[c].todo \cup Rechecks
BadAccounted(c) ==
  /\ pc[c] \in {"runs", "run"} => \A f \in audit[c].bad : Reported(c, f) \/ Examinable(c, f)
  /\ pc[c] \in {"list", "paths"} => \A f \in audit[c].bad : Reported(c, f)

\* Reports are not taken back while the reconcile goes on.
LEMMA ReportedStays ==
  ASSUME NEW c \in Callers, NEW f, Reported(c, f), audit[c].issues \subseteq audit'[c].issues
  PROVE  Reported(c, f)'
  BY DEF Reported

\* What is found bad is reported as missing or corrupt.
LEMMA BadReported ==
  ASSUME NEW c \in Callers, NEW fs, NEW f \in fs, Bad(f), Unhealthy(fs) \subseteq audit'[c].issues
  PROVE  Reported(c, f)'
  <1>1. HealthOf(f) \in {"missing", "corrupt"}
    BY HealthIsHealth DEF Bad
  <1>2. <<f, HealthOf(f)>> \in Unhealthy(fs)
    BY DEF Unhealthy
  <1> QED BY <1>1, <1>2 DEF Reported

\* Every step of a reconcile keeps account of them: a run leaves the list when its
\* files have been examined, or when it is reported as busy.
LEMMA BadStep ==
  ASSUME TypeOK, IngestOwnsRun, RowsBacked, SessionsLive, [Next]_vars, NEW c \in Callers,
         BadAccounted(c)
  PROVE  BadAccounted(c)'
  <1> USE DEF TypeOK
  <1>t. audit \in [Callers -> Audits] /\ audit[c] \in Audits /\ audit[c].bad \subseteq Files
    BY DEF CallerTypeOK, Audits
  <1>f. \A f \in Files : f[1] \in Runs \/ f \in Rechecks \X {"response"}
    BY DEF Files
  <1>b. \A f \in audit[c].bad : Bad(f) => Bad(f)'
    BY <1>t, BadStays
  <1>1. CASE BeginReconcile(c)
    <2>1. /\ pc'[c] = "runs" /\ audit'[c].bad = {f \in Files : Bad(f)}
          /\ audit'[c].todo = {r \in Runs : status[r] # "none"}
      BY <1>1, <1>t DEF BeginReconcile, Goto, CallerTypeOK
    <2>2. ASSUME NEW f \in audit'[c].bad PROVE Examinable(c, f)'
      <3>1. f \in Files /\ Bad(f) /\ Bad(f)'
        BY <2>1, <2>2, BadStays
      <3>2. CASE f[1] \in Runs
        <4>1. status[f[1]] = "succeeded"
          BY <3>1, <3>2 DEF RowsBacked, Bad, FilesOf
        <4> QED BY <2>1, <3>1, <3>2, <4>1 DEF Examinable
      <3>3. CASE f \in Rechecks \X {"response"}
        BY <3>1, <3>3 DEF Examinable
      <3> QED BY <1>f, <3>1, <3>2, <3>3
    <2> QED BY <2>1, <2>2 DEF BadAccounted
  <1>2. CASE LockRun(c)
    <2>1. PICK r \in audit[c].todo :
            \/ pc'[c] = "run" /\ UNCHANGED audit
            \/ /\ pc'[c] = "runs"
               /\ audit' = [audit EXCEPT ![c].todo = @ \ {r},
                                         ![c].issues = @ \cup {<<r, "busy">>}]
      BY <1>2 DEF LockRun, Goto, CallerTypeOK
    <2>2. pc[c] = "runs" /\ pc'[c] \in {"run", "runs"}
      BY <1>2, <2>1 DEF LockRun
    <2>3. /\ audit'[c].bad = audit[c].bad /\ audit[c].issues \subseteq audit'[c].issues
          /\ \/ audit'[c].todo = audit[c].todo
             \/ audit'[c].todo = audit[c].todo \ {r} /\ <<r, "busy">> \in audit'[c].issues
      BY <1>t, <2>1 DEF Audits
    <2>4. ASSUME NEW f \in audit[c].bad PROVE Reported(c, f)' \/ Examinable(c, f)'
      <3>1. Reported(c, f) \/ Examinable(c, f)
        BY <2>2 DEF BadAccounted
      <3>2. CASE Reported(c, f)
        BY <2>3, <3>2, ReportedStays
      <3>3. CASE Examinable(c, f)
        BY <1>b, <2>3, <3>3 DEF Examinable, Reported
      <3> QED BY <3>1, <3>2, <3>3
    <2> QED BY <2>2, <2>3, <2>4 DEF BadAccounted
  <1>3. CASE ReconcileRun(c)
    <2> DEFINE r == Target(c)
    <2>1. /\ pc[c] = "run" /\ pc'[c] = "runs" /\ audit'[c].bad = audit[c].bad
          /\ audit'[c].todo = audit[c].todo \ {r}
          /\ audit[c].issues \subseteq audit'[c].issues
          /\ Unhealthy(FilesOf(r)) \subseteq audit'[c].issues
      BY <1>3, <1>t DEF ReconcileRun, Goto, CallerTypeOK, Audits
    <2>2. ASSUME NEW f \in audit[c].bad PROVE Reported(c, f)' \/ Examinable(c, f)'
      <3>1. Reported(c, f) \/ Examinable(c, f)
        BY <2>1 DEF BadAccounted
      <3>2. CASE Reported(c, f)
        BY <2>1, <3>2, ReportedStays
      <3>3. CASE Examinable(c, f) /\ f[1] = r
        <4>1. f \in FilesOf(r)
          BY <1>t, <3>3 DEF FilesOf
        <4> QED BY <2>1, <3>3, <4>1, BadReported DEF Examinable
      <3>4. CASE Examinable(c, f) /\ f[1] # r
        BY <1>b, <2>1, <3>4 DEF Examinable
      <3> QED BY <3>1, <3>2, <3>3, <3>4
    <2> QED BY <2>1, <2>2 DEF BadAccounted
  <1>4. CASE ReconcileRechecks(c)
    <2> DEFINE fs == Rechecks \X {"response"}
    <2>1. /\ pc[c] = "runs" /\ pc'[c] = "list" /\ audit'[c].bad = audit[c].bad
          /\ audit[c].todo = {}
          /\ audit[c].issues \subseteq audit'[c].issues
          /\ Unhealthy(fs) \subseteq audit'[c].issues
      BY <1>4, <1>t DEF ReconcileRechecks, Goto, CallerTypeOK, Audits
    <2>2. ASSUME NEW f \in audit[c].bad PROVE Reported(c, f)'
      <3>1. Reported(c, f) \/ Examinable(c, f)
        BY <2>1 DEF BadAccounted
      <3>2. CASE Reported(c, f)
        BY <2>1, <3>2, ReportedStays
      <3>3. CASE Examinable(c, f)
        <4>1. f \in fs
          BY <1>f, <1>t, <2>1, <3>3, RunAssumption DEF Examinable
        <4> QED BY <2>1, <3>3, <4>1, BadReported DEF Examinable
      <3> QED BY <3>1, <3>2, <3>3
    <2> QED BY <2>1, <2>2 DEF BadAccounted
  <1>5. CASE ListRoot(c) \/ ReportPath(c)
    <2>1. /\ pc[c] \in {"list", "paths"} /\ pc'[c] = "paths" /\ audit'[c].bad = audit[c].bad
          /\ audit[c].issues \subseteq audit'[c].issues
      <3>1. CASE ListRoot(c)
        BY <3>1, <1>t DEF ListRoot, Goto, CallerTypeOK, Audits
      <3>2. CASE ReportPath(c)
        <4>1. PICK d \in audit[c].todo, new \in SUBSET Issues :
                audit' = [audit EXCEPT ![c].todo = @ \ {d}, ![c].issues = @ \cup new]
          <5>1. \A d \in audit[c].todo : {<<d, "unreferenced">>} \in SUBSET Issues
            BY <1>t DEF Audits, Issues
          <5> QED BY <3>2, <5>1 DEF ReportPath
        <4> QED BY <1>t, <3>2, <4>1 DEF ReportPath, Audits
      <3> QED BY <1>5, <3>1, <3>2
    <2>2. \A f \in audit[c].bad : Reported(c, f)'
      BY <2>1, ReportedStays DEF BadAccounted
    <2> QED BY <2>1, <2>2 DEF BadAccounted
  <1>6. CASE ~AuditStep(c)
    <2>1. CASE pc'[c] \in {"runs", "run", "list", "paths"}
      <3>1. pc'[c] = pc[c] /\ audit'[c] = audit[c]
        BY <1>6, <2>1, WhoReconciles
      <3>2. \A f \in audit[c].bad : /\ Reported(c, f) => Reported(c, f)'
                                    /\ Examinable(c, f) => Examinable(c, f)'
        BY <1>b, <3>1 DEF Reported, Examinable
      <3> QED BY <3>1, <3>2 DEF BadAccounted
    <2>2. CASE pc'[c] \notin {"runs", "run", "list", "paths"}
      BY <2>2 DEF BadAccounted
    <2> QED BY <2>1, <2>2
  <1> QED BY <1>1, <1>2, <1>3, <1>4, <1>5, <1>6 DEF AuditStep

\* Both accounts of every caller.
Accounted == \A c \in Callers : StrayAccounted(c) /\ BadAccounted(c)

\* They are kept as long as no session is lost: a process that has lost its session
\* may put back a missing file before reconcile examines it.
LEMMA AccountsKept == Spec /\ [](losses = 0) => []Accounted
  <1>1. Init => Accounted
    BY DEF Init, Accounted, StrayAccounted, BadAccounted
  <1>2. TypeOK /\ IngestOwnsRun /\ RowsBacked /\ SessionsLive /\ Accounted /\ [Next]_vars
        => Accounted'
    BY StrayStep, BadStep DEF Accounted
  <1> QED BY <1>1, <1>2, HistoryTypeCorrect, CallersOwnTheirRuns, RowsBackedHolds, SessionsHold,
             PTL DEF Spec

\* When reconcile returns, every artifact that was bad when it began is in its report,
\* or its run is there as busy, and so is every directory that never had a run.
THEOREM AuditIsComplete == Spec /\ [](losses = 0) => []AuditComplete
  <1>1. Accounted => AuditComplete
    BY DEF Accounted, StrayAccounted, BadAccounted, Reported, AuditComplete
  <1> QED BY <1>1, AccountsKept, PTL
=============================================================================
