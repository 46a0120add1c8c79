------------------------- MODULE ScanHistorySafety -------------------------
(***************************************************************************)
(* Safety theorems about ScanHistory: who may change a run, and when.      *)
(***************************************************************************)
EXTENDS ScanHistoryProofs

-----------------------------------------------------------------------------
(* What a step leaves alone.                                               *)

\* The steps caller c takes itself.
OwnStep(c) ==
  \/ StartImport(c) \/ StartScan(c) \/ BeginReconcile(c) \/ Step(c) \/ Crash(c)

\* A caller's place, call and file change only by its own steps, and nobody else
\* gives it a lock.
LEMMA Frame ==
  ASSUME TypeOK, [Next]_vars, NEW c \in Callers, ~OwnStep(c)
  PROVE  /\ pc'[c] = pc[c] /\ call'[c] = call[c] /\ role'[c] = role[c]
         /\ Target(c) \in Runs /\ Live(c)' => Live(c)
  <1> USE DEF TypeOK
  <1> DEFINE Kept == /\ pc'[c] = pc[c] /\ call'[c] = call[c] /\ role'[c] = role[c]
                     /\ \A r \in Runs : lock'[r] = c => lock[r] = c
  <1>p. c # NoCaller /\ Target(c)' = call'[c].run
    BY CallerAssumption DEF Target
  <1>q. SUFFICES Kept
    BY <1>p DEF Live, Target
  <1>1. CASE UNCHANGED vars
    BY <1>1 DEF vars, local
  <1>2. ASSUME NEW d \in Callers \ {c}, StartImport(d) \/ StartScan(d) PROVE Kept
    BY <1>2 DEF StartImport, StartScan, Start, Goto, CallerTypeOK
  <1>3. ASSUME NEW d \in Callers \ {c}, Leave(d) PROVE Kept
    BY <1>3, <1>p DEF Leave, Goto, CallerTypeOK
  <1>4. ASSUME NEW d \in Callers \ {c}, BeginReconcile(d) PROVE Kept
    BY <1>4 DEF BeginReconcile, Goto, CallerTypeOK
  <1>5. ASSUME NEW d \in Callers \ {c},
               BeginImport(d) \/ BeginScan(d) \/ MakeDirectory(d) \/ Scan(d) \/ OpenIngest(d)
        PROVE  Kept
    BY <1>5, <1>3 DEF BeginImport, BeginScan, MakeDirectory, Scan, OpenIngest, Goto, CallerTypeOK
  <1>6. ASSUME NEW d \in Callers \ {c}, CheckFile(d) \/ LinkFile(d) \/ UnlinkTemporary(d)
        PROVE  Kept
    BY <1>6, <1>3 DEF CheckFile, LinkFile, UnlinkTemporary, NextFile, Goto, CallerTypeOK
  <1>7. ASSUME NEW d \in Callers \ {c},
               \/ EndRun(d) \/ CompareStored(d) \/ CommitIngest(d)
               \/ EndReconcile(d) \/ DatabaseError(d) \/ Crash(d)
        PROVE  Kept
    BY <1>7, <1>3 DEF EndRun, CompareStored, CommitIngest, EndReconcile, DatabaseError, Crash
  <1>8. ASSUME NEW d \in Callers \ {c}, LockRun(d) PROVE Kept
    BY <1>8 DEF LockRun, Goto, CallerTypeOK
  <1>9. ASSUME NEW d \in Callers \ {c}, ReconcileRun(d) PROVE Kept
    BY <1>9, <1>p DEF ReconcileRun, Goto, CallerTypeOK
  <1>10. ASSUME NEW d \in Callers \ {c}, ReconcileRechecks(d) \/ ListRoot(d) \/ ReportPath(d)
         PROVE Kept
    BY <1>10 DEF ReconcileRechecks, ListRoot, ReportPath, Goto, CallerTypeOK
  <1>11. ASSUME NEW d \in Callers, LoseSession(d) PROVE Kept
    BY <1>11, <1>p DEF LoseSession, CallerTypeOK
  <1>12. ASSUME \/ \E r \in Runs : InterruptPlanned(r)
                \/ \E x \in Rechecks : PublishResponse(x) \/ CommitResponse(x)
                \/ \E f \in Files : Damage(f)
         PROVE  Kept
    BY <1>12 DEF InterruptPlanned, PublishResponse, CommitResponse, Damage, local
  <1> QED
    BY <1>1, <1>2, <1>4, <1>5, <1>6, <1>7, <1>8, <1>9, <1>10, <1>11, <1>12
       DEF Next, Step, OwnStep

\* The status of a run changes by the hand of the caller that holds its lock: it
\* begins, or ends, the run; or reconcile_stale interrupts a planned run.
LEMMA WhoEndsRuns ==
  ASSUME TypeOK, [Next]_vars, NEW r \in Runs, status'[r] # status[r]
  PROVE  \/ \E c \in Callers :
              /\ BeginImport(c) \/ (BeginScan(c) /\ pc'[c] = "mkdir")
              /\ Target(c) = r /\ Live(c) /\ status[r] = "none" /\ status'[r] = "running"
         \/ \E c \in Callers :
              /\ EndRun(c) \/ ReconcileRun(c)
              /\ Target(c) = r /\ Live(c) /\ status[r] = "running"
              /\ status'[r] \in {"failed", "interrupted"}
         \/ \E c \in Callers :
              /\ CommitIngest(c)
              /\ Target(c) = r /\ Live(c) /\ status[r] = "running" /\ status'[r] = "succeeded"
         \/ /\ InterruptPlanned(r) /\ r \in Planned
            /\ status[r] = "running" /\ ~RowLocked(r) /\ status'[r] = "interrupted"
  <1> USE DEF TypeOK
  <1>p. status \in [Runs -> RunStatus]
    BY DEF StoreTypeOK
  <1>1. CASE UNCHANGED vars
    BY <1>1 DEF vars, rows
  <1>2. ASSUME NEW c \in Callers, BeginImport(c)
        PROVE  Target(c) = r /\ Live(c) /\ status[r] = "none" /\ status'[r] = "running"
    BY <1>2, <1>p DEF BeginImport, InsertRow, rows
  <1>3. ASSUME NEW c \in Callers, BeginScan(c)
        PROVE  /\ Target(c) = r /\ Live(c) /\ status[r] = "none" /\ status'[r] = "running"
               /\ pc'[c] = "mkdir"
    BY <1>3, <1>p DEF BeginScan, InsertRow, rows, Goto, CallerTypeOK
  <1>4. ASSUME NEW c \in Callers, EndRun(c)
        PROVE  /\ Target(c) = r /\ Live(c) /\ status[r] = "running"
               /\ status'[r] \in {"failed", "interrupted"}
    BY <1>4, <1>p DEF EndRun, Finished
  <1>5. ASSUME NEW c \in Callers, ReconcileRun(c)
        PROVE  /\ Target(c) = r /\ Live(c) /\ status[r] = "running"
               /\ status'[r] \in {"failed", "interrupted"}
    BY <1>5, <1>p DEF ReconcileRun, Finished
  <1>6. ASSUME NEW c \in Callers, CommitIngest(c)
        PROVE  /\ Target(c) = r /\ Live(c) /\ status[r] = "running"
               /\ status'[r] = "succeeded"
    BY <1>6, <1>p DEF CommitIngest, Finished
  <1>7. ASSUME NEW q \in Runs, InterruptPlanned(q)
        PROVE  /\ q = r /\ r \in Planned
               /\ status[r] = "running" /\ ~RowLocked(r) /\ status'[r] = "interrupted"
    BY <1>7, <1>p DEF InterruptPlanned, Finished
  <1>8. ASSUME NEW c \in Callers,
               \/ StartImport(c) \/ StartScan(c) \/ BeginReconcile(c)
               \/ MakeDirectory(c) \/ Scan(c) \/ OpenIngest(c) \/ CompareStored(c)
               \/ CheckFile(c) \/ LinkFile(c) \/ UnlinkTemporary(c)
        PROVE  FALSE
    BY <1>8 DEF StartImport, StartScan, Start, BeginReconcile, MakeDirectory, Scan, OpenIngest,
                CompareStored, CheckFile, LinkFile, UnlinkTemporary, rows
  <1>9. ASSUME NEW c \in Callers,
               \/ LockRun(c) \/ ReconcileRechecks(c) \/ ListRoot(c) \/ ReportPath(c)
               \/ EndReconcile(c) \/ DatabaseError(c) \/ Crash(c) \/ LoseSession(c)
        PROVE  FALSE
    BY <1>9 DEF LockRun, ReconcileRechecks, ListRoot, ReportPath, EndReconcile, DatabaseError,
                Crash, LoseSession, rows
  <1>10. ASSUME \/ \E x \in Rechecks : PublishResponse(x) \/ CommitResponse(x)
                \/ \E f \in Files : Damage(f)
         PROVE  FALSE
    BY <1>10 DEF PublishResponse, CommitResponse, Damage, rows
  <1> QED
    BY <1>1, <1>2, <1>3, <1>4, <1>5, <1>6, <1>7, <1>8, <1>9, <1>10 DEF Next, Step

\* A run that ended stays as it ended, and one that began never was not.
LEMMA EndedStays ==
  ASSUME TypeOK, [Next]_vars, NEW r \in Runs
  PROVE  /\ status[r] = "succeeded" => status'[r] = "succeeded"
         /\ status[r] # "none" => status'[r] # "none"
         /\ status[r] \notin {"none", "running"} => status'[r] = status[r]
  BY WhoEndsRuns

\* A run that is in the hands of a live caller, its row locked by it, is not ended
\* by anybody else.
LEMMA OwnedRunStays ==
  ASSUME TypeOK, [Next]_vars, NEW c \in Callers, Target(c) \in Runs, ~OwnStep(c),
         Live(c), status[Target(c)] = "running",
         pc[c] \in TxPcs \/ Target(c) \notin Planned
  PROVE  status'[Target(c)] = "running"
  <1> DEFINE r == Target(c)
  <1>1. ASSUME NEW d \in Callers, Target(d) = r, Live(d) PROVE d = c
    BY <1>1 DEF Live
  <1>2. RowLocked(r) \/ r \notin Planned
    BY DEF RowLocked
  <1>3. ASSUME NEW d \in Callers, EndRun(d) \/ ReconcileRun(d) \/ CommitIngest(d) PROVE d # c
    BY <1>3 DEF OwnStep, Step
  <1> QED BY <1>1, <1>2, <1>3, WhoEndsRuns

-----------------------------------------------------------------------------
(* A live caller owns its run.                                             *)

Owned == IngestOwnsRun /\ LiveScanRuns

\* No step takes a run from the live caller that works on it.
LEMMA OwnedStep ==
  ASSUME TypeOK, Owned, [Next]_vars
  PROVE  Owned'
  <1> USE DEF TypeOK
  <1>p. /\ PublishPcs = {"check", "link", "unlink", "commit"}
        /\ TxPcs = {"check", "link", "unlink", "commit", "compare"}
        /\ RunPcs = {"check", "link", "unlink", "commit", "compare", "begin", "mkdir", "scan",
                     "ingest", "failed", "interrupted"}
    BY DEF RunPcs, TxPcs, PublishPcs
  <1> DEFINE ScanPcs == {"mkdir", "scan", "ingest", "failed", "interrupted"}
             Good(c) ==
               /\ pc[c] \in PublishPcs /\ Live(c) => status[Target(c)] = "running"
               /\ /\ call[c].op = "scan" /\ Target(c) \notin Planned /\ Live(c)
                  /\ pc[c] \in ScanPcs
                  => status[Target(c)] = "running"
  <1>g. \A c \in Callers : Good(c)
    BY DEF Owned, IngestOwnsRun, LiveScanRuns
  <1>h. SUFFICES ASSUME NEW c \in Callers PROVE Good(c)'
    BY DEF Owned, IngestOwnsRun, LiveScanRuns
  <1>1. CASE ~OwnStep(c)
    <2>1. /\ pc'[c] = pc[c] /\ call'[c] = call[c] /\ Target(c)' = Target(c)
          /\ Target(c) \in Runs /\ Live(c)' => Live(c)
      BY <1>1, Frame DEF Target
    <2>2. pc[c] \in RunPcs => Target(c) \in Runs
      BY DEF CallerTypeOK, Target
    <2>3. CASE pc[c] \in PublishPcs /\ Live(c)'
      BY <1>1, <1>g, <1>p, <2>1, <2>2, <2>3, OwnedRunStays
    <2>4. CASE /\ call[c].op = "scan" /\ Target(c) \notin Planned /\ Live(c)'
               /\ pc[c] \in ScanPcs
      BY <1>1, <1>g, <1>p, <2>1, <2>2, <2>4, OwnedRunStays
    <2> QED BY <2>1, <2>3, <2>4
  <1>2. CASE pc'[c] \notin PublishPcs \cup ScanPcs
    BY <1>2
  <1>3. ASSUME pc'[c] \in PublishPcs \cup ScanPcs, Leave(c) PROVE FALSE
    BY <1>3, <1>p DEF Leave, Goto, CallerTypeOK
  <1>4. CASE pc'[c] \in PublishPcs \cup ScanPcs /\ OwnStep(c)
    <2>1. CASE BeginImport(c)
      <3>1. /\ pc'[c] = "ingest" /\ call'[c] = call[c] /\ call[c].op = "import"
        BY <1>3, <1>4, <2>1 DEF BeginImport, Goto, CallerTypeOK
      <3> QED BY <3>1, <1>p
    <2>2. CASE BeginScan(c)
      <3>1. /\ pc'[c] = "mkdir" /\ call'[c] = call[c] /\ status'[Target(c)] = "running"
        BY <1>3, <1>4, <1>p, <2>2 DEF BeginScan, Goto, InsertRow, CallerTypeOK, StoreTypeOK, Target
      <3> QED BY <3>1, <1>p DEF Target
    <2>3. CASE MakeDirectory(c) \/ Scan(c)
      <3>1. /\ pc[c] \in ScanPcs /\ pc'[c] \in ScanPcs /\ UNCHANGED <<status, lock>>
            /\ call'[c].op = call[c].op /\ call'[c].run = call[c].run
        BY <2>3, <1>p DEF MakeDirectory, Scan, Goto, rows, CallerTypeOK, Calls
      <3> QED BY <1>g, <1>p, <3>1 DEF Target, Live
    <2>4. CASE OpenIngest(c)
      <3>1. /\ pc[c] = "ingest" /\ call'[c] = call[c] /\ UNCHANGED <<status, lock>>
            /\ \/ pc'[c] = "failed" /\ call[c].op = "import"
               \/ pc'[c] = "check" /\ status[Target(c)] = "running"
               \/ pc'[c] = "compare"
        BY <1>3, <1>4, <2>4 DEF OpenIngest, Goto, rows, CallerTypeOK
      <3> QED BY <3>1, <1>p DEF Target, Live
    <2>5. CASE CheckFile(c) \/ LinkFile(c) \/ UnlinkTemporary(c)
      <3>1. /\ pc[c] \in PublishPcs /\ pc'[c] \in PublishPcs
            /\ call'[c] = call[c] /\ UNCHANGED <<status, lock>>
        BY <1>3, <1>4, <2>5, <1>p
           DEF CheckFile, LinkFile, UnlinkTemporary, NextFile, Goto, rows, CallerTypeOK
      <3> QED BY <1>g, <1>p, <3>1 DEF Target, Live
    <2>6. CASE StartImport(c) \/ StartScan(c) \/ BeginReconcile(c)
      BY <1>4, <1>p, <2>6 DEF StartImport, StartScan, Start, BeginReconcile, Goto, CallerTypeOK
    <2>7. CASE EndRun(c) \/ CompareStored(c) \/ CommitIngest(c)
               \/ DatabaseError(c) \/ EndReconcile(c) \/ Crash(c)
      BY <1>3, <1>4, <2>7
         DEF EndRun, CompareStored, CommitIngest, DatabaseError, EndReconcile, Crash
    <2>8. CASE LockRun(c) \/ ReconcileRun(c) \/ ReconcileRechecks(c)
               \/ ListRoot(c) \/ ReportPath(c)
      BY <1>4, <1>p, <2>8
         DEF LockRun, ReconcileRun, ReconcileRechecks, ListRoot, ReportPath, Goto, CallerTypeOK
    <2> QED BY <1>4, <2>1, <2>2, <2>3, <2>4, <2>5, <2>6, <2>7, <2>8 DEF OwnStep, Step
  <1> QED BY <1>1, <1>2, <1>4

\* So both properties hold throughout.
LEMMA OwnedHolds == Spec => []Owned
  <1>1. Init => Owned
    BY DEF Init, Owned, IngestOwnsRun, LiveScanRuns, PublishPcs
  <1>2. TypeOK /\ Owned /\ [Next]_vars => Owned'
    BY OwnedStep
  <1> QED BY <1>1, <1>2, HistoryTypeCorrect, PTL DEF Spec

\* An open ingestion of a live session finds its run running until it commits.
THEOREM CallersOwnTheirRuns == Spec => []IngestOwnsRun
  <1>1. Owned => IngestOwnsRun
    BY DEF Owned
  <1> QED BY <1>1, OwnedHolds, PTL

\* Nobody else ends the run of a live scan that no assessment has planned.
THEOREM LiveScansKeepTheirRuns == Spec => []LiveScanRuns
  <1>1. Owned => LiveScanRuns
    BY DEF Owned
  <1> QED BY <1>1, OwnedHolds, PTL

-----------------------------------------------------------------------------
(* Evidence and answers.                                                   *)

\* Artifact rows of runs are written by the commit of an ingestion only.
LEMMA WhoWritesEvidence ==
  ASSUME TypeOK, [Next]_vars, NEW r \in Runs, NEW f \in FilesOf(r), artifact'[f] # artifact[f]
  PROVE  \E c \in Callers : CommitIngest(c) /\ Target(c) = r
  <1>f. f \in Files /\ f[1] = r /\ \A x \in Rechecks : f # <<x, "response">>
    BY FilesOfRun, RunAssumption
  <1>t. artifact \in [Files -> Bytes]
    BY DEF TypeOK, StoreTypeOK
  <1>1. CASE UNCHANGED vars
    BY <1>1 DEF vars, rows
  <1>2. ASSUME NEW c \in Callers, CommitIngest(c) PROVE Target(c) = r
    BY <1>2, <1>f, <1>t DEF CommitIngest, FilesOf
  <1>3. ASSUME NEW x \in Rechecks, PublishResponse(x) \/ CommitResponse(x) PROVE FALSE
    BY <1>3, <1>f, <1>t DEF PublishResponse, CommitResponse, rows
  <1>4. ASSUME NEW c \in Callers,
               \/ StartImport(c) \/ StartScan(c) \/ BeginReconcile(c)
               \/ BeginImport(c) \/ BeginScan(c) \/ EndRun(c) \/ ReconcileRun(c)
               \/ MakeDirectory(c) \/ Scan(c) \/ OpenIngest(c) \/ CompareStored(c)
               \/ CheckFile(c) \/ LinkFile(c) \/ UnlinkTemporary(c)
        PROVE  FALSE
    BY <1>4 DEF StartImport, StartScan, Start, BeginReconcile, BeginImport, BeginScan, InsertRow,
                EndRun, ReconcileRun, MakeDirectory, Scan, OpenIngest, CompareStored, CheckFile,
                LinkFile, UnlinkTemporary, rows
  <1>5. ASSUME NEW c \in Callers,
               \/ LockRun(c) \/ ReconcileRechecks(c) \/ ListRoot(c) \/ ReportPath(c)
               \/ EndReconcile(c) \/ DatabaseError(c) \/ Crash(c) \/ LoseSession(c)
        PROVE  FALSE
    BY <1>5 DEF LockRun, ReconcileRechecks, ListRoot, ReportPath, EndReconcile, DatabaseError,
                Crash, LoseSession, rows
  <1>6. ASSUME \/ \E q \in Runs : InterruptPlanned(q)
               \/ \E g \in Files : Damage(g)
        PROVE  FALSE
    BY <1>6 DEF InterruptPlanned, Damage, rows
  <1> QED BY <1>1, <1>2, <1>3, <1>4, <1>5, <1>6 DEF Next, Step

\* What a commit writes: bytes for both files of its run, which was running and lacked them.
LEMMA CommitWrites ==
  ASSUME TypeOK, IngestOwnsRun, NEW c \in Callers, CommitIngest(c)
  PROVE  /\ Target(c) \in Runs /\ call[c].payload \in Payloads
         /\ status[Target(c)] = "running"
         /\ status' = [status EXCEPT ![Target(c)] = "succeeded"]
         /\ \A f \in FilesOf(Target(c)) :
              artifact'[f] = Content(c, f) /\ artifact'[f] # Absent
         /\ \A f \in Files \ FilesOf(Target(c)) : artifact'[f] = artifact[f]
         /\ artifact'[<<Target(c), "stdout">>] = call[c].payload
  <1>1. pc[c] = "commit" /\ Live(c)
    BY DEF CommitIngest
  <1>2. Target(c) \in Runs /\ call[c].payload \in Payloads
    BY <1>1 DEF TypeOK, CallerTypeOK, RunPcs, TxPcs, PublishPcs, Target
  <1>3. status[Target(c)] = "running"
    BY <1>1 DEF IngestOwnsRun, PublishPcs
  <1>4. FilesOf(Target(c)) \subseteq Files /\ <<Target(c), "stdout">> \in FilesOf(Target(c))
    BY <1>2, FilesOfRun DEF Roles
  <1>5. \A f : Content(c, f) # Absent
    BY <1>2, ContentIsBytes, BytesAssumption
  <1>6. Content(c, <<Target(c), "stdout">>) = call[c].payload
    BY DEF Content
  <1>7. artifact' = [f \in Files |->
                      IF f \in FilesOf(Target(c)) THEN Content(c, f) ELSE artifact[f]]
    BY DEF CommitIngest
  <1>8. status' = [status EXCEPT ![Target(c)] = "succeeded"]
    BY <1>3 DEF CommitIngest, Finished
  <1>9. \A f \in Files : artifact'[f] =
          IF f \in FilesOf(Target(c)) THEN Content(c, f) ELSE artifact[f]
    BY <1>7
  <1> QED BY <1>2, <1>3, <1>4, <1>5, <1>6, <1>8, <1>9

\* Evidence comes and goes with success.
LEMMA EvidenceStep ==
  ASSUME TypeOK, IngestOwnsRun, SucceededHasEvidence, [Next]_vars
  PROVE  SucceededHasEvidence'
  <1>1. SUFFICES ASSUME NEW r \in Runs, NEW f \in FilesOf(r)
                 PROVE  artifact'[f] # Absent <=> status'[r] = "succeeded"
    BY DEF SucceededHasEvidence, FilesOf
  <1>2. artifact[f] # Absent <=> status[r] = "succeeded"
    BY DEF SucceededHasEvidence
  <1>3. ASSUME NEW c \in Callers, CommitIngest(c), Target(c) = r
        PROVE  status'[r] = "succeeded" /\ artifact'[f] # Absent
    BY <1>3, CommitWrites DEF TypeOK, StoreTypeOK
  <1>4. CASE \A c \in Callers : ~(CommitIngest(c) /\ Target(c) = r)
    <2>1. artifact'[f] = artifact[f]
      BY <1>4, WhoWritesEvidence
    <2>2. status'[r] = "succeeded" <=> status[r] = "succeeded"
      BY <1>4, WhoEndsRuns
    <2> QED BY <1>2, <2>1, <2>2
  <1> QED BY <1>3, <1>4

\* A run has all of its evidence if it succeeded and none of it otherwise, whatever stopped
\* on the way.
THEOREM EvidenceMeansSuccess == Spec => []SucceededHasEvidence
  <1>1. Init => SucceededHasEvidence
    BY FilesOfRun DEF Init, SucceededHasEvidence
  <1>2. TypeOK /\ IngestOwnsRun /\ SucceededHasEvidence /\ [Next]_vars => SucceededHasEvidence'
    BY EvidenceStep
  <1> QED BY <1>1, <1>2, HistoryTypeCorrect, CallersOwnTheirRuns, PTL DEF Spec

-----------------------------------------------------------------------------
(* Answers.                                                                *)

\* A caller that compares works on a run that succeeded, and what was answered is on record.
Recorded ==
  /\ \A c \in Callers : pc[c] = "compare" => status[Target(c)] = "succeeded"
  /\ AnswersAgree

LEMMA ComparesSucceeded ==
  ASSUME TypeOK, Recorded, [Next]_vars, NEW c \in Callers, pc'[c] = "compare"
  PROVE  status'[Target(c)'] = "succeeded"
  <1> USE DEF TypeOK
  <1>1. CASE ~OwnStep(c)
    <2>1. pc[c] = "compare" /\ Target(c)' = Target(c)
      BY <1>1, Frame DEF Target
    <2>2. Target(c) \in Runs
      BY <2>1 DEF CallerTypeOK, Target, RunPcs, TxPcs
    <2> QED BY <2>1, <2>2, EndedStays DEF Recorded
  <1>2. ASSUME Leave(c) PROVE FALSE
    BY <1>2 DEF Leave, Goto, CallerTypeOK
  <1>3. CASE OpenIngest(c)
    <2>1. pc[c] = "ingest" /\ UNCHANGED <<status, call>>
          /\ status[Target(c)] \in {"running", "succeeded"} /\ status[Target(c)] # "running"
      BY <1>2, <1>3 DEF OpenIngest, Goto, rows, CallerTypeOK
    <2> QED BY <2>1 DEF Target
  <1>4. ASSUME OwnStep(c), ~OpenIngest(c) PROVE FALSE
    <2>1. CASE StartImport(c) \/ StartScan(c) \/ BeginReconcile(c)
      BY <2>1 DEF StartImport, StartScan, Start, BeginReconcile, Goto, CallerTypeOK
    <2>2. CASE BeginImport(c) \/ BeginScan(c) \/ MakeDirectory(c) \/ Scan(c)
      BY <1>2, <2>2 DEF BeginImport, BeginScan, MakeDirectory, Scan, Goto, CallerTypeOK
    <2>3. CASE CheckFile(c) \/ LinkFile(c) \/ UnlinkTemporary(c)
      BY <1>2, <2>3 DEF CheckFile, LinkFile, UnlinkTemporary, NextFile, Goto, CallerTypeOK
    <2>4. CASE EndRun(c) \/ CompareStored(c) \/ CommitIngest(c)
               \/ DatabaseError(c) \/ EndReconcile(c) \/ Crash(c)
      BY <1>2, <2>4 DEF EndRun, CompareStored, CommitIngest, DatabaseError, EndReconcile, Crash
    <2>5. CASE LockRun(c) \/ ReconcileRun(c) \/ ReconcileRechecks(c)
               \/ ListRoot(c) \/ ReportPath(c)
      BY <2>5 DEF LockRun, ReconcileRun, ReconcileRechecks, ListRoot, ReportPath, Goto, CallerTypeOK
    <2> QED BY <1>4, <2>1, <2>2, <2>3, <2>4, <2>5 DEF OwnStep, Step
  <1> QED BY <1>1, <1>3, <1>4

\* A report is returned by a commit, or by a comparison that found it stored.
LEMMA WhoAnswers ==
  ASSUME TypeOK, [Next]_vars, NEW a \in answers' \ answers
  PROVE  \E c \in Callers :
           /\ a = <<Target(c), call[c].payload>>
           /\ \/ CommitIngest(c)
              \/ /\ CompareStored(c)
                 /\ \A f \in FilesOf(Target(c)) : artifact[f] = Content(c, f)
  <1>1. CASE UNCHANGED vars
    BY <1>1 DEF vars, ghost
  <1>2. ASSUME NEW c \in Callers, CommitIngest(c) PROVE a = <<Target(c), call[c].payload>>
    BY <1>2 DEF CommitIngest, Answered
  <1>3. ASSUME NEW c \in Callers, CompareStored(c)
        PROVE  /\ a = <<Target(c), call[c].payload>>
               /\ \A f \in FilesOf(Target(c)) : artifact[f] = Content(c, f)
    BY <1>3 DEF CompareStored, Answered
  <1>4. ASSUME NEW c \in Callers,
               \/ StartImport(c) \/ StartScan(c) \/ BeginReconcile(c)
               \/ BeginImport(c) \/ BeginScan(c) \/ EndRun(c) \/ ReconcileRun(c)
               \/ MakeDirectory(c) \/ Scan(c) \/ OpenIngest(c)
               \/ CheckFile(c) \/ LinkFile(c) \/ UnlinkTemporary(c)
        PROVE  FALSE
    BY <1>4 DEF StartImport, StartScan, Start, BeginReconcile, BeginImport, BeginScan,
                EndRun, ReconcileRun, MakeDirectory, Scan, OpenIngest, CheckFile,
                LinkFile, UnlinkTemporary, ghost
  <1>5. ASSUME NEW c \in Callers,
               \/ LockRun(c) \/ ReconcileRechecks(c) \/ ListRoot(c) \/ ReportPath(c)
               \/ EndReconcile(c) \/ DatabaseError(c) \/ Crash(c) \/ LoseSession(c)
        PROVE  FALSE
    BY <1>5 DEF LockRun, ReconcileRechecks, ListRoot, ReportPath, EndReconcile, DatabaseError,
                Crash, LoseSession, ghost
  <1>6. ASSUME \/ \E r \in Runs : InterruptPlanned(r)
               \/ \E x \in Rechecks : PublishResponse(x) \/ CommitResponse(x)
               \/ \E f \in Files : Damage(f)
        PROVE  FALSE
    BY <1>6 DEF InterruptPlanned, PublishResponse, CommitResponse, Damage, ghost
  <1> QED BY <1>1, <1>2, <1>3, <1>4, <1>5, <1>6 DEF Next, Step

\* What a run that succeeded has on record stays.
LEMMA RecordStays ==
  ASSUME TypeOK, IngestOwnsRun, [Next]_vars, NEW r \in Runs, status[r] = "succeeded"
  PROVE  /\ status'[r] = "succeeded"
         /\ \A f \in FilesOf(r) : artifact'[f] = artifact[f]
  BY EndedStays, WhoWritesEvidence, CommitWrites

LEMMA RecordedStep ==
  ASSUME TypeOK, IngestOwnsRun, Recorded, [Next]_vars
  PROVE  Recorded'
  <1>1. \A c \in Callers : pc'[c] = "compare" => status'[Target(c)'] = "succeeded"
    BY ComparesSucceeded
  <1>2. SUFFICES ASSUME NEW a \in answers'
                 PROVE  status'[a[1]] = "succeeded" /\ artifact'[<<a[1], "stdout">>] = a[2]
    BY <1>1 DEF Recorded, AnswersAgree
  <1>3. ASSUME NEW r \in Runs PROVE <<r, "stdout">> \in FilesOf(r)
    BY FilesOfRun DEF Roles
  <1>4. CASE a \in answers
    <2>1. a[1] \in Runs
      BY <1>4 DEF TypeOK, StoreTypeOK
    <2> QED BY <1>3, <1>4, <2>1, RecordStays DEF Recorded, AnswersAgree
  <1>5. ASSUME NEW c \in Callers, CommitIngest(c), a = <<Target(c), call[c].payload>>
        PROVE  status'[a[1]] = "succeeded" /\ artifact'[<<a[1], "stdout">>] = a[2]
    BY <1>5, CommitWrites DEF TypeOK, StoreTypeOK
  <1>6. ASSUME NEW c \in Callers, CompareStored(c), a = <<Target(c), call[c].payload>>,
               \A f \in FilesOf(Target(c)) : artifact[f] = Content(c, f)
        PROVE  status'[a[1]] = "succeeded" /\ artifact'[<<a[1], "stdout">>] = a[2]
    <2>1. pc[c] = "compare" /\ UNCHANGED <<status, artifact>>
      BY <1>6 DEF CompareStored, rows
    <2>2. Target(c) \in Runs
      BY <2>1 DEF TypeOK, CallerTypeOK, Target, RunPcs, TxPcs
    <2>3. status[Target(c)] = "succeeded"
      BY <2>1 DEF Recorded
    <2>4. Content(c, <<Target(c), "stdout">>) = call[c].payload
      BY DEF Content
    <2>5. artifact[<<Target(c), "stdout">>] = call[c].payload
      BY <1>3, <1>6, <2>2, <2>4
    <2> QED BY <1>6, <2>1, <2>3, <2>5
  <1> QED BY <1>4, <1>5, <1>6, WhoAnswers

\* All calls that returned a report for an identifier returned the one on record.
THEOREM AnswersAreTheRecord == Spec => []AnswersAgree
  <1>1. Init => Recorded
    BY DEF Init, Recorded, AnswersAgree
  <1>2. TypeOK /\ IngestOwnsRun /\ Recorded /\ [Next]_vars => Recorded'
    BY RecordedStep
  <1>3. Recorded => AnswersAgree
    BY DEF Recorded
  <1> QED BY <1>1, <1>2, <1>3, HistoryTypeCorrect, CallersOwnTheirRuns, PTL DEF Spec

-----------------------------------------------------------------------------
(* Scanners.                                                               *)

\* A run that has not begun was not scanned, and one caller at a time is about to
\* start a scanner for the first time.
ScannersStart ==
  /\ \A r \in Runs : status[r] = "none" => scans[r] = 0
  /\ \A c \in Callers : pc[c] = "mkdir" =>
       /\ status[Target(c)] # "none" /\ scans[Target(c)] = 0
       /\ \A d \in Callers : pc[d] = "mkdir" /\ Target(d) = Target(c) => d = c
  /\ ScannedOnce

\* Scanners are started by MakeDirectory only.
LEMMA WhoScans ==
  ASSUME TypeOK, [Next]_vars, scans' # scans
  PROVE  \E c \in Callers : MakeDirectory(c)
  <1>1. CASE UNCHANGED vars
    BY <1>1 DEF vars, ghost
  <1>2. ASSUME NEW c \in Callers,
               \/ StartImport(c) \/ StartScan(c) \/ BeginReconcile(c)
               \/ BeginImport(c) \/ BeginScan(c) \/ EndRun(c) \/ ReconcileRun(c)
        PROVE  FALSE
    BY <1>2 DEF StartImport, StartScan, Start, BeginReconcile, BeginImport, BeginScan, EndRun,
                ReconcileRun, ghost
  <1>3. ASSUME NEW c \in Callers,
               \/ Scan(c) \/ OpenIngest(c) \/ CompareStored(c) \/ CommitIngest(c)
               \/ CheckFile(c) \/ LinkFile(c) \/ UnlinkTemporary(c)
        PROVE  FALSE
    BY <1>3 DEF Scan, OpenIngest, CompareStored, CommitIngest, CheckFile, LinkFile,
                UnlinkTemporary, ghost
  <1>4. ASSUME NEW c \in Callers,
               \/ LockRun(c) \/ ReconcileRechecks(c) \/ ListRoot(c) \/ ReportPath(c)
               \/ EndReconcile(c) \/ DatabaseError(c) \/ Crash(c) \/ LoseSession(c)
        PROVE  FALSE
    BY <1>4 DEF LockRun, ReconcileRechecks, ListRoot, ReportPath, EndReconcile, DatabaseError,
                Crash, LoseSession, ghost
  <1>5. ASSUME \/ \E r \in Runs : InterruptPlanned(r)
               \/ \E x \in Rechecks : PublishResponse(x) \/ CommitResponse(x)
               \/ \E f \in Files : Damage(f)
        PROVE  FALSE
    BY <1>5 DEF InterruptPlanned, PublishResponse, CommitResponse, Damage, ghost
  <1> QED BY <1>1, <1>2, <1>3, <1>4, <1>5 DEF Next, Step

\* A caller gets there by the insertion of the row.
LEMMA WhoMakesDirectory ==
  ASSUME TypeOK, [Next]_vars, NEW c \in Callers, pc'[c] = "mkdir"
  PROVE  /\ Target(c)' = Target(c) /\ Target(c) \in Runs
         /\ \/ pc[c] = "mkdir" /\ ~OwnStep(c)
            \/ BeginScan(c) /\ status[Target(c)] = "none" /\ status'[Target(c)] = "running"
  <1> USE DEF TypeOK
  <1>1. CASE ~OwnStep(c)
    BY <1>1, Frame DEF Target, CallerTypeOK, RunPcs
  <1>2. ASSUME Leave(c) PROVE FALSE
    BY <1>2 DEF Leave, Goto, CallerTypeOK
  <1>3. CASE BeginScan(c)
    <2>1. pc[c] = "begin" /\ UNCHANGED call /\ status[Target(c)] = "none" /\ InsertRow(c, "scan")
      BY <1>2, <1>3 DEF BeginScan
    <2>2. Target(c) \in Runs
      BY <2>1 DEF Target, CallerTypeOK, RunPcs
    <2> QED BY <1>3, <2>1, <2>2 DEF InsertRow, Target, StoreTypeOK
  <1>4. ASSUME OwnStep(c), ~BeginScan(c) PROVE FALSE
    <2>1. CASE StartImport(c) \/ StartScan(c) \/ BeginReconcile(c)
      BY <2>1 DEF StartImport, StartScan, Start, BeginReconcile, Goto, CallerTypeOK
    <2>2. CASE BeginImport(c) \/ OpenIngest(c) \/ MakeDirectory(c) \/ Scan(c)
      BY <1>2, <2>2 DEF BeginImport, OpenIngest, MakeDirectory, Scan, Goto, CallerTypeOK
    <2>3. CASE CheckFile(c) \/ LinkFile(c) \/ UnlinkTemporary(c)
      BY <1>2, <2>3 DEF CheckFile, LinkFile, UnlinkTemporary, NextFile, Goto, CallerTypeOK
    <2>4. CASE EndRun(c) \/ CompareStored(c) \/ CommitIngest(c)
               \/ DatabaseError(c) \/ EndReconcile(c) \/ Crash(c)
      BY <1>2, <2>4 DEF EndRun, CompareStored, CommitIngest, DatabaseError, EndReconcile, Crash
    <2>5. CASE LockRun(c) \/ ReconcileRun(c) \/ ReconcileRechecks(c)
               \/ ListRoot(c) \/ ReportPath(c)
      BY <2>5 DEF LockRun, ReconcileRun, ReconcileRechecks, ListRoot, ReportPath, Goto, CallerTypeOK
    <2> QED BY <1>4, <2>1, <2>2, <2>3, <2>4, <2>5 DEF OwnStep, Step
  <1> QED BY <1>1, <1>3, <1>4

LEMMA ScannersStep ==
  ASSUME TypeOK, ScannersStart, [Next]_vars
  PROVE  ScannersStart'
  <1>t. scans \in [Runs -> Nat]
    BY DEF TypeOK, StoreTypeOK
  <1>1. CASE \E c \in Callers : MakeDirectory(c)
    <2>1. PICK c \in Callers : MakeDirectory(c)
      BY <1>1
    <2>2. /\ pc[c] = "mkdir" /\ pc' = [pc EXCEPT ![c] = "scan"] /\ UNCHANGED <<call, status>>
          /\ scans' = [scans EXCEPT ![Target(c)] = @ + 1]
      BY <2>1 DEF MakeDirectory, Goto, rows
    <2>3. Target(c) \in Runs /\ scans[Target(c)] = 0 /\ status[Target(c)] # "none"
      BY <2>2 DEF TypeOK, CallerTypeOK, RunPcs, Target, ScannersStart
    <2>4. scans'[Target(c)] = 1 /\ \A r \in Runs \ {Target(c)} : scans'[r] = scans[r]
      BY <1>t, <2>2, <2>3
    <2>5. pc'[c] = "scan" /\ \A d \in Callers \ {c} : pc'[d] = pc[d] /\ Target(d)' = Target(d)
      BY <2>2 DEF TypeOK, CallerTypeOK, Target
    <2>6. \A d \in Callers : pc'[d] = "mkdir" =>
            /\ d # c /\ pc[d] = "mkdir" /\ Target(d)' = Target(d)
            /\ Target(d) # Target(c) /\ Target(d) \in Runs
      BY <2>2, <2>5 DEF ScannersStart, TypeOK, CallerTypeOK, RunPcs, Target
    <2>7. ScannedOnce'
      BY <1>t, <2>4 DEF ScannersStart, ScannedOnce
    <2>8. \A r \in Runs : status'[r] = "none" => scans'[r] = 0
      BY <2>2, <2>3, <2>4 DEF ScannersStart
    <2>9. ASSUME NEW d \in Callers, pc'[d] = "mkdir"
          PROVE  /\ status'[Target(d)'] # "none" /\ scans'[Target(d)'] = 0
                 /\ \A e \in Callers : pc'[e] = "mkdir" /\ Target(e)' = Target(d)' => e = d
      BY <2>2, <2>4, <2>6, <2>9 DEF ScannersStart
    <2> QED BY <2>7, <2>8, <2>9 DEF ScannersStart
  <1>2. CASE ~ \E c \in Callers : MakeDirectory(c)
    <2>1. UNCHANGED scans
      BY <1>2, WhoScans
    <2>2. ScannedOnce'
      BY <2>1 DEF ScannersStart, ScannedOnce
    <2>3. \A r \in Runs : status'[r] = "none" => scans'[r] = 0
      BY <2>1, EndedStays DEF ScannersStart
    <2>4. ASSUME NEW d \in Callers, pc'[d] = "mkdir"
          PROVE  /\ status'[Target(d)'] # "none" /\ scans'[Target(d)'] = 0
                 /\ \A e \in Callers : pc'[e] = "mkdir" /\ Target(e)' = Target(d)' => e = d
      <3>1. Target(d)' = Target(d) /\ Target(d) \in Runs
        BY <2>4, WhoMakesDirectory
      <3>2. CASE pc[d] = "mkdir" /\ ~OwnStep(d)
        <4>1. status'[Target(d)] # "none" /\ scans'[Target(d)] = 0
          BY <2>1, <3>1, <3>2, EndedStays DEF ScannersStart
        <4>2. ASSUME NEW e \in Callers, pc'[e] = "mkdir", Target(e)' = Target(d)'
              PROVE  e = d
          <5>1. Target(e) = Target(d) /\ status[Target(d)] # "none"
            BY <3>1, <3>2, <4>2, WhoMakesDirectory DEF ScannersStart
          <5>2. pc[e] = "mkdir"
            BY <4>2, <5>1, WhoMakesDirectory
          <5> QED BY <3>2, <5>1, <5>2 DEF ScannersStart
        <4> QED BY <3>1, <4>1, <4>2
      <3>3. CASE BeginScan(d) /\ status[Target(d)] = "none" /\ status'[Target(d)] = "running"
        <4>1. scans'[Target(d)] = 0
          BY <2>1, <3>1, <3>3 DEF ScannersStart
        <4>2. ASSUME NEW e \in Callers, pc'[e] = "mkdir", Target(e)' = Target(d)'
              PROVE  e = d
          <5>1. Target(e) = Target(d) /\ (pc[e] = "mkdir" \/ BeginScan(e))
            BY <3>1, <4>2, WhoMakesDirectory
          <5>2. pc[e] # "mkdir"
            BY <3>3, <5>1 DEF ScannersStart
          <5> QED BY <3>3, <5>1, <5>2 DEF BeginScan, Live
        <4> QED BY <3>1, <3>3, <4>1, <4>2
      <3> QED BY <2>4, <3>2, <3>3, WhoMakesDirectory
    <2> QED BY <2>2, <2>3, <2>4 DEF ScannersStart
  <1> QED BY <1>1, <1>2

\* No sequence of crashes, lost sessions and repeated calls scans an identifier twice.
THEOREM ScannedAtMostOnce == Spec => []ScannedOnce
  <1>1. Init => ScannersStart
    BY DEF Init, ScannersStart, ScannedOnce
  <1>2. TypeOK /\ ScannersStart /\ [Next]_vars => ScannersStart'
    BY ScannersStep
  <1>3. ScannersStart => ScannedOnce
    BY DEF ScannersStart
  <1> QED BY <1>1, <1>2, <1>3, HistoryTypeCorrect, PTL DEF Spec

-----------------------------------------------------------------------------
(* Refinement.                                                             *)

\* A step of one run is a step of its record, and everything else a stutter.
LEMMA RecordStep ==
  ASSUME TypeOK, IngestOwnsRun, [Next]_vars
  PROVE  [Record!Next]_(Record!vars)
  <1> DEFINE value == [r \in Runs |-> artifact[<<r, "stdout">>]]
  <1>t. status \in [Runs -> RunStatus] /\ status' \in [Runs -> RunStatus]
    BY StoreTypeStep DEF TypeOK, StoreTypeOK
  <1>f. \A r \in Runs : <<r, "stdout">> \in FilesOf(r) /\ <<r, "stdout">> \in Files
    BY FilesOfRun DEF Roles
  <1>1. CASE \E c \in Callers : CommitIngest(c)
    <2>1. PICK c \in Callers : CommitIngest(c)
      BY <1>1
    <2>2. /\ Target(c) \in Runs /\ call[c].payload \in Payloads /\ status[Target(c)] = "running"
          /\ status' = [status EXCEPT ![Target(c)] = "succeeded"]
          /\ artifact'[<<Target(c), "stdout">>] = call[c].payload
          /\ \A f \in Files \ FilesOf(Target(c)) : artifact'[f] = artifact[f]
      BY <2>1, CommitWrites
    <2>3. \A r \in Runs \ {Target(c)} : artifact'[<<r, "stdout">>] = artifact[<<r, "stdout">>]
      BY <1>f, <2>2, FilesOfRun
    <2>4. value' = [value EXCEPT ![Target(c)] = call[c].payload]
      BY <2>2, <2>3
    <2>5. \E r \in Runs, p \in Payloads :
            /\ status[r] = "running" /\ status' = [status EXCEPT ![r] = "succeeded"]
            /\ value' = [value EXCEPT ![r] = p]
      BY <2>2, <2>4
    <2>6. Record!Next
      BY <2>5 DEF Record!Next, Record!Succeed
    <2> QED BY <2>6
  <1>2. CASE ~ \E c \in Callers : CommitIngest(c)
    <2>1. value' = value
      <3>1. \A r \in Runs : artifact'[<<r, "stdout">>] = artifact[<<r, "stdout">>]
        BY <1>2, <1>f, WhoWritesEvidence
      <3> QED BY <3>1
    <2>2. CASE \A r \in Runs : status'[r] = status[r]
      <3>1. status' = status
        BY <1>t, <2>2
      <3> QED BY <2>1, <3>1 DEF Record!vars
    <2>3. ASSUME NEW r \in Runs, status'[r] # status[r]
          PROVE  Record!Begin(r) \/ Record!End(r)
      <3>1. status' = [status EXCEPT ![r] = status'[r]]
        <4>1. ASSUME NEW c \in Callers,
                     BeginImport(c) \/ BeginScan(c) \/ EndRun(c) \/ ReconcileRun(c)
              PROVE  status' = status \/ \E v : status' = [status EXCEPT ![Target(c)] = v]
          BY <4>1 DEF BeginImport, BeginScan, EndRun, ReconcileRun, InsertRow, Finished, rows
        <4>2. ASSUME InterruptPlanned(r) PROVE \E v : status' = [status EXCEPT ![r] = v]
          BY <4>2, <1>t DEF InterruptPlanned, Finished
        <4>3. \/ status' = status
              \/ \E v : status' = [status EXCEPT ![r] = v]
          BY <1>2, <2>3, <4>1, <4>2, WhoEndsRuns
        <4> QED BY <1>t, <2>3, <4>3
      <3>2. \/ status[r] = "none" /\ status'[r] = "running"
            \/ status[r] = "running" /\ status'[r] \in {"failed", "interrupted"}
        BY <1>2, <2>3, WhoEndsRuns
      <3> QED BY <2>1, <3>1, <3>2 DEF Record!Begin, Record!End
    <2> QED BY <2>2, <2>3 DEF Record!Next
  <1> QED BY <1>1, <1>2

\* Scan history implements the record of its runs.
THEOREM HistoryRefinesRecord == Spec => ImplementsRunRecord
  <1>1. Init => Record!Init
    <2>1. SUFFICES ASSUME Init PROVE Record!Init
      OBVIOUS
    <2>2. \A r \in Runs : <<r, "stdout">> \in Files
      BY FilesOfRun DEF Roles
    <2>3. \A r \in Runs : artifact[<<r, "stdout">>] = Absent
      BY <2>1, <2>2 DEF Init
    <2>4. [r \in Runs |-> artifact[<<r, "stdout">>]] = [r \in Runs |-> Absent]
      BY <2>3
    <2>5. status = [r \in Runs |-> "none"]
      BY <2>1 DEF Init
    <2> QED BY <2>4, <2>5 DEF Record!Init
  <1>2. TypeOK /\ IngestOwnsRun /\ [Next]_vars => [Record!Next]_(Record!vars)
    BY RecordStep
  <1> QED BY <1>1, <1>2, HistoryTypeCorrect, CallersOwnTheirRuns, PTL
          DEF Spec, ImplementsRunRecord, Record!Spec

-----------------------------------------------------------------------------
(* Published files.                                                        *)

\* What is published of a run stays, whoever publishes, unless damaged from outside.
LEMMA PublishedStays ==
  ASSUME TypeOK, [Next]_vars, damages' = 0
  PROVE  /\ damages = 0
         /\ \A f \in Runs \X Roles :
              /\ file[f] # Absent => file'[f] = file[f]
              /\ Readable(f) => Readable(f)'
  <1> USE DEF TypeOK
  <1> DEFINE Kept(f) == /\ file[f] # Absent => file'[f] = file[f]
                        /\ file[f] # Absent /\ f \in twin' => f \in twin
             Goal == damages = 0 /\ (\A f \in Runs \X Roles : Kept(f))
  <1>0. SUFFICES Goal
    BY DEF Readable
  <1>f. file \in [Files -> Bytes] /\ Runs \X Roles \subseteq Files /\ damages \in Nat
    BY DEF StoreTypeOK, Files
  <1>d. UNCHANGED <<file, twin, damages>> => Goal
    OBVIOUS
  <1>1. CASE UNCHANGED vars
    BY <1>1, <1>d DEF vars, disk, bound
  <1>2. ASSUME NEW c \in Callers, LinkFile(c) PROVE Goal
    <2>1. Target(c) \in Runs /\ role[c] \in Roles /\ UNCHANGED damages
      BY <1>2 DEF LinkFile, CallerTypeOK, Target, RunPcs, TxPcs, PublishPcs, bound
    <2>2. FileAt(c) \in Runs \X Roles
      BY <2>1 DEF FileAt
    <2>3. \/ UNCHANGED <<file, twin>>
          \/ /\ file[FileAt(c)] = Absent /\ twin' = twin \cup {FileAt(c)}
             /\ file' = [file EXCEPT ![FileAt(c)] = Content(c, FileAt(c))]
      BY <1>2 DEF LinkFile
    <2> QED BY <1>f, <2>1, <2>2, <2>3
  <1>3. ASSUME NEW c \in Callers, UnlinkTemporary(c) PROVE Goal
    BY <1>3 DEF UnlinkTemporary, bound
  <1>4. ASSUME NEW x \in Rechecks, PublishResponse(x) PROVE Goal
    <2>1. \A f \in Runs \X Roles : f # <<x, "response">>
      BY DEF Roles
    <2> QED BY <1>4, <1>f, <2>1 DEF PublishResponse, bound
  <1>5. ASSUME NEW f \in Files, Damage(f) PROVE FALSE
    BY <1>5, <1>f DEF Damage
  <1>6. ASSUME NEW c \in Callers,
               \/ StartImport(c) \/ StartScan(c) \/ BeginReconcile(c)
               \/ BeginImport(c) \/ BeginScan(c) \/ EndRun(c) \/ ReconcileRun(c)
               \/ MakeDirectory(c) \/ Scan(c) \/ OpenIngest(c) \/ CompareStored(c)
               \/ CheckFile(c) \/ CommitIngest(c)
        PROVE  UNCHANGED <<file, twin, damages>>
    BY <1>6 DEF StartImport, StartScan, Start, BeginReconcile, BeginImport, BeginScan,
                EndRun, ReconcileRun, MakeDirectory, Scan, OpenIngest, CompareStored, CheckFile,
                CommitIngest, disk, bound
  <1>7. ASSUME NEW c \in Callers,
               \/ LockRun(c) \/ ReconcileRechecks(c) \/ ListRoot(c) \/ ReportPath(c)
               \/ EndReconcile(c) \/ DatabaseError(c) \/ Crash(c) \/ LoseSession(c)
        PROVE  UNCHANGED <<file, twin, damages>>
    BY <1>7 DEF LockRun, ReconcileRechecks, ListRoot, ReportPath, EndReconcile, DatabaseError,
                Crash, LoseSession, disk, bound
  <1>8. ASSUME \/ \E r \in Runs : InterruptPlanned(r)
               \/ \E x \in Rechecks : CommitResponse(x)
        PROVE  UNCHANGED <<file, twin, damages>>
    BY <1>8 DEF InterruptPlanned, CommitResponse, disk, bound
  <1> QED BY <1>d, <1>1, <1>2, <1>3, <1>4, <1>5, <1>6, <1>7, <1>8 DEF Next, Step

\* The bytes caller c publishes as f are there, under one name.
Settled(c, f) == Readable(f) /\ file[f] = Content(c, f)

\* How far a caller has come, whether or not its session is alive.
Published(c) ==
  /\ pc[c] \notin PublishPcs => role[c] = "stdout"
  /\ (pc[c] \in PublishPcs /\ role[c] = "stderr") \/ pc[c] = "commit"
       => Settled(c, <<Target(c), "stdout">>)
  /\ pc[c] = "commit" => Settled(c, <<Target(c), "stderr">>)
  /\ pc[c] = "unlink" => file[FileAt(c)] = Content(c, FileAt(c))

\* A response is there exactly if its directory is.
Response(x) ==
  /\ <<x, "response">> \notin twin
  /\ file[<<x, "response">>] = IF x \in dirs THEN Plain ELSE Absent

Undamaged ==
  damages = 0 =>
    /\ EvidencePublished
    /\ \A c \in Callers : Published(c)
    /\ \A x \in Rechecks : Response(x)

\* What a caller has published stays, while it does not turn to another call.
LEMMA SettledStays ==
  ASSUME TypeOK, [Next]_vars, damages' = 0, NEW c \in Callers, NEW ro \in Roles,
         Target(c) \in Runs, call[c].payload \in Payloads, call'[c] = call[c],
         Settled(c, <<Target(c), ro>>)
  PROVE  Settled(c, <<Target(c), ro>>)'
  <1>1. PICK f \in Runs \X Roles : f = <<Target(c), ro>>
    OBVIOUS
  <1>2. file[f] # Absent /\ Readable(f) /\ file[f] = Content(c, f)
    BY <1>1, ContentIsBytes, BytesAssumption DEF Settled, Readable
  <1>3. file'[f] = file[f] /\ Readable(f)'
    BY <1>2, PublishedStays
  <1>4. Content(c, f)' = Content(c, f) /\ f = <<Target(c), ro>>'
    BY <1>1 DEF Content, Target
  <1> QED BY <1>2, <1>3, <1>4 DEF Settled

\* Another's step takes nothing from what a caller has published.
LEMMA PublishedByOthers ==
  ASSUME TypeOK, [Next]_vars, damages' = 0, NEW c \in Callers, Published(c), ~OwnStep(c)
  PROVE  Published(c)'
  <1>1. pc'[c] = pc[c] /\ role'[c] = role[c] /\ call'[c] = call[c]
    BY Frame
  <1>2. CASE pc[c] \notin PublishPcs
    BY <1>1, <1>2 DEF Published, PublishPcs
  <1>3. CASE pc[c] \in PublishPcs
    <2>1. Target(c) \in Runs /\ role[c] \in Roles /\ call[c].payload \in Payloads
      BY <1>3 DEF TypeOK, CallerTypeOK, Target, RunPcs, TxPcs
    <2>2. "stdout" \in Roles /\ "stderr" \in Roles
      BY DEF Roles
    <2>3. CASE pc[c] = "unlink"
      <3>1. PICK f \in Runs \X Roles : f = FileAt(c)
        BY <2>1 DEF FileAt
      <3>2. file'[f] = Content(c, f)
        BY <2>1, <2>3, <3>1, PublishedStays, ContentIsBytes, BytesAssumption DEF Published
      <3>3. Content(c, f)' = Content(c, f) /\ f = FileAt(c)'
        BY <1>1, <3>1 DEF Content, FileAt, Target
      <3>4. file'[FileAt(c)'] = Content(c, FileAt(c))'
        BY <3>2, <3>3
      <3>5. role[c] = "stderr" => Settled(c, <<Target(c), "stdout">>)'
        BY <1>1, <1>3, <2>1, <2>2, SettledStays DEF Published
      <3> QED BY <1>1, <1>3, <2>3, <3>4, <3>5 DEF Published
    <2>4. CASE pc[c] # "unlink"
      BY <1>1, <1>3, <2>1, <2>2, <2>4, SettledStays DEF Published
    <2> QED BY <2>3, <2>4
  <1> QED BY <1>2, <1>3

\* A file that is settled takes its caller to the next file, or to the commit.
LEMMA NextFilePublished ==
  ASSUME TypeOK, [Next]_vars, damages' = 0, NEW c \in Callers, Published(c),
         pc[c] \in {"check", "unlink"}, NextFile(c), call' = call,
         NEW ro, ro = role[c], Settled(c, <<Target(c), ro>>)'
  PROVE  Published(c)'
  <1>1. Target(c) \in Runs /\ role[c] \in Roles /\ call[c].payload \in Payloads
    BY DEF TypeOK, CallerTypeOK, Target, RunPcs, TxPcs, PublishPcs
  <1>2. pc \in [Callers -> Pcs] /\ role \in [Callers -> Roles]
    BY DEF TypeOK, CallerTypeOK
  <1>3. CASE role[c] = "stdout"
    <2>1. pc'[c] = "check" /\ role'[c] = "stderr"
      BY <1>2, <1>3 DEF NextFile, Goto
    <2>2. Settled(c, <<Target(c), "stdout">>)'
      BY <1>3
    <2> QED BY <2>1, <2>2 DEF Published, PublishPcs
  <1>4. CASE role[c] = "stderr"
    <2>1. pc'[c] = "commit" /\ role'[c] = role[c]
      BY <1>2, <1>4 DEF NextFile, Goto
    <2>2. Settled(c, <<Target(c), "stdout">>)'
      BY <1>1, <1>4, SettledStays DEF Published, PublishPcs, Roles
    <2>3. Settled(c, <<Target(c), "stderr">>)'
      BY <1>4
    <2> QED BY <2>1, <2>2, <2>3 DEF Published, PublishPcs
  <1> QED BY <1>1, <1>3, <1>4 DEF Roles

\* Every caller keeps to the order of publish.
LEMMA PublishedStep ==
  ASSUME TypeOK, IngestOwnsRun, [Next]_vars, damages' = 0, NEW c \in Callers, Published(c)
  PROVE  Published(c)'
  <1> USE DEF TypeOK
  <1>t. pc \in [Callers -> Pcs] /\ role \in [Callers -> Roles] /\ call \in [Callers -> Calls]
    BY DEF CallerTypeOK
  <1>p. PublishPcs = {"check", "link", "unlink", "commit"}
    BY DEF PublishPcs
  <1>0. pc[c] \in PublishPcs =>
          Target(c) \in Runs /\ role[c] \in Roles /\ call[c].payload \in Payloads
    BY DEF CallerTypeOK, Target, RunPcs, TxPcs
  <1>1. CASE ~OwnStep(c)
    BY <1>1, PublishedByOthers
  <1>2. ASSUME pc'[c] \notin PublishPcs, role'[c] = "stdout" PROVE Published(c)'
    BY <1>2, <1>p DEF Published
  <1>3. ASSUME Leave(c) PROVE Published(c)'
    <2>1. pc'[c] = "idle" /\ role'[c] = "stdout"
      BY <1>3, <1>t DEF Leave, Goto
    <2> QED BY <1>2, <1>p, <2>1
  <1>4. ASSUME pc[c] \notin PublishPcs, pc'[c] \notin PublishPcs, UNCHANGED role
        PROVE  Published(c)'
    BY <1>2, <1>4 DEF Published
  <1>5. CASE StartImport(c) \/ StartScan(c) \/ BeginReconcile(c)
    <2>1. pc[c] = "idle" /\ pc'[c] \in {"begin", "runs"} /\ UNCHANGED role
      BY <1>5, <1>t DEF StartImport, StartScan, Start, BeginReconcile, Goto
    <2> QED BY <1>4, <1>p, <2>1
  <1>6. CASE BeginImport(c) \/ BeginScan(c) \/ MakeDirectory(c) \/ Scan(c)
    <2>1. \/ Leave(c)
          \/ /\ pc[c] \in {"begin", "mkdir", "scan"} /\ UNCHANGED role
             /\ pc'[c] \in {"ingest", "mkdir", "scan", "failed", "interrupted"}
      BY <1>6, <1>t DEF BeginImport, BeginScan, MakeDirectory, Scan, Goto
    <2> QED BY <1>3, <1>4, <1>p, <2>1
  <1>7. CASE OpenIngest(c)
    <2>1. \/ Leave(c)
          \/ /\ pc[c] = "ingest" /\ pc'[c] \in {"failed", "check", "compare"}
             /\ UNCHANGED role
      BY <1>7, <1>t DEF OpenIngest, Goto
    <2>2. CASE pc[c] = "ingest" /\ pc'[c] = "check" /\ UNCHANGED role
      BY <1>p, <2>2 DEF Published
    <2> QED BY <1>3, <1>4, <1>p, <2>1, <2>2
  <1>8. CASE CheckFile(c)
    <2>1. CASE Leave(c)
      BY <1>3, <2>1
    <2>2. CASE Goto(c, "link") /\ UNCHANGED <<lock, call, role, audit>>
      <3>1. pc[c] = "check" /\ pc'[c] = "link" /\ call' = call /\ role' = role
        BY <1>8, <1>t, <2>2 DEF CheckFile, Goto
      <3> QED BY <1>0, <1>p, <3>1, SettledStays DEF Published, Roles
    <2>3. CASE /\ Readable(FileAt(c)) /\ file[FileAt(c)] = Content(c, FileAt(c))
               /\ NextFile(c) /\ UNCHANGED <<lock, call, audit>>
      <3>1. PICK ro \in Roles : ro = role[c]
        BY <1>t
      <3>2. Settled(c, <<Target(c), ro>>) /\ pc[c] = "check"
        BY <1>8, <2>3, <3>1 DEF Settled, FileAt, CheckFile
      <3>3. Settled(c, <<Target(c), ro>>)'
        BY <1>0, <1>p, <2>3, <3>2, SettledStays
      <3> QED BY <2>3, <3>1, <3>2, <3>3, NextFilePublished
    <2> QED BY <1>8, <2>1, <2>2, <2>3 DEF CheckFile
  <1>9. CASE LinkFile(c)
    <2>1. CASE Leave(c)
      BY <1>3, <2>1
    <2>2. CASE /\ file[FileAt(c)] = Absent
               /\ file' = [file EXCEPT ![FileAt(c)] = Content(c, FileAt(c))]
               /\ Goto(c, "unlink") /\ UNCHANGED <<lock, call, role, audit>>
      <3>1. pc[c] = "link" /\ pc'[c] = "unlink" /\ call' = call /\ role' = role
        BY <1>9, <1>t, <2>2 DEF LinkFile, Goto
      <3>2. PICK f \in Files : f = FileAt(c)
        BY <1>0, <1>p, <3>1 DEF FileAt, Files
      <3>3. file'[f] = Content(c, f)
        BY <2>2, <3>2 DEF StoreTypeOK
      <3>4. Content(c, f)' = Content(c, f) /\ f = FileAt(c)'
        BY <3>1, <3>2 DEF Content, FileAt, Target
      <3>5. file'[FileAt(c)'] = Content(c, FileAt(c))'
        BY <3>3, <3>4
      <3>6. role[c] = "stderr" => Settled(c, <<Target(c), "stdout">>)'
        BY <1>0, <1>p, <3>1, SettledStays DEF Published, Roles
      <3> QED BY <1>p, <3>1, <3>5, <3>6 DEF Published
    <2> QED BY <1>9, <2>1, <2>2 DEF LinkFile
  <1>10. CASE UnlinkTemporary(c)
    <2>1. /\ pc[c] = "unlink" /\ NextFile(c) /\ UNCHANGED <<call, file>>
          /\ twin' = twin \ {FileAt(c)}
      BY <1>10 DEF UnlinkTemporary
    <2>2. PICK ro \in Roles : ro = role[c]
      BY <1>t
    <2>3. PICK f \in Files : f = FileAt(c)
      BY <1>0, <1>p, <2>1 DEF FileAt, Files
    <2>4. file'[f] = Content(c, f) /\ f \notin twin' /\ Content(c, f) # Absent
      BY <1>0, <1>p, <2>1, <2>3, ContentIsBytes, BytesAssumption DEF Published
    <2>5. Content(c, f)' = Content(c, f) /\ f = <<Target(c), ro>>'
      BY <2>1, <2>2, <2>3 DEF Content, FileAt, Target
    <2>6. Settled(c, <<Target(c), ro>>)'
      BY <2>4, <2>5 DEF Settled, Readable
    <2> QED BY <2>1, <2>2, <2>6, NextFilePublished
  <1>11. CASE EndRun(c) \/ CompareStored(c) \/ CommitIngest(c)
              \/ DatabaseError(c) \/ EndReconcile(c) \/ Crash(c)
    BY <1>3, <1>11 DEF EndRun, CompareStored, CommitIngest, DatabaseError, EndReconcile, Crash
  <1>12. CASE LockRun(c) \/ ReconcileRun(c) \/ ReconcileRechecks(c) \/ ListRoot(c) \/ ReportPath(c)
    <2>1. /\ pc[c] \in {"runs", "run", "list", "paths"}
          /\ pc'[c] \in {"runs", "run", "list", "paths"} /\ UNCHANGED role
      BY <1>12, <1>t DEF LockRun, ReconcileRun, ReconcileRechecks, ListRoot, ReportPath, Goto
    <2> QED BY <1>4, <1>p, <2>1
  <1> QED
    BY <1>1, <1>5, <1>6, <1>7, <1>8, <1>9, <1>10, <1>11, <1>12 DEF OwnStep, Step

\* Responses are published whole.
LEMMA ResponseStep ==
  ASSUME TypeOK, [Next]_vars, damages' = 0, NEW x \in Rechecks, Response(x)
  PROVE  Response(x)'
  <1> USE DEF TypeOK
  <1> DEFINE f == <<x, "response">>
             Same == /\ f \in twin' => f \in twin
                     /\ file'[f] = file[f] /\ (x \in dirs' <=> x \in dirs)
  <1>f. f \in Files /\ x \notin Runs /\ file \in [Files -> Bytes] /\ damages \in Nat
    BY RunAssumption DEF Files, StoreTypeOK
  <1>s. Same => Response(x)'
    BY DEF Response
  <1>1. CASE UNCHANGED vars
    BY <1>1, <1>s DEF vars, disk
  <1>2. ASSUME NEW c \in Callers, MakeDirectory(c) \/ CheckFile(c) PROVE Same
    <2>1. Target(c) # x
      BY <1>2, <1>f DEF MakeDirectory, CheckFile, CallerTypeOK, Target, RunPcs, TxPcs, PublishPcs
    <2> QED BY <1>2, <2>1 DEF MakeDirectory, CheckFile
  <1>3. ASSUME NEW c \in Callers, LinkFile(c) \/ UnlinkTemporary(c) PROVE Same
    <2>1. FileAt(c) # f
      BY <1>3, <1>f DEF LinkFile, UnlinkTemporary, CallerTypeOK, Target, RunPcs, TxPcs, PublishPcs,
                        FileAt
    <2> QED BY <1>3, <1>f, <2>1 DEF LinkFile, UnlinkTemporary
  <1>4. ASSUME NEW y \in Rechecks, PublishResponse(y) PROVE Response(x)'
    <2>1. CASE y = x
      BY <1>4, <1>f, <2>1 DEF PublishResponse, Response
    <2>2. CASE y # x
      BY <1>4, <1>f, <2>2 DEF PublishResponse, Response
    <2> QED BY <2>1, <2>2
  <1>5. ASSUME NEW g \in Files, Damage(g) PROVE FALSE
    BY <1>5, <1>f DEF Damage
  <1>6. ASSUME NEW c \in Callers,
               \/ StartImport(c) \/ StartScan(c) \/ BeginReconcile(c)
               \/ BeginImport(c) \/ BeginScan(c) \/ EndRun(c) \/ ReconcileRun(c)
               \/ Scan(c) \/ OpenIngest(c) \/ CompareStored(c) \/ CommitIngest(c)
        PROVE  Same
    BY <1>6 DEF StartImport, StartScan, Start, BeginReconcile, BeginImport, BeginScan,
                EndRun, ReconcileRun, Scan, OpenIngest, CompareStored, CommitIngest, disk
  <1>7. ASSUME NEW c \in Callers,
               \/ LockRun(c) \/ ReconcileRechecks(c) \/ ListRoot(c) \/ ReportPath(c)
               \/ EndReconcile(c) \/ DatabaseError(c) \/ Crash(c) \/ LoseSession(c)
        PROVE  Same
    BY <1>7 DEF LockRun, ReconcileRechecks, ListRoot, ReportPath, EndReconcile, DatabaseError,
                Crash, LoseSession, disk
  <1>8. ASSUME \/ \E r \in Runs : InterruptPlanned(r)
               \/ \E y \in Rechecks : CommitResponse(y)
        PROVE  Same
    BY <1>8 DEF InterruptPlanned, CommitResponse, disk
  <1> QED BY <1>s, <1>1, <1>2, <1>3, <1>4, <1>5, <1>6, <1>7, <1>8 DEF Next, Step

\* Rows of responses are written by the commit of a recheck only.
LEMMA WhoWritesResponses ==
  ASSUME TypeOK, [Next]_vars, NEW x \in Rechecks,
         artifact'[<<x, "response">>] # artifact[<<x, "response">>]
  PROVE  /\ x \in dirs /\ artifact[<<x, "response">>] = Absent
         /\ artifact'[<<x, "response">>] = Plain /\ UNCHANGED disk
  <1> DEFINE f == <<x, "response">>
  <1>f. f \in Files /\ x \notin Runs
    BY RunAssumption DEF Files
  <1>t. artifact \in [Files -> Bytes]
    BY DEF TypeOK, StoreTypeOK
  <1>1. CASE UNCHANGED vars
    BY <1>1 DEF vars, rows
  <1>2. ASSUME NEW c \in Callers, CommitIngest(c) PROVE FALSE
    <2>1. Target(c) \in Runs
      BY <1>2 DEF TypeOK, CallerTypeOK, CommitIngest, Target, RunPcs, TxPcs, PublishPcs
    <2>2. f \notin FilesOf(Target(c))
      BY <1>f, <2>1 DEF FilesOf
    <2> QED BY <1>2, <1>f, <2>2 DEF CommitIngest
  <1>3. ASSUME NEW y \in Rechecks, PublishResponse(y) PROVE FALSE
    BY <1>3 DEF PublishResponse, rows
  <1>4. ASSUME NEW y \in Rechecks, CommitResponse(y)
        PROVE  x \in dirs /\ artifact[f] = Absent /\ artifact'[f] = Plain /\ UNCHANGED disk
    BY <1>4, <1>f, <1>t DEF CommitResponse
  <1>5. ASSUME NEW c \in Callers,
               \/ StartImport(c) \/ StartScan(c) \/ BeginReconcile(c)
               \/ BeginImport(c) \/ BeginScan(c) \/ EndRun(c) \/ ReconcileRun(c)
               \/ MakeDirectory(c) \/ Scan(c) \/ OpenIngest(c) \/ CompareStored(c)
               \/ CheckFile(c) \/ LinkFile(c) \/ UnlinkTemporary(c)
        PROVE  FALSE
    BY <1>5 DEF StartImport, StartScan, Start, BeginReconcile, BeginImport, BeginScan, InsertRow,
                EndRun, ReconcileRun, MakeDirectory, Scan, OpenIngest, CompareStored, CheckFile,
                LinkFile, UnlinkTemporary, rows
  <1>6. ASSUME NEW c \in Callers,
               \/ LockRun(c) \/ ReconcileRechecks(c) \/ ListRoot(c) \/ ReportPath(c)
               \/ EndReconcile(c) \/ DatabaseError(c) \/ Crash(c) \/ LoseSession(c)
        PROVE  FALSE
    BY <1>6 DEF LockRun, ReconcileRechecks, ListRoot, ReportPath, EndReconcile, DatabaseError,
                Crash, LoseSession, rows
  <1>7. ASSUME (\E q \in Runs : InterruptPlanned(q)) \/ (\E g \in Files : Damage(g))
        PROVE  FALSE
    BY <1>7 DEF InterruptPlanned, Damage, rows
  <1> QED BY <1>1, <1>2, <1>3, <1>4, <1>5, <1>6, <1>7 DEF Next, Step

\* Directories are not removed.
LEMMA DirectoriesStay ==
  ASSUME [Next]_vars
  PROVE  dirs \subseteq dirs'
  <1>1. CASE UNCHANGED vars
    BY <1>1 DEF vars, disk
  <1>2. ASSUME NEW c \in Callers,
               \/ StartImport(c) \/ StartScan(c) \/ BeginReconcile(c)
               \/ BeginImport(c) \/ BeginScan(c) \/ EndRun(c) \/ ReconcileRun(c)
        PROVE  dirs \subseteq dirs'
    BY <1>2 DEF StartImport, StartScan, Start, BeginReconcile, BeginImport, BeginScan, EndRun,
                ReconcileRun, disk
  <1>3. ASSUME NEW c \in Callers,
               \/ MakeDirectory(c) \/ Scan(c) \/ OpenIngest(c) \/ CompareStored(c)
               \/ CommitIngest(c) \/ CheckFile(c) \/ LinkFile(c) \/ UnlinkTemporary(c)
        PROVE  dirs \subseteq dirs'
    BY <1>3 DEF MakeDirectory, Scan, OpenIngest, CompareStored, CommitIngest, CheckFile, LinkFile,
                UnlinkTemporary, disk
  <1>4. ASSUME NEW c \in Callers,
               \/ LockRun(c) \/ ReconcileRechecks(c) \/ ListRoot(c) \/ ReportPath(c)
               \/ EndReconcile(c) \/ DatabaseError(c) \/ Crash(c) \/ LoseSession(c)
        PROVE  dirs \subseteq dirs'
    BY <1>4 DEF LockRun, ReconcileRechecks, ListRoot, ReportPath, EndReconcile, DatabaseError,
                Crash, LoseSession, disk
  <1>5. ASSUME \/ \E r \in Runs : InterruptPlanned(r)
               \/ \E x \in Rechecks : PublishResponse(x) \/ CommitResponse(x)
               \/ \E f \in Files : Damage(f)
        PROVE  dirs \subseteq dirs'
    BY <1>5 DEF InterruptPlanned, PublishResponse, CommitResponse, Damage, disk
  <1> QED BY <1>1, <1>2, <1>3, <1>4, <1>5 DEF Next, Step

LEMMA EvidencePublishedStep ==
  ASSUME TypeOK, IngestOwnsRun, Undamaged, [Next]_vars, damages' = 0
  PROVE  EvidencePublished'
  <1>0. damages = 0
    BY PublishedStays
  <1>1. SUFFICES ASSUME NEW f \in Files, artifact'[f] # Absent
                 PROVE  Readable(f)' /\ file'[f] = artifact'[f]
    BY DEF EvidencePublished
  <1>2. /\ artifact[f] # Absent => Readable(f) /\ file[f] = artifact[f]
        /\ \A c \in Callers : Published(c)
        /\ \A x \in Rechecks : Response(x)
    BY <1>0 DEF Undamaged, EvidencePublished
  <1>3. CASE f \in Runs \X Roles
    <2>1. PICK r \in Runs : f \in FilesOf(r)
      BY <1>3 DEF FilesOf
    <2>2. CASE artifact'[f] = artifact[f]
      BY <1>1, <1>2, <1>3, <2>2, PublishedStays DEF Readable
    <2>3. CASE artifact'[f] # artifact[f]
      <3>1. PICK c \in Callers : CommitIngest(c) /\ Target(c) = r
        BY <2>1, <2>3, WhoWritesEvidence
      <3>2. artifact'[f] = Content(c, f)
        BY <2>1, <3>1, CommitWrites
      <3>3. f = <<Target(c), "stdout">> \/ f = <<Target(c), "stderr">>
        BY <2>1, <3>1, FilesOfRun DEF Roles
      <3>4. Settled(c, f)
        BY <1>2, <3>1, <3>3 DEF Published, CommitIngest
      <3>5. UNCHANGED <<file, twin>>
        BY <3>1 DEF CommitIngest, disk
      <3> QED BY <3>2, <3>4, <3>5 DEF Settled, Readable
    <2> QED BY <2>2, <2>3
  <1>4. ASSUME NEW x \in Rechecks, f = <<x, "response">>
        PROVE  Readable(f)' /\ file'[f] = artifact'[f]
    <2>1. Response(x) /\ Response(x)'
      BY <1>2, ResponseStep
    <2>2. f \notin twin' /\ file'[f] = IF x \in dirs' THEN Plain ELSE Absent
      BY <1>4, <2>1 DEF Response
    <2>3. Plain # Absent
      BY BytesAssumption
    <2>4. CASE artifact'[f] = artifact[f]
      <3>1. Readable(f) /\ file[f] = artifact[f]
        BY <1>1, <1>2, <2>4
      <3>2. x \in dirs /\ file[f] = Plain
        BY <1>4, <2>1, <3>1 DEF Response, Readable
      <3>3. dirs \subseteq dirs'
        BY DirectoriesStay
      <3> QED BY <2>2, <2>3, <2>4, <3>1, <3>2, <3>3 DEF Readable
    <2>5. CASE artifact'[f] # artifact[f]
      <3>1. x \in dirs' /\ artifact'[f] = Plain
        BY <1>4, <2>5, WhoWritesResponses DEF disk
      <3> QED BY <2>2, <2>3, <3>1 DEF Readable
    <2> QED BY <2>4, <2>5
  <1> QED BY <1>3, <1>4 DEF Files

\* The files of committed rows are the bytes the rows describe, whatever callers published
\* at the same time, with or without their lock, and wherever they stopped.
THEOREM EvidenceIsPublished == Spec => []EvidencePublished
  <1>1. Init => Undamaged
    <2>1. SUFFICES ASSUME Init
                   PROVE  /\ EvidencePublished
                          /\ \A c \in Callers : Published(c)
                          /\ \A x \in Rechecks : Response(x)
      BY DEF Undamaged
    <2>2. EvidencePublished
      BY <2>1 DEF Init, EvidencePublished
    <2>3. \A c \in Callers : Published(c)
      BY <2>1 DEF Init, Published, PublishPcs
    <2>4. ASSUME NEW x \in Rechecks PROVE Response(x)
      BY <2>1, RunAssumption DEF Init, Response, Files
    <2> QED BY <2>2, <2>3, <2>4
  <1>2. TypeOK /\ IngestOwnsRun /\ Undamaged /\ [Next]_vars => Undamaged'
    <2>1. SUFFICES ASSUME TypeOK, IngestOwnsRun, Undamaged, [Next]_vars, damages' = 0
                   PROVE  /\ EvidencePublished'
                          /\ \A c \in Callers : Published(c)'
                          /\ \A x \in Rechecks : Response(x)'
      BY DEF Undamaged
    <2>2. damages = 0
      BY <2>1, PublishedStays
    <2>3. (\A c \in Callers : Published(c)) /\ (\A x \in Rechecks : Response(x))
      BY <2>1, <2>2 DEF Undamaged
    <2> QED BY <2>1, <2>3, EvidencePublishedStep, PublishedStep, ResponseStep
  <1>3. Undamaged => EvidencePublished
    BY DEF Undamaged, EvidencePublished
  <1> QED BY <1>1, <1>2, <1>3, HistoryTypeCorrect, CallersOwnTheirRuns, PTL DEF Spec
=============================================================================
