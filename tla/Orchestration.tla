--------------------------- MODULE Orchestration ---------------------------
(***************************************************************************)
(* The durable assessment worker of ScopeLens.  PostgreSQL rows hold the   *)
(* immutable plan of an assessment, its lifecycle and the lifecycle of     *)
(* every stage (orchestration/store.py).  Any thread of the API and any    *)
(* CLI process may call AssessmentWorker.run_one or .reconcile             *)
(* (orchestration/worker.py); a session advisory lock admits one of them.  *)
(*                                                                         *)
(* Steps are database statements at READ COMMITTED: a statement reads what *)
(* is committed, waits for a row another transaction has locked, and tests *)
(* its WHERE clause again once the row is free.  A transaction that writes *)
(* its only row in its last statement commits in that step; the two whose  *)
(* writes stay invisible while others can act (start_stage and             *)
(* reconcile_stale) have a step of their own for the commit.               *)
(***************************************************************************)
EXTENDS AssessmentPlan

CONSTANTS
  Workers,        \* threads and processes that call run_one or reconcile
  NoWorker,       \* nobody holds the worker lock
  MaxClaims,      \* bound: calls of run_one, each with a fresh token
  MaxFaults,      \* bound: crashes, uncaught exceptions, interrupts
  MaxLockLosses   \* bound: lock sessions that die while their holder lives

ASSUME WorkerAssumption == NoWorker \notin Workers
ASSUME BoundAssumption ==
  MaxClaims \in Nat /\ MaxFaults \in Nat /\ MaxLockLosses \in Nat

VARIABLES
  manifest,   \* assessment_manifests.status, "absent" before enqueue
  owner,      \* assessment_manifests.worker_token, 0 for NULL
  stage,      \* assessment_stages.status
  result,     \* stages whose result_run_id is set
  run,        \* runs.status of a stage's planned run, "none" without a row
  report,     \* stages with a recheck_reports row
  lock,       \* holder of the session advisory lock
  pc, at, token, outcome,   \* a worker's position, stage, token and pending verdict
  tx,         \* rows locked and rewritten by a worker's open reconcile_stale
  claims, faults, losses,   \* counters behind the three bounds
  launches    \* history: times a stage's scanner or recheck was executed

db    == <<manifest, owner, stage, result, run, report>>
bound == <<claims, faults, losses>>
local == <<lock, pc, at, token, outcome, tx>>
vars  == <<db, local, bound, launches>>

RunStatus == {"none", "running", "succeeded", "failed", "interrupted"}

NoStage == <<>>
NoTx == [manifests |-> {}, stages |-> {}, runs |-> {}]

ReconcilePcs == {"select", "stages", "runs", "commit"}
SkipPcs == {"skip", "skip_update"}
StartPcs == {"start", "start_commit"}
ScanPcs == {"begin", "begin_insert", "scan", "ingest"}
RecheckPcs == {"probe", "persist", "publish", "persist_update"}
FinishPcs == {"finish", "finish_update"}
FinalPcs == {"finalize", "finalize_update"}
StagePcs == SkipPcs \cup StartPcs \cup ScanPcs \cup RecheckPcs \cup {"cleanup"} \cup FinishPcs
\* Where `outcome` holds the verdict to be written.
VerdictPcs == {"persist", "publish", "persist_update", "finalize_update"} \cup FinishPcs
Pcs == {"idle", "claim"} \cup ReconcilePcs \cup StagePcs \cup FinalPcs

Tx == [manifests : SUBSET Assessments, stages : SUBSET StageIds, runs : SUBSET StageIds]

Outcomes == Closed \cup {"none"}
Positions == Assessments \X Nat

DataTypeOK ==
  /\ manifest \in [Assessments -> ManifestStatus]
  /\ owner \in [Assessments -> Nat]
  /\ stage \in [StageIds -> StageStatus]
  /\ result \in SUBSET StageIds
  /\ run \in [StageIds -> RunStatus]
  /\ report \in SUBSET StageIds
  /\ claims \in Nat /\ faults \in Nat /\ losses \in Nat
  /\ launches \in [StageIds -> Nat]

LocalTypeOK ==
  /\ lock \in Workers \cup {NoWorker}
  /\ pc \in [Workers -> Pcs]
  /\ at \in [Workers -> Positions \cup {NoStage}]
  /\ token \in [Workers -> Nat]
  /\ outcome \in [Workers -> Outcomes]
  /\ tx \in [Workers -> Tx]
  /\ \A w \in Workers :
       /\ pc[w] \in StagePcs => at[w] \in StageIds
       /\ pc[w] \in FinalPcs => at[w] \in Positions
       /\ pc[w] \in VerdictPcs => outcome[w] \in Closed

\* The rows have the values the schema's CHECKs allow, and a worker that handles
\* or finalizes a stage is at a stage or position of the plan and has a verdict
\* when it is about to write one.
TypeOK == DataTypeOK /\ LocalTypeOK

Init ==
  /\ manifest = [a \in Assessments |-> "absent"]
  /\ owner = [a \in Assessments |-> 0]
  /\ stage = [x \in StageIds |-> "pending"]
  /\ result = {} /\ report = {}
  /\ run = [x \in StageIds |-> "none"]
  /\ lock = NoWorker
  /\ pc = [w \in Workers |-> "idle"]
  /\ at = [w \in Workers |-> NoStage]
  /\ token = [w \in Workers |-> 0]
  /\ outcome = [w \in Workers |-> "none"]
  /\ tx = [w \in Workers |-> NoTx]
  /\ claims = 0 /\ faults = 0 /\ losses = 0
  /\ launches = [x \in StageIds |-> 0]

-----------------------------------------------------------------------------
(* Rows locked by another worker's open transaction, and shared shapes.    *)

\* Mutant of ManifestLocked: the SELECT of reconcile_stale lacks FOR UPDATE.
ManifestNeverLocked(w, a) == FALSE

ManifestLocked(w, a) == \E v \in Workers \ {w} : a \in tx[v].manifests
RunLocked(x) == \E v \in Workers : x \in tx[v].runs
StageLocked(w, x) ==
  \E v \in Workers \ {w} : x \in tx[v].stages \/ (pc[v] = "start_commit" /\ at[v] = x)

\* Mutant of Owns: the token is not compared.
OwnsUnchecked(w) == TRUE

\* SELECT worker_token ... WHERE status = 'running', compared with the caller's.
Owns(w) == manifest[at[w][1]] = "running" /\ owner[at[w][1]] = token[w]

Goto(w, label) == pc' = [pc EXCEPT ![w] = label]
Decide(w, verdict) == outcome' = [outcome EXCEPT ![w] = verdict]

\* run_one or reconcile returns or raises: open transactions roll back and the
\* advisory lock is released if this session still holds it.
Leave(w) ==
  /\ Goto(w, "idle")
  /\ lock' = IF lock = w THEN NoWorker ELSE lock
  /\ at' = [at EXCEPT ![w] = NoStage]
  /\ token' = [token EXCEPT ![w] = 0]
  /\ Decide(w, "none")
  /\ tx' = [tx EXCEPT ![w] = NoTx]

\* Mutant of Entry: the loop visits one position past the last stage.
EntryOverrun(x) ==
  IF x[2] > Len(Plan[x[1]]) + 1 THEN "finalize"
  ELSE IF x \in StageIds /\ KindOf(x) = "skip" THEN "skip" ELSE "start"

\* The head of run_one's loop over manifest.stages.
Entry(x) ==
  IF x[2] > Len(Plan[x[1]]) THEN "finalize"
  ELSE IF KindOf(x) = "skip" THEN "skip" ELSE "start"

Visit(w, x) ==
  /\ at' = [at EXCEPT ![w] = x]
  /\ Goto(w, Entry(x))
  /\ Decide(w, "none")

NextStage(w) == Visit(w, <<at[w][1], at[w][2] + 1>>)

\* Mutant of LinkResult: only the run of a successful scan is linked.
LinkSucceeded(x) == IF run[x] = "succeeded" THEN result \cup {x} ELSE result

\* _run_exists: the planned run is linked as the stage's result once its row exists.
LinkResult(x) == IF run[x] # "none" THEN result \cup {x} ELSE result

\* An exception a stage handler catches: the stage is to be finished as `verdict`.
Conclude(w, verdict) == Goto(w, "finish") /\ Decide(w, verdict)

-----------------------------------------------------------------------------
(* Creating an assessment, and taking the worker lock.                     *)

Enqueue(a) ==
  /\ manifest[a] = "absent"
  /\ manifest' = [manifest EXCEPT ![a] = "pending"]
  /\ UNCHANGED <<owner, stage, result, run, report, local, bound, launches>>

\* Mutant of TakeLock: the result of the try-lock is ignored.
TakeLockIgnored(w) ==
  /\ pc[w] = "idle"
  /\ lock' = IF lock = NoWorker THEN w ELSE lock
  /\ Goto(w, "select")
  /\ UNCHANGED <<db, at, outcome, tx, faults, losses, launches>>

\* Both entry points start with the try-lock and reconcile_stale; a caller that
\* fails the try-lock raises "already running" and changes nothing.
TakeLock(w) ==
  /\ pc[w] = "idle" /\ lock = NoWorker
  /\ lock' = w
  /\ Goto(w, "select")
  /\ UNCHANGED <<db, at, outcome, tx, faults, losses, launches>>

BeginRunOne(w) ==
  /\ TakeLock(w)
  /\ claims < MaxClaims
  /\ claims' = claims + 1
  /\ token' = [token EXCEPT ![w] = claims + 1]

BeginReconcile(w) == TakeLock(w) /\ UNCHANGED <<claims, token>>

-----------------------------------------------------------------------------
(* reconcile_stale: one transaction of several statements.                 *)

\* SELECT id FROM assessment_manifests WHERE status = 'running' FOR UPDATE.
SelectRows(w, rows) ==
  /\ pc[w] = "select"
  /\ \A a \in rows : ~ManifestLocked(w, a)
  /\ tx' = [tx EXCEPT ![w].manifests = rows]
  /\ Goto(w, "stages")
  /\ UNCHANGED <<db, lock, at, token, outcome, bound, launches>>

\* Mutant of SelectRunning: a worker looks only for what it claimed itself.
SelectOwn(w) ==
  SelectRows(w, {a \in Assessments : manifest[a] = "running" /\ owner[a] = token[w]})

SelectRunning(w) == SelectRows(w, {a \in Assessments : manifest[a] = "running"})

\* The stages of the selected manifests in `rows` will be interrupted.
InterruptRows(w, rows) ==
  /\ pc[w] = "stages"
  /\ \A x \in rows : ~StageLocked(w, x)
  /\ tx' = [tx EXCEPT ![w].stages = rows]
  /\ Goto(w, "runs")
  /\ UNCHANGED <<db, lock, at, token, outcome, bound, launches>>

StagesWith(w, states) == {x \in StageIds : x[1] \in tx[w].manifests /\ stage[x] \in states}

\* Mutants of InterruptStages: pending stages are interrupted as well; only stages
\* whose run is running are found.
InterruptPendingToo(w) == InterruptRows(w, StagesWith(w, {"running", "pending"}))
InterruptWithRun(w) ==
  InterruptRows(w, {x \in StagesWith(w, {"running"}) : run[x] = "running"})

InterruptStages(w) == InterruptRows(w, StagesWith(w, {"running"}))

\* The runs planned by any stage of the selected manifests, whatever its status.
InterruptRuns(w) ==
  /\ pc[w] = "runs"
  /\ LET rows == {x \in StageIds : x[1] \in tx[w].manifests /\ run[x] = "running"} IN
       /\ \A x \in rows : ~RunLocked(x)
       /\ tx' = [tx EXCEPT ![w].runs = rows]
  /\ Goto(w, "commit")
  /\ UNCHANGED <<db, lock, at, token, outcome, bound, launches>>

\* assessment-reconcile is done; run_one goes on to claim.
EndReconcile(w) ==
  IF token[w] = 0
    THEN Leave(w)
    ELSE /\ Goto(w, "claim")
         /\ tx' = [tx EXCEPT ![w] = NoTx]
         /\ UNCHANGED <<lock, at, token, outcome>>

\* Mutant of CommitReconcile: abandoned work is rolled back to be replayed.
CommitRequeue(w) ==
  /\ pc[w] = "commit"
  /\ manifest' = [a \in Assessments |->
                    IF a \in tx[w].manifests THEN "pending" ELSE manifest[a]]
  /\ stage' = [x \in StageIds |-> IF x \in tx[w].stages THEN "pending" ELSE stage[x]]
  /\ run' = [x \in StageIds |-> IF x \in tx[w].runs THEN "none" ELSE run[x]]
  /\ EndReconcile(w)
  /\ UNCHANGED <<owner, result, report, bound, launches>>

\* The last UPDATE, on the manifests, and the commit that publishes all three.
CommitReconcile(w) ==
  /\ pc[w] = "commit"
  /\ manifest' = [a \in Assessments |->
                    IF a \in tx[w].manifests THEN "interrupted" ELSE manifest[a]]
  /\ owner' = [a \in Assessments |-> IF a \in tx[w].manifests THEN 0 ELSE owner[a]]
  /\ stage' = [x \in StageIds |-> IF x \in tx[w].stages THEN "interrupted" ELSE stage[x]]
  /\ run' = [x \in StageIds |-> IF x \in tx[w].runs THEN "interrupted" ELSE run[x]]
  /\ EndReconcile(w)
  /\ UNCHANGED <<result, report, bound, launches>>

-----------------------------------------------------------------------------
(* claim, and the loop of run_one over the stages.                         *)

\* The requested assessment or the oldest pending one: any that is pending.
Claim(w) ==
  /\ pc[w] = "claim"
  /\ \E a \in Assessments :
       /\ manifest[a] = "pending"
       /\ manifest' = [manifest EXCEPT ![a] = "running"]
       /\ owner' = [owner EXCEPT ![a] = token[w]]
       /\ Visit(w, <<a, 1>>)
  /\ UNCHANGED <<stage, result, run, report, lock, token, tx, bound, launches>>

\* Nothing is pending, or the requested assessment is not.
ClaimNothing(w) ==
  /\ pc[w] = "claim"
  /\ \E a \in Assessments : manifest[a] # "pending"
  /\ Leave(w)
  /\ UNCHANGED <<db, bound, launches>>

\* skip_stage: the owner is read first, the row updated by a second statement.
CheckSkip(w) ==
  /\ pc[w] = "skip"
  /\ \/ Owns(w) /\ Goto(w, "skip_update") /\ UNCHANGED <<lock, at, token, outcome, tx>>
     \/ ~Owns(w) /\ Leave(w)
  /\ UNCHANGED <<db, bound, launches>>

SkipStage(w) ==
  /\ pc[w] = "skip_update" /\ ~StageLocked(w, at[w])
  /\ \/ /\ stage[at[w]] = "pending"
        /\ stage' = [stage EXCEPT ![at[w]] = "skipped"]
        /\ NextStage(w)
        /\ UNCHANGED <<lock, token, tx>>
     \/ stage[at[w]] # "pending" /\ Leave(w) /\ UNCHANGED stage
  /\ UNCHANGED <<manifest, owner, result, run, report, bound, launches>>

\* start_stage: one UPDATE that reads the token in a subquery without locking the
\* manifest row; the new status is not visible before the commit.
StartStage(w) ==
  /\ pc[w] = "start" /\ ~StageLocked(w, at[w])
  /\ LET matched == stage[at[w]] = "pending" /\ owner[at[w][1]] = token[w] IN
       \/ matched /\ Goto(w, "start_commit") /\ UNCHANGED <<lock, at, token, outcome, tx>>
       \/ ~matched /\ Leave(w)
  /\ UNCHANGED <<db, bound, launches>>

CommitStart(w) ==
  /\ pc[w] = "start_commit"
  /\ stage' = [stage EXCEPT ![at[w]] = "running"]
  /\ Goto(w, IF KindOf(at[w]) = "recheck" THEN "probe" ELSE "begin")
  /\ UNCHANGED <<manifest, owner, result, run, report, lock, at, token, outcome, tx>>
  /\ UNCHANGED <<bound, launches>>

-----------------------------------------------------------------------------
(* _scanner_stage and the scan_history it calls.                           *)

\* history.begin reads the reservation without locking it.  If it is not running,
\* or the command or the run's own lock is refused, the stage fails.
BeginRun(w) ==
  /\ pc[w] = "begin"
  /\ \/ /\ stage[at[w]] = "running" /\ run[at[w]] = "none"
        /\ Goto(w, "begin_insert") /\ UNCHANGED outcome
     \/ Conclude(w, "failed")
  /\ UNCHANGED <<db, lock, at, token, tx, bound, launches>>

\* The run is inserted and committed, and the scanner starts.
InsertRun(w) ==
  /\ pc[w] = "begin_insert"
  /\ run' = [run EXCEPT ![at[w]] = "running"]
  /\ launches' = [launches EXCEPT ![at[w]] = @ + 1]
  /\ Goto(w, "scan")
  /\ UNCHANGED <<manifest, owner, stage, result, report>>
  /\ UNCHANGED <<lock, at, token, outcome, tx, bound>>

\* _finish: UPDATE runs ... WHERE status = 'running'.
EndRun(x, status) ==
  /\ ~RunLocked(x)
  /\ run' = IF run[x] = "running" THEN [run EXCEPT ![x] = status] ELSE run

Scan(w) ==
  /\ pc[w] = "scan"
  /\ \/ Goto(w, "ingest") /\ UNCHANGED <<run, outcome>>
     \/ EndRun(at[w], "failed") /\ Conclude(w, "failed")
  /\ UNCHANGED <<manifest, owner, stage, result, report, lock, at, token, tx>>
  /\ UNCHANGED <<bound, launches>>

\* One transaction under the run's row lock.  An error it reports leaves the run as it is
\* and fails the stage; the report is parsed before the run's status is looked at, and
\* ReportParseError is caught by nobody.
Ingest(w) ==
  /\ pc[w] = "ingest" /\ ~RunLocked(at[w])
  /\ \/ /\ run[at[w]] = "running"
        /\ run' = [run EXCEPT ![at[w]] = "succeeded"]
        /\ Goto(w, "cleanup")
        /\ UNCHANGED <<lock, at, token, outcome, tx>>
     \/ Conclude(w, "failed") /\ UNCHANGED <<run, lock, at, token, tx>>
     \/ Leave(w) /\ UNCHANGED run
  /\ UNCHANGED <<manifest, owner, stage, result, report, bound, launches>>

\* `history reconcile`, of any process, ends a run that nobody works on: it takes
\* the run's own session lock, which scan_history holds while it scans.
ReconcileRun(x) ==
  /\ run[x] = "running"
  /\ ~\E w \in Workers : at[w] = x /\ pc[w] \in {"scan", "ingest"}
  /\ EndRun(x, "interrupted")
  /\ UNCHANGED <<manifest, owner, stage, result, report, local, bound, launches>>

-----------------------------------------------------------------------------
(* _recheck_stage and persist_recheck.                                     *)

\* recheck_web returns a report, complete or not, or raises.
Probe(w) ==
  /\ pc[w] = "probe"
  /\ launches' = [launches EXCEPT ![at[w]] = @ + 1]
  /\ \/ Goto(w, "persist") /\ \E verdict \in {"completed", "failed"} : Decide(w, verdict)
     \/ Conclude(w, "failed")
  /\ UNCHANGED <<db, lock, at, token, tx, bound>>

\* What PlannedStage and AssessmentManifest accept when the rows are loaded.
ManifestValid(a) ==
  LET states == {stage[x] : x \in StagesOf(a)} IN
    CASE manifest[a] = "pending" -> states \subseteq {"pending"}
      [] manifest[a] = "running" -> owner[a] # 0
      [] manifest[a] = "completed" -> states \subseteq {"completed", "skipped"}
      [] manifest[a] = "failed" ->
           "failed" \in states /\ states \subseteq {"completed", "failed", "skipped"}
      [] manifest[a] = "interrupted" -> "interrupted" \in states /\ "running" \notin states
      [] OTHER -> TRUE

\* get(), then the owner and the stage read outside the writing transaction.
CheckPersist(w) ==
  /\ pc[w] = "persist"
  /\ IF ManifestValid(at[w][1]) /\ Owns(w) /\ stage[at[w]] = "running"
       THEN Goto(w, "publish") /\ UNCHANGED outcome
       ELSE Conclude(w, "failed")
  /\ UNCHANGED <<db, lock, at, token, tx, bound, launches>>

\* Response files are published, then the writing transaction reads the owner.
PublishRecheck(w) ==
  /\ pc[w] = "publish"
  /\ \/ Owns(w) /\ Goto(w, "persist_update") /\ UNCHANGED outcome
     \/ Conclude(w, "failed")
  /\ UNCHANGED <<db, lock, at, token, tx, bound, launches>>

\* Mutant of PersistRecheck: the report is stored whatever the stage has become.
PersistUnchecked(w) ==
  /\ pc[w] = "persist_update" /\ ~StageLocked(w, at[w])
  /\ report' = report \cup {at[w]}
  /\ stage' = IF stage[at[w]] = "running" THEN [stage EXCEPT ![at[w]] = outcome[w]] ELSE stage
  /\ Goto(w, "cleanup")
  /\ UNCHANGED <<manifest, owner, result, run, outcome, lock, at, token, tx>>
  /\ UNCHANGED <<bound, launches>>

\* Report, artifact rows and stage change commit together or not at all.
PersistRecheck(w) ==
  /\ pc[w] = "persist_update" /\ ~StageLocked(w, at[w])
  /\ IF stage[at[w]] = "running"
       THEN /\ report' = report \cup {at[w]}
            /\ stage' = [stage EXCEPT ![at[w]] = outcome[w]]
            /\ Goto(w, "cleanup") /\ UNCHANGED outcome
       ELSE Conclude(w, "failed") /\ UNCHANGED <<report, stage>>
  /\ UNCHANGED <<manifest, owner, result, run, lock, at, token, tx, bound, launches>>

\* Capture or staging files are removed; failures there are only warnings.
CleanUp(w) ==
  /\ pc[w] = "cleanup"
  /\ IF KindOf(at[w]) = "scanner"
       THEN Conclude(w, "completed") /\ UNCHANGED at
       ELSE NextStage(w)
  /\ UNCHANGED <<db, lock, token, tx, bound, launches>>

-----------------------------------------------------------------------------
(* finish_stage and finalize.                                              *)

\* Mutant of CheckFinish: an error of finish_stage is swallowed by the loop.
CheckFinishSwallowed(w) ==
  /\ pc[w] = "finish"
  /\ \/ Owns(w) /\ Goto(w, "finish_update") /\ UNCHANGED <<at, outcome>>
     \/ NextStage(w)
  /\ UNCHANGED <<db, lock, token, tx, bound, launches>>

CheckFinish(w) ==
  /\ pc[w] = "finish"
  /\ \/ Owns(w) /\ Goto(w, "finish_update") /\ UNCHANGED <<lock, at, token, outcome, tx>>
     \/ ~Owns(w) /\ Leave(w)
  /\ UNCHANGED <<db, bound, launches>>

\* "interrupted" comes from the KeyboardInterrupt handler, which then re-raises
\* to run_one; run_one finalizes the assessment without visiting more stages.
FinishStage(w) ==
  /\ pc[w] = "finish_update" /\ ~StageLocked(w, at[w])
  /\ \/ /\ stage[at[w]] = "running"
        /\ stage' = [stage EXCEPT ![at[w]] = outcome[w]]
        /\ result' = LinkResult(at[w])
        /\ IF outcome[w] = "interrupted"
             THEN Goto(w, "finalize") /\ Decide(w, "none") /\ UNCHANGED at
             ELSE NextStage(w)
        /\ UNCHANGED <<lock, token, tx>>
     \/ stage[at[w]] # "running" /\ Leave(w) /\ UNCHANGED <<stage, result>>
  /\ UNCHANGED <<manifest, owner, run, report, bound, launches>>

CheckFinalize(w) ==
  /\ pc[w] = "finalize"
  /\ LET states == {stage[x] : x \in StagesOf(at[w][1])} IN
       IF Owns(w) /\ ~Unfinished(states)
         THEN /\ Goto(w, "finalize_update")
              /\ Decide(w, Verdict(states))
              /\ UNCHANGED <<lock, at, token, tx>>
         ELSE Leave(w)
  /\ UNCHANGED <<db, bound, launches>>

\* UPDATE ... WHERE status = 'running' AND worker_token = token.
Finalize(w) ==
  /\ pc[w] = "finalize_update" /\ ~ManifestLocked(w, at[w][1])
  /\ LET a == at[w][1] IN
       \/ /\ Owns(w)
          /\ manifest' = [manifest EXCEPT ![a] = outcome[w]]
          /\ owner' = [owner EXCEPT ![a] = 0]
       \/ ~Owns(w) /\ UNCHANGED <<manifest, owner>>
  /\ Leave(w)
  /\ UNCHANGED <<stage, result, run, report, bound, launches>>

-----------------------------------------------------------------------------
(* Faults.                                                                 *)

\* The process dies, or an exception nobody catches (a database error such as a
\* lock timeout among them, and KeyboardInterrupt before run_one's try or in
\* finalize) leaves run_one or reconcile at once.
Crash(w) ==
  /\ pc[w] # "idle" /\ faults < MaxFaults
  /\ faults' = faults + 1
  /\ Leave(w)
  /\ UNCHANGED <<db, claims, losses, launches>>

\* KeyboardInterrupt while a scanner or recheck is being handled: the handler
\* finishes the stage.  scan_history ends the run too, but only when the signal
\* finds it waiting for the scanner.
CancelStage(w) ==
  /\ \/ pc[w] \in ScanPcs \cup RecheckPcs
     \/ pc[w] = "cleanup" /\ KindOf(at[w]) = "scanner"
  /\ faults < MaxFaults
  /\ faults' = faults + 1
  /\ \/ pc[w] = "scan" /\ EndRun(at[w], "interrupted")
     \/ UNCHANGED run
  /\ Conclude(w, "interrupted")
  /\ UNCHANGED <<manifest, owner, stage, result, report, lock, at, token, tx>>
  /\ UNCHANGED <<claims, losses, launches>>

\* KeyboardInterrupt elsewhere inside run_one's try: straight to its finalize.
CancelLoop(w) ==
  /\ \/ pc[w] \in SkipPcs \cup StartPcs \cup FinishPcs
     \/ pc[w] = "cleanup" /\ KindOf(at[w]) = "recheck"
  /\ faults < MaxFaults
  /\ faults' = faults + 1
  /\ Goto(w, "finalize") /\ Decide(w, "none")
  /\ UNCHANGED <<db, lock, at, token, tx, claims, losses, launches>>

\* The lock lives on a connection of its own.  When that session ends the lock
\* is free although its holder still runs, fenced only by its token.
LoseLock(w) ==
  /\ lock = w /\ losses < MaxLockLosses
  /\ losses' = losses + 1
  /\ lock' = NoWorker
  /\ UNCHANGED <<db, pc, at, token, outcome, tx, claims, faults, launches>>

-----------------------------------------------------------------------------
Reconcile(w) ==
  SelectRunning(w) \/ InterruptStages(w) \/ InterruptRuns(w) \/ CommitReconcile(w)

Work(w) ==
  \/ Claim(w) \/ ClaimNothing(w)
  \/ CheckSkip(w) \/ SkipStage(w) \/ StartStage(w) \/ CommitStart(w)
  \/ BeginRun(w) \/ InsertRun(w) \/ Scan(w) \/ Ingest(w)
  \/ Probe(w) \/ CheckPersist(w) \/ PublishRecheck(w) \/ PersistRecheck(w)
  \/ CleanUp(w) \/ CheckFinish(w) \/ FinishStage(w)
  \/ CheckFinalize(w) \/ Finalize(w)

Fault(w) == Crash(w) \/ CancelStage(w) \/ CancelLoop(w) \/ LoseLock(w)

Next ==
  \/ \E a \in Assessments : Enqueue(a)
  \/ \E x \in StageIds : ReconcileRun(x)
  \/ \E w \in Workers :
       BeginRunOne(w) \/ BeginReconcile(w) \/ Reconcile(w) \/ Work(w) \/ Fault(w)

Spec == Init /\ [][Next]_vars

\* A started call makes progress: its thread is scheduled, scanners and probes are
\* bounded by timeouts, and row locks are released by commits.  Operators keep
\* calling assessment-reconcile (or the API's reconcile) while the lock is free.
Fairness ==
  /\ \A w \in Workers : WF_vars(Reconcile(w) \/ Work(w))
  /\ WF_vars(\E w \in Workers : BeginReconcile(w))

FairSpec == Spec /\ Fairness

-----------------------------------------------------------------------------
(* Safety.                                                                 *)

\* The rows an open reconcile_stale has locked stay as it found them until it
\* commits, and no two open transactions share one: every writer of a running
\* manifest, stage or run waits for the row or finds it changed.
RowLocksHold ==
  /\ \A w \in Workers :
       /\ pc[w] \notin {"stages", "runs", "commit"} => tx[w] = NoTx
       /\ \A a \in tx[w].manifests : manifest[a] = "running"
       /\ \A x \in tx[w].stages : stage[x] = "running" /\ x[1] \in tx[w].manifests
       /\ \A x \in tx[w].runs : run[x] = "running" /\ x[1] \in tx[w].manifests
  /\ \A v, w \in Workers : v # w => tx[v].manifests \cap tx[w].manifests = {}

\* A stage's scanner or recheck is executed at most once, whatever crashes,
\* reconciliations and lock losses happen: start_stage's UPDATE consumes the
\* pending row, and no recovery path makes it pending again.
LaunchedOnce == \A x \in StageIds : launches[x] <= 1

\* Why: between start_stage and the launch a worker is alone at its stage, and a
\* stage that is pending has not been launched; a run row shows that its stage was,
\* so that the insert of history.begin never finds one.
LaunchInv ==
  /\ \A w \in Workers : pc[w] = "start_commit" => stage[at[w]] = "pending"
  /\ \A w \in Workers : pc[w] \in {"begin", "begin_insert", "probe"} =>
       stage[at[w]] # "pending" /\ launches[at[w]] = 0
  /\ \A x \in StageIds : launches[x] = 0 => run[x] = "none"
  /\ \A v, w \in Workers :
       /\ v # w
       /\ pc[v] \in {"start_commit", "begin", "begin_insert", "probe"}
       /\ pc[w] \in {"start_commit", "begin", "begin_insert", "probe"}
       => at[v] # at[w]
  /\ \A x \in StageIds : stage[x] = "pending" => launches[x] = 0
  /\ LaunchedOnce

\* Stages are taken in plan order: a stage leaves "pending" only after every
\* earlier stage of its assessment has ended (run_one's loop, across workers).
StagesInOrder ==
  \A x, y \in StageIds :
    x[1] = y[1] /\ x[2] < y[2] /\ stage[y] # "pending" => stage[x] \in Ended

\* A completed stage has its evidence: the scanner's planned run succeeded and is
\* linked, the recheck's report is stored.  A stored report never belongs to a
\* stage that is still open, skipped or interrupted.
EvidenceBacksStages ==
  \A x \in StageIds :
    /\ stage[x] = "completed" =>
         IF KindOf(x) = "scanner" THEN run[x] = "succeeded" /\ x \in result ELSE x \in report
    /\ x \in report => stage[x] \in {"completed", "failed"}

\* The verdict finalize wrote agrees with the stages, although it was computed
\* from an earlier read: nothing failed, open or interrupted hides behind
\* "completed", and "failed" has a failed stage and no open one.
VerdictMatchesStages ==
  \A a \in Assessments :
    LET states == {stage[x] : x \in StagesOf(a)} IN
      /\ manifest[a] = "completed" => states \subseteq {"completed", "skipped"}
      /\ manifest[a] = "failed" =>
           "failed" \in states /\ states \subseteq {"completed", "failed", "skipped"}

\* Only a running assessment has a running stage: neither finalize nor
\* reconcile_stale closes an assessment over a stage it leaves running.
NoStageLeftRunning ==
  \A x \in StageIds : stage[x] = "running" => manifest[x[1]] = "running"

\* A run still "running" under a closed assessment is linked from its stage, so
\* that history reconciliation of that run can be traced to the assessment;
\* reconcile_stale leaves none behind among the runs it abandons.
NoOrphanRun ==
  \A x \in StageIds :
    run[x] = "running" /\ manifest[x[1]] \in Closed => x \in result

\* What a restart promises: an assessment that was closed can be loaded again.
\* AssessmentManifest rejects an interrupted one none of whose stages is
\* interrupted, which is what reconcile_stale makes of a worker that stopped
\* between two stages.
ClosedReadable ==
  \A a \in Assessments : manifest[a] \in Closed => ManifestValid(a)

\* load_assessment_report asks for the capture of every linked run, and
\* correlate_history refuses a selection with a run that did not succeed.
ReportLoads(a) == \A x \in StagesOf(a) \cap result : run[x] = "succeeded"

\* The evidence of completed stages can be reported when another stage failed.
CompletedEvidenceAvailable ==
  \A a \in Assessments :
    manifest[a] = "failed" /\ (\E x \in StagesOf(a) : stage[x] = "completed")
      => ReportLoads(a)

-----------------------------------------------------------------------------
(* Action properties.                                                      *)

\* Outcomes are final: no step, of a fenced worker or of a reconciliation racing
\* it, rewrites a closed assessment, an ended stage or a finished run.
OutcomesFinal ==
  [][/\ \A a \in Assessments : manifest[a] \in Closed => manifest'[a] = manifest[a]
     /\ \A x \in StageIds : stage[x] \in Ended => stage'[x] = stage[x]
     /\ \A x \in StageIds :
          run[x] \in {"succeeded", "failed", "interrupted"} => run'[x] = run[x]]_vars

\* While the lock outlives its holder, a closed assessment is frozen: not even a
\* pending stage or a report changes under it.
ClosedFrozen ==
  [][\A a \in Assessments : manifest[a] \in Closed =>
       \A x \in StagesOf(a) :
         stage'[x] = stage[x] /\ (x \in report' <=> x \in report)]_vars

-----------------------------------------------------------------------------
(* Refinement.                                                             *)

Lifecycle == INSTANCE AssessmentLifecycle

\* While the lock outlives its holder, the worker keeps the promise stated in
\* AssessmentLifecycle: one assessment at a time, stages in order and once, and
\* conclusions and reconciliations that are atomic for every reader.
ImplementsLifecycle == Lifecycle!Spec

-----------------------------------------------------------------------------
(* Liveness, under FairSpec.                                               *)

\* Work that was claimed is closed: by its worker, or by a later reconciliation
\* if the worker stopped on the way.
ClaimedWorkCloses ==
  \A a \in Assessments : manifest[a] = "running" ~> manifest[a] \in Closed

\* A started stage ends.
StartedStagesEnd ==
  \A x \in StageIds : stage[x] = "running" ~> stage[x] \in Ended
=============================================================================
