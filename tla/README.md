# ScopeLens in TLA+

ScopeLens runs reconnaissance tools (nmap, httpx, nuclei) and bounded web rechecks
against an authorised scope, keeps what they produced in PostgreSQL and in an
artifact directory, and reports and compares the evidence.  This directory holds
TLA+ models of the parts whose correctness depends on the order of steps, the TLC
configurations that check them and TLAPS proofs about them.

All source paths below are relative to `src/scopelens/` unless they start with
`docs/` or `frontend/`.

## 1. Inventory

| Part | Code | State it keeps | Operations that change it |
|---|---|---|---|
| Durable orchestration store | `orchestration/store.py`, `orchestration/models.py` | rows of `assessment_manifests`, `assessment_stages`, `recheck_reports`, `recheck_artifacts` | `enqueue`, `claim`, `start_stage`, `skip_stage`, `finish_stage`, `persist_recheck`, `finalize`, `reconcile_stale` |
| Assessment worker | `orchestration/worker.py` | its position in the plan, its token | `run_one`, `_scanner_stage`, `_recheck_stage`, `reconcile` |
| Locks | `storage/database.py` | PostgreSQL session advisory locks | `single_assessment_worker`, `locked_run` |
| Scan history | `storage/history.py`, `storage/operations.py` | rows of `runs`, `artifacts`, `observations` and their relatives | `begin`, `ingest`, `fail`/`interrupt` (`_finish`), `reconcile`, `import_history`, `scan_history` |
| Artifact store | `storage/artifacts.py` | files `<root>/<run>/<kind>` | `publish`, `read` |
| Stored reports, correlation of runs | `storage/reports.py`, `storage/correlation.py` | none | reads |
| Report export | `reporting/` | none | reads and renders |
| Scanner execution | `execution/` | a process group, two pipes, byte counters | `run_process` |
| Web recheck | `assessment/recheck.py`, `assessment/rules.py` | a socket and a deadline | `recheck_web`, `assess_*_recheck` |
| Comparison | `comparison/` | none | `compare_assessments` |
| Correlation of observations | `correlation/` | none | pure |
| Scanner adapters | `adapters/` | none | parse reports |
| Domain and scope | `domain/`, configuration | none | validate |
| HTTP API | `api/` | threads that call the worker | requests |
| Command line | `cli.py`, `storage/cli.py` | none | the same calls from other processes |
| Schema | `storage/schema.py`, migrations | CHECKs and foreign keys | - |
| Browser client | `frontend/` | the selected assessment, fetched answers | effects and callbacks |

How they interact.  The CLI and the API both create assessments (`enqueue`) and
both run them: `AssessmentWorker.run_one` takes the worker lock, closes whatever an
earlier worker left open (`reconcile_stale`), claims one assessment with a fresh
token and walks over its stages.  A scanner stage calls `scan_history`, which takes
a lock on the run, inserts the run (`begin`), executes the scanner and stores what
it found (`ingest`); a recheck stage calls `recheck_web` and `persist_recheck`.
Reports and comparisons read the rows and the files of finished runs.  The shared
state is the database and the artifact directory; there are no messages.

What is hard about it.

* Any number of processes and API threads call the same functions.  What keeps them
  apart is a *session* advisory lock on a connection of its own, the token in the
  manifest row, and the row locks and re-tested `WHERE` clauses of READ COMMITTED.
  The session of the lock can end (server restart, idle timeout, network) while its
  holder lives on.
* A worker can die, be interrupted or meet an uncaught exception between any two
  statements, after which a later worker has to tell abandoned work from live work.
* Ownership is often read in one statement and relied upon in a later one.
* Files are published before the transaction that refers to them commits.
* A scanner is a process group that may exceed its time or its output, fork, or
  survive its leader.

What makes each part correct:

* *Store and worker*: work is launched at most once; stages are taken in order;
  outcomes are final; a conclusion agrees with the stages it concludes; completed
  work has its evidence; abandoned work is closed, completely; a closed assessment
  can be read.
* *Scan history and artifacts*: a run succeeds only with its artifacts in place; a
  retry of an import succeeds with the same bytes and never replaces different ones;
  reconciliation never ends a live run and never calls referenced files unreferenced.
* *Scanner execution*: the call ends within its limits, and leaves no live process
  it could have stopped; a result is reported as success only if nothing went wrong.
* *Recheck*: no probe starts after the deadline, every planned one is accounted for.
* *Comparison*: a change is claimed only between compatible, ordered, healthy captures.

`PROJECT.json` lists the hazards of the code at their lines, each with the
properties that would catch it or the reason why none does.

## 2. Plan

Order of the work; the parts marked *done* are in this directory.

1. *done* `AssessmentPlan` (plan and verdicts), `AssessmentLifecycle` (abstract
   specification), `Orchestration` (store, worker, lock), `MCOrchestration`.
2. *done* `OrchestrationProofs`: typing, row locks, launched once, final outcomes;
   `OrchestrationStages`: order, evidence and verdicts, with or without the worker lock;
   `OrchestrationLock`: what the lock adds, and the refinement of `AssessmentLifecycle`.
3. *done* `RunRecord` (abstract specification: a run is a write-once record),
   `ScanHistory` (runs, the run lock and its loss, `begin`, `ingest`, imports and
   their retries, artifact publication, crashes, `history reconcile` with its report),
   `MCScanHistory`, `ScanHistoryProofs` (typing), `ScanHistorySafety` (ownership,
   evidence, answers, at most one scan, refinement) and `ScanHistoryAudit` (the report of
   `history reconcile`).
4. *done* `ScannerProcess` (`run_process` with a leader, a descendant, two readers,
   the timers and cancellation) and `ScannerCall` (the version check, the scan and what
   becomes of them), with the liveness of the call.
5. *done* `RecheckRules` (parser and rules), `WebRecheck` (the acquisition under its
   deadline), `CaptureAssessment` (claims about stored runs), `Comparison`, and
   `EvidenceHistory`, which composes them with scans and imports of a site that changes.
   `ScannerCallProofs` and `EvidenceHistoryProofs` prove about both parts.
6. Composition: the `begin`/`scan`/`ingest` steps of `Orchestration` replaced by
   those of `ScanHistory`, at least as a refinement of the former.
7. The two ordering hazards of the browser client, last.

Every invariant and every action property the passing runs check is a theorem.  What is
left to prove comes with what is left to model: the composition of item 6 as a refinement,
and the counterparts for new parts.

## 3. Modules

### AssessmentPlan

The constants `Assessments` and `Plan` (the kinds of an assessment's stages, in
order: `"scanner"` for nmap, httpx and nuclei, `"recheck"`, and `"skip"` for any
stage planned with a `skip_reason`), the status sets of the schema, and `Verdict`,
how `finalize` sums up stages.

### AssessmentLifecycle

The abstract specification: what a reader of the rows sees of an assessment when
the worker lock does its work.  One assessment runs at a time; stages are taken in
order, once; a closed assessment was either concluded over its stages or abandoned
together with its running stage, atomically.

### Orchestration

| State | Code |
|---|---|
| `manifest`, `owner` | `assessment_manifests.status`, `.worker_token` (tokens are the numbers of the claims; the code draws UUIDs) |
| `stage`, `result` | `assessment_stages.status`, whether `.result_run_id` is set |
| `run` | `runs.status` of the run a stage planned |
| `report` | existence of the `recheck_reports` row |
| `lock` | holder of the session advisory lock of `single_assessment_worker` |
| `pc`, `at`, `token`, `outcome` | where a worker is in `run_one`/`reconcile`, its stage, its token, the status it is about to write |
| `tx` | rows locked and rewritten by a worker's uncommitted `reconcile_stale` |
| `claims`, `faults`, `losses` | counters of the bounds |
| `launches` | history variable: how often a stage's work was executed |

One action is one database statement, or the part of a handler between two of them.
A statement sees what is committed; it waits (its action is disabled) while
another transaction holds a row it writes, and afterwards tests its `WHERE` clause
on the new row, which is what evaluating the guard at that time does.  A
transaction with a single write that is its last statement commits in that action.
`start_stage` and `reconcile_stale` have a separate commit, because another actor
can act between their write and its visibility: `start_stage` reads the manifest
in a subquery that locks nothing, and `reconcile_stale` issues four statements.

| Actions | Code |
|---|---|
| `Enqueue` | `store.enqueue` |
| `BeginRunOne`, `BeginReconcile` | the try-lock both entry points start with |
| `SelectRunning`, `InterruptStages`, `InterruptRuns`, `CommitReconcile` | the statements of `reconcile_stale` |
| `Claim`, `ClaimNothing` | `store.claim` |
| `CheckSkip`, `SkipStage` | `store.skip_stage` |
| `StartStage`, `CommitStart` | `store.start_stage` |
| `BeginRun`, `InsertRun`, `Scan`, `Ingest` | `_scanner_stage`, `scan_history`, `history.begin`, `_finish`, `ingest` |
| `ReconcileRun` | `history.reconcile` of another process, for one run |
| `Probe`, `CheckPersist`, `PublishRecheck`, `PersistRecheck` | `_recheck_stage`, `persist_recheck` |
| `CleanUp` | removal of captures and staging files |
| `CheckFinish`, `FinishStage` | `store.finish_stage` |
| `CheckFinalize`, `Finalize` | `store.finalize` |
| `Crash` | death of the process, or an exception that leaves the call |
| `CancelStage`, `CancelLoop` | `KeyboardInterrupt` inside a stage handler, and elsewhere in `run_one`'s `try` |
| `LoseLock` | the lock's session ends while its holder goes on |

What is abstracted, and in which direction:

* Requests, scopes, arguments, timestamps, deadlines and report contents are data.
  A scanner or probe may succeed or fail at will.
* A claim takes any pending assessment: the code takes the requested one or the
  oldest, and which of these a caller asked for is not modelled.
* Reads of several statements whose result is tested again by a later statement
  (the reads of `persist_recheck` and `finalize`) are one step.
* `reconcile_stale` may, in the code, also abort on the CHECK
  `finished_at >= started_at` when it began before a fenced worker started the
  stage.  The model lets it commit; the aborted one is `Crash`.
* `Leave` frees the worker lock whenever a call ends.  `single_assessment_worker`
  (`storage/database.py:70-81`) does not invalidate its connection, as `locked_run` does: an
  exception between the try-lock and the `try`, or in the unlock itself, that is no lost
  connection gives the session back to the pool with its lock.  Until that session ends no
  worker gets the lock; nothing but progress depends on it.
* `ingest` parses the report before it looks at the status of the run
  (`storage/history.py:205`), and so does `Ingest`: an invalid one leaves the call whatever
  the run has become.
* A position of `run_one` outside the two KeyboardInterrupt actions leaves the call
  by `Crash`.  A call whose lock is taken returns without a step.
* The run lock is taken and released with the run; only its use as a guard of
  `ReconcileRun` is modelled.  `ScanHistory` is about it.

### MCOrchestration

Two plans for TLC: `MixedPlan` (a two-stage assessment with a scanner and a recheck,
and a second one of one scanner, so that claims compete) and `LongPlan` (a scanner,
a skipped stage, a recheck).

### RunRecord

The abstract specification of scan history: an identifier names one attempt, which
begins once and ends once; only a successful one has evidence, which is final.

### ScanHistory

| State | Code |
|---|---|
| `status`, `kind` | `runs.status` (and `stages.status`, always written with it), `runs.kind` |
| `artifact`, `health` | rows of `artifacts` and `recheck_artifacts`: the bytes the digest stands for, and `health` |
| `file`, `twin`, `dirs` | the artifact directory: bytes of a published file, whether its temporary name still exists, which directories do |
| `lock` | holder of a run's session advisory lock (`locked_run`) |
| `pc`, `call`, `role` | where a caller is, its operation, run and report, and which of the two files it publishes |
| `audit` | local variables of `History.reconcile`: what is left to visit, `known`, `issues`; `bad` and `stray` remember what was wrong when it began |
| `calls`, `faults`, `losses`, `damages` | counters of the bounds |
| `answers`, `scans` | history variables: reports returned, scanners started |

A caller is a process in `import_history`, `scan_history` or `History.reconcile`.

| Actions | Code |
|---|---|
| `StartImport`, `StartScan` | the try-lock of `locked_run` |
| `BeginImport`, `BeginScan` | `History.begin`, with the look-up `scan_history` does before it |
| `MakeDirectory`, `Scan`, `EndRun` | the capture directory, the scanner, `_failure` |
| `OpenIngest`, `CompareStored` | `ingest` up to its look at the status; the branch for a run that succeeded |
| `CheckFile`, `LinkFile`, `UnlinkTemporary` | `ArtifactStore.publish` for one file |
| `CommitIngest` | the rest of `ingest` |
| `InterruptPlanned` | what `reconcile_stale` does to a planned run, without the run's lock |
| `PublishResponse`, `CommitResponse` | the artifacts of `persist_recheck` |
| `BeginReconcile`, `LockRun`, `ReconcileRun`, `ReconcileRechecks`, `ListRoot`, `ReportPath`, `EndReconcile` | `History.reconcile` |
| `DatabaseError`, `Crash`, `LoseSession`, `Damage` | the faults |

The lock and the writes share one connection.  A session that ends therefore takes
the lock and the open transaction with it: every step of a caller that needs the
database is guarded by `Live(c)`, and a caller without it gets `DatabaseError`.  Files
need no session, so a caller whose session has died may still link them beside the
lock's new holder; this is the race `EvidencePublished` is about.  A row locked by
`SELECT ... FOR UPDATE` (`RowLocked`) makes `reconcile_stale` wait.

What is abstracted, and in which direction:

* Reports, digests and observations are data.  A report is a member of `Payloads`,
  one in `Invalid` fails to parse or exceeds its scope; two reports have the same
  digest only if they are the same.  An import has no stderr; the two files of a scan
  stand for each other's bytes.
* Configurations are not distinguished: `begin`'s refusal of an identifier with
  another scanner, project or profile leaves the call, as its refusal of another kind
  does here.
* The key of a run's lock is half of its UUID; runs are assumed to differ in it.
* Any other exception (a limit exceeded, a full disk, a failing unlink) is `Crash`,
  which leaves the files as they are.  An exception inside `publish` runs its
  `finally`, death does not; the model allows what both leave.
* `CompareStored`, `ReconcileRun` and `ReconcileRechecks` are transactions that
  read files; each is one step.  The first two hold the run's lock, under which only
  a caller without a session or somebody outside touches these files.
* The names reconcile finds besides published files (temporary names, captures of
  scanners) only add issues of the kind `unreferenced`, which block nothing, and are
  left out.
* A response of a recheck is published in one step: its identifier is fresh, so nobody
  publishes under the same name and nobody retries.  Assessments that share the rows
  are the environment here; `Orchestration` has their order of steps.

### MCScanHistory

The symmetry of callers for TLC.

### ScannerProcess

One call of `run_process` (`execution/process.py`).

| State | Code |
|---|---|
| `limit`, `used`, `stderr_used`, `saved` | `output_limit`, the counters of `drain`, the artifact files |
| `pc`, `spawn`, `reader`, `outcome` | where the call is, its spawn task, its two readers, how the body of the `try` ended |
| `clean`, `cancelled`, `result` | whether `cleanup` completed, the cancellation its loop remembers, what is returned or raised |
| `live`, `group`, `killed`, `open`, `returncode`, `produced`, `pipe` | the scanner and its pipes, as the system shows them |

| Actions | Code |
|---|---|
| `SpawnStarts`, `SpawnFails` | `spawn`, which goes on when the call that awaits it has ended |
| `ReadChunk`, `WriteFails`, `ReadEof` | `drain` and `write_all` |
| `Gathered`, `ReaderFails`, `Timeout`, `Cancel` | the ends of the body, and the cancellations its cleanup absorbs |
| `BeginCleanup`, `Discard`, `Drained`, `CleanupTimeout`, `End` | `cleanup`, `_discard` and the `finally` |
| `Terminate`, `Kill`, `WaitForLeader`, `PollGroup` | `_stop` |
| `Write`, `Fork`, `LeaveGroup`, `CloseStreams`, `Exit` | the scanner: a leader and one descendant that do as they like until SIGKILL leaves them nothing but to exit |

Times are not measured: a timer fires at any moment while its block runs, which
includes every order the real durations allow.  `PollGroup` looks at all processes in one
step, where the code reads `/proc` entry by entry (`execution/process.py:89-121`).  Output is counted in parts; a chunk is
any number of parts the pipe holds.  A process identifier is not reused while its group
is being signalled.

### ScannerCall

`scan_httpx` and `scan_nuclei` call `run_process` twice, for the version and for the
scan, `scan_nmap` once; `phase`, `directories` and `answer` are the call under way, the
private directories that exist and what the scan returns.  The commands they build
and the modes of their files are left out.

### RecheckRules

Operators for `_parse_response` and its helpers, `assess_exposure_recheck` and
`assess_hsts_recheck`.  A response on the wire is a record: its header block takes
`head` parts, its body is a sequence of parts, and a part is the set of *marks* (a title,
a link, a section...) that are whole with it.  Reading a response cuts it between
two parts.  This is what the parser and the rules can tell apart: where the response
was cut, how its length was declared, whether a mark was seen.

### WebRecheck

| State | Code |
|---|---|
| `deadline`, `index`, `exchanges`, `reports` | local variables of `recheck_web`, the reports it returned |
| `fetch`, `until` | `_acquire` under way: when it started, the response, how much was read, its status; the timer of its current step |
| `now`, `origin`, `site`, `served` | the clock, the origin, what each address answers, and (history) what it began to answer and when |

`Pause`, `Wake` and `Ask` are the loop of `recheck_web`; `Connect`, `Receive`,
`EndOfStream`, `TimesOut`, `TransportError`, `Close` and `Record` are `_acquire`;
`Report` applies the rules; `CancelRecheck` is the cancellation of the task, which closes an
open connection (`"abort"`, ended by `Close`) before it goes on.  The clock
passes a timer only after the step it is due for: the event loop is not starved.

### CaptureAssessment and Comparison

Operators.  `CaptureAssessment` says what stored runs mean: which matches are findings
and who reviewed their template, what nobody found, what httpx saw of headers, to
which address a piece of evidence belongs and when it was acquired
(`analysis/correlation.py`, `assessment/capture.py`, `comparison/compare.py`).
`Comparison` is `_build_side`, `_compatible`, `_is_later`, `_result` and
`compare_assessments`.  Explanations, coverage texts and rule versions (there is one) are
left out, and so are the checks for another resource, which no caller can fail.

### EvidenceHistory

Rechecks (`WebRecheck`), managed scans, imports of their output or of foreign reports,
damaged files, and a site that changes meanwhile.  `runs` are succeeded runs as
`CaptureAssessment` sees them, `scanning` is a scan under way, which makes its requests at
some moment between its beginning and its end.  Comparing changes nothing, so it is not
an action: the properties compare every pair of selections a state offers, in either
order.  The files of a side are verified when the side is loaded, one side after the other,
so each may know of less damage than there is (`known`).  Nothing is said of how a run's files came about, which is `ScanHistory`.

A *scene* fixes the origin, the responses the site may give and the budget of each
operation.  It bounds a behavior to what one analyst would do.

### MCScannerCall, MCEvidenceHistory

The instance of `ScannerCall`; the responses, foreign reports and scenes of
`EvidenceHistory`.

## 4. Runs

| Run | Checks | Outcome |
|---|---|---|
| `restarts` | `TypeOK`, `NoStageLeftRunning`, `NoOrphanRun`, `ClosedFrozen`, `ImplementsLifecycle` | hold (90 219 states) |
| `lockloss` | `RowLocksHold`, `LaunchedOnce`, `StagesInOrder`, `EvidenceBacksStages`, `VerdictMatchesStages`, `OutcomesFinal` | hold (142 554 states) |
| `progress` | `ClaimedWorkCloses`, `StartedStagesEnd` | hold (8 893 states) |
| `unreadable` | `ClosedReadable` | violated |
| `export` | `CompletedEvidenceAvailable` | violated |
| `stranded` | `NoStageLeftRunning` with a lost lock | violated |
| `imports` | `TypeOK`, `LiveScanRuns`, `ScannedOnce`, `EvidencePublished`, `SucceededHasEvidence`, `AnswersAgree`, `ReportIsTrue`, `ImplementsRunRecord`, `RunsEnd` | hold (175 571 states) |
| `audit` | `IngestOwnsRun`, `AuditComplete` | hold (1 509 981 states) |
| `retry` | `RetryAccepted` | violated |
| `responses` | `ResponsesNotUnreferenced` | violated |
| `scans` | `TypeOK`, `ReportIsWhole`, `WithinLimits`, `NothingLeftBehind`, `CancellationHeard`, `ScanEnds` | hold (774 574 states) |
| `claims` | `TypeOK`, `ConclusionsAreTrue`, `RecheckBounded`, `ResolvedIsReal`, `DamageWithdraws` | hold (667 993 states) |

`restarts` is about workers that stop: two workers, two assessments, three calls of
`run_one`, two faults at any point and any number of reconciliations, while the lock
outlives its holder.  Two faults and three claims allow a worker to die, its
successor to die in the middle of the recovery, and a third to finish.

`lockloss` is about fencing: two workers, one assessment of every kind of stage,
two claims, two lost locks.  The first worker goes on with its old token while the
second reconciles and claims; with the second loss a reconciliation, too, is
overtaken by another.  More assessments would add claims but no contention, since a
worker never touches the rows of an assessment it did not claim except in
`reconcile_stale`, which handles each of them alike.

`progress` has no symmetry, as symmetry is unsound for liveness.

`imports` is about one identifier: two processes, three imports or scans, two valid
reports and an invalid one, one crash, one lost session, and reconciliations at any
time.  Three calls allow one to lose its session and go on publishing, a second to
take its place and a third to retry.  Callers share nothing but identifiers, so a
second run would add states and no conflict.  It has no symmetry, as it checks
liveness.

`audit` is about reconcile's walk: two runs, one of them planned by an assessment and
with a directory restored before its row, one recheck, two processes, two calls and
one damaged file.  Two runs let one begin, end or be busy while the other is visited.

`scans` is one scan with its version check: a leader and one descendant, streams of up
to two parts each, a limit of two parts for the scan, and of one for the version check
and for stderr, and two cancellations.  Each stream alone can reach its limit, both
together can, and a pipe can be full.  A second descendant would behave like the first,
since nothing in the code counts them; a third cancellation is absorbed like the second.
`WithinLimits` leaves out one case, which is listed as a hazard: a write of an artifact
file that fails half-way is not counted, so the other reader may still save a full limit.

`claims` explores five kinds of scenes.  Rechecks of 27 responses (whole, cut, chunked,
with or without a length, refused, malformed, too long) with one fault and up to six
ticks of the clock, where the deadline is three, a request two and the delay one, so
that the second request may start late, end late or not be made, and of origins that
are not https or have no host name; two rechecks with a changed site and a damaged
file; a recheck beside a scan and its import; scans of two addresses, one of them
imported for all of them; a scan beside imports from elsewhere.  Every state and reason
`_result` knows occurs, and "resolved" in each of the three combinations the
documentation allows: from fresh to fresh, from fresh to captured and from captured to
fresh evidence.

Workers and callers are interchangeable, so their permutations are a symmetry of
`restarts`, `lockloss`, `audit` and the violated runs.  Deadlock is checked in all runs
but `scans` and `claims`, where a call returns and budgets run out: operators can
always reconcile again.

### Fairness

`FairSpec` assumes weak fairness of what a started call does next
(`Reconcile(w) \/ Work(w)`): its thread is scheduled, scanners and probes have
timeouts, and every row lock is released by a commit, since no transaction waits
for anything but rows.  It also assumes that somebody keeps calling
`assessment-reconcile`, which `docs/operations.md` asks the operator to do after a
stop: nothing in the code calls it by itself.  Nothing is assumed of `run_one`
being called, of faults, or of which branch a scanner takes.  Faults are bounded
by `MaxFaults`: with unboundedly many, every worker could die before it closes
anything.  Without the second assumption `ClaimedWorkCloses` fails, as it should: a
crashed worker's assessment stays running until someone calls.

`FairSpec` of `ScanHistory` assumes the same of callers: a started call goes on, since
scanners have timeouts and no statement waits for ever, and somebody calls
`history-reconcile` again and again.  `LockRun` does not wait for a busy run, so one
reconciliation may pass an abandoned run by; a later one does not.

`Fairness` of `ScannerCall` asks for weak fairness of `Progress`: the event loop runs
the call, its timers fire when their time has come, its caller goes on with the result,
and the system starts a process or refuses to.  Nothing is asked of the scanner, not even
that it dies when it is killed, nor of the readers, so `ScanEnds` rests on the timers
alone.  The spawn itself has no timer: cleanup waits for it.

### What the violated runs show

* `unreadable`: a worker stops between two stages.  `reconcile_stale` makes the
  assessment interrupted; none of its stages is, because none was running, and
  `AssessmentManifest` (`orchestration/models.py:182-190`) rejects exactly that.
  Every later `get` or listing that includes the assessment fails.
* `export`: a scanner fails, another stage completes.  The failed run is linked
  from its stage, `load_assessment_report` selects it, and `correlate_history`
  refuses the selection, completed evidence included.
* `stranded`: a worker whose lock session ended commits `start_stage` after
  `reconcile_stale` updated the stages.  The stage stays running under an
  interrupted assessment and no later reconciliation selects it.  The same property
  holds in `restarts`, where the lock is not lost.
* `retry`: an import stops after it linked a file to its final name and before it
  unlinked the temporary one.  The file has two links; `ArtifactStore.read` refuses
  such files (`storage/artifacts.py:109`), so `publish` refuses every retry, although
  the bytes are those of the first attempt.
* `responses`: reconcile reads `recheck_artifacts`, a recheck publishes and commits,
  and reconcile then lists the root.  It looks runs up again before it calls a
  directory unreferenced, but not rechecks.

## 5. Proofs

`OrchestrationProofs.tla` proves four theorems for every set of assessments and
workers, every plan and every bound, so for any number of faults and lost locks.  It
assumes what the modules state: every plan is a non-empty sequence of kinds
(`PlanAssumption`), `NoWorker` is no worker (`WorkerAssumption`), bounds are natural
numbers (`BoundAssumption`).

* `TypeCorrect`: `TypeOK` is inductive.  It carries what the other proofs need about
  a worker's position: one that handles a stage is at a stage of the plan, one that
  is about to write a verdict has one.
* `RowLocks`: `TypeOK /\ RowLocksHold` is inductive.  A row an open
  `reconcile_stale` has locked keeps its status, since every writer of a running
  row either waits for it or finds it changed; two open transactions share no
  manifest since the second `SELECT ... FOR UPDATE` waits.
* `LaunchedAtMostOnce`: `LaunchedOnce` is not inductive: it does not say that a
  worker about to launch is alone and first.  `LaunchInv` does: a stage in the hands
  of a worker between `start_stage` and its launch is not pending, has not been
  launched, and is in no other worker's hands; pending stages have not been
  launched; a run row implies a launch.
* `OutcomesAreFinal`: each action that rewrites a closed, ended or finished row would
  contradict its own guard, or, for `CommitReconcile`, the row locks.

`OrchestrationStages.tla` proves three more, still for any number of lost locks, so that
several workers may act on one assessment.  They follow from one inductive invariant,
`StagesInv`: the three properties and `AtHand`, what each worker knows of the stage and the
verdict in its hands.

* `StagesTakenInOrder`: a worker remembers that the stages before its own had ended when it
  chose it, and an ended stage never reopens (`OutcomesAreFinal`).
* `CompletedHasEvidence`: a worker that is about to complete a stage has linked a run that
  succeeded, or its report was written by the same statement; runs and reports are final.
* `VerdictAgrees`: `finalize` computes its verdict from stages it read earlier.  A stage it
  read as ended has stayed so, and `Agrees` relates each verdict to what it excludes, so a
  conclusion written late, perhaps by a worker without its lock, is still that of the rows.

`OrchestrationLock.tla` proves what the worker lock adds.  Its theorems have the hypothesis
`[](losses = 0)`: no session of the lock ends while its holder lives on.  Crashes,
interruptions, restarts and failing statements are not excluded.  The hypothesis is needed,
as the run `stranded` shows, and every behaviour of an instance with `MaxLockLosses = 0`
satisfies it (`LockNeverLost`).

* The invariant is `LockInv`: whoever is past the lock holds it (`LockAdmitsOne`), there is
  one running assessment at most and only its worker is at work (`OneRunning`), a running
  stage or run leads back to it (`RunsTraced`), and a worker that reconciles or executes
  knows the rows as they are (`Reconciling`, `Executing`).
* `NothingLeftRunning`, `NoRunOrphaned` and `ClosedIsFrozen` follow, the last one because
  each action that touches a stage belongs to the worker of the running assessment.
* `LifecycleImplemented`: `AssessmentLifecycle` maps to the rows of the store.  Each action
  of `Orchestration` is shown to be the step of the same name, or a stutter.

`ScanHistoryProofs.tla`, `ScanHistorySafety.tla` and `ScanHistoryAudit.tla` do the same for every set of runs,
callers and reports and any number of calls, crashes, lost sessions and damages.  They
assume that runs and rechecks have different identifiers (`RunAssumption`), that
`NoCaller` is no caller, `Absent` no bytes and `Junk` the bytes of no payload
(`CallerAssumption`, `BytesAssumption`), that an issue of a report names a directory or a
file and never leaves open which (`NameAssumption`), and that bounds are natural numbers.

* `HistoryTypeCorrect`: `TypeOK` is inductive.
* `CallersOwnTheirRuns` and `LiveScansKeepTheirRuns`: two lemmas carry these and
  the later proofs: `Frame` (a caller's variables change by its own steps, and nobody
  else gives it a lock) and `WhoEndsRuns` (whoever changes a run's status holds its
  lock, or is `reconcile_stale` and finds the row unlocked).  A lock has one holder,
  so an owned run is ended by its owner.
* `EvidenceMeansSuccess`: artifact rows are written by `CommitIngest` only, which
  by the previous theorem finds the run running, writes both rows and makes it succeed;
  a run that is not begun, goes on, failed or was interrupted has not even one.
* `AnswersAreTheRecord`: needs in addition that a caller that compares works on a run
  that succeeded (`Recorded`).
* `ScannedAtMostOnce`: `ScannedOnce` does not say that a caller about to start a
  scanner is alone and first; `ScannersStart` does, because the row is inserted, once,
  before the scanner starts.
* `HistoryRefinesRecord`: `Spec => ImplementsRunRecord`, so `ScanHistory` implements
  `RunRecord` under the mapping of its stdout artifact to the record's value.
* `EvidenceIsPublished`: `Undamaged` strengthens `EvidencePublished` with how far
  each caller has come in publishing, whether or not its session is alive: what it has
  passed is in place under one name, and what is in place stays, since `publish`
  links only where nothing is.
* `ReportsAreTrue`: `Truthful` follows a report as it grows.  Every directory of a run is
  made after the run's row, so that one without a row when reconcile looks it up was there
  when it began, also when it listed the directories long before.  Reconcile ends a running
  run under its lock before it calls one of its files unreferenced, and an ended run never
  gets evidence, whoever retries.  Without damage `EvidencePublished` holds of every row
  reconcile verifies, so it reports none as missing or corrupt.
* `AuditIsComplete`: `AuditComplete` speaks of the end of a reconcile.  `Accounted` says of
  every moment of it that what was bad or stray at its beginning is still to be visited, or
  is being visited and still bad, or is in the report.  It needs what the runs it locks are
  in the meantime (`RowsBacked`: rows belong to runs that succeeded) and that a bad file
  stays bad (`BadStays`).  The last is false when a process whose session was lost goes on:
  it can link the missing file again before reconcile gets to it, which then reports
  nothing.  So this theorem has the hypothesis `[](losses = 0)` too; crashes, failures and
  damage during the audit are not excluded.

`ScannerCallProofs.tla` proves five theorems for every output limit, pipe size, amount of
output and number of cancellations (`ProcessAssumption`, `LimitAssumption`).  They are
consequences of one inductive invariant, `CallInv`:

* `CallTypeCorrect`: `TypeOK`, which also bounds every counter.
* `OutputStaysWithinLimits`: `Counted` ties the counters, which both readers share, to
  what is in the files: a chunk is cut to what both limits leave before it is counted.
  A write that failed is not counted, and the theorem excludes it.
* `ReportsAreWhole`: a body that ended well has seen the end of both streams
  (`ReadersSaw`).  That a stream stays at its end is the difficult part: nobody can come
  to hold it, because only a running process that holds it could pass it on.
* `NothingIsLeftBehind`: `CleanedUp`.  Once the group is empty no member can be forked,
  since the leader never leaves its group (`LeaderLeads`); nothing ran before the spawn
  (`Untouched`); so after a cleanup that was not given up no process of the group runs and
  no stream is held.
* `CancellationsAreHeard`: the body has one end (`OneEnd`), and a cancellation after it is
  remembered until the result is made of both.

`EvidenceHistoryProofs.tla` proves six theorems for every set of responses, sites and
scenes, every limit, timeout, delay and size of a read, with any number of operations.  The
assumptions are the types of the constants (`ResponseLimitAssumption`, `TimeAssumption`,
`DelayAssumption`), `NothingAssumption`, and that scenes use approved addresses and
responses (`SceneAssumption`) and count operations (`OperationsAssumption`).

* `RechecksAreBounded`: `Timely` says of every waiting step which timer it has and that
  the clock has not passed it; the timer of a request is within the deadline, that of a
  close within `CloseTimeout` of it.
* `ConclusionsHold`: `RecheckInv` follows a response from the server to the report:
  what is being read was answered to this request after it started (`Fetched`), a
  recorded acquisition has a response of the server behind it and earned its status
  (`Collected`), a report holds both acquisitions and what the rules say of them
  (`Reported`).  Then `WholeBody` applies: if the parser calls the first parts of a
  response complete, they are the body it announced, or its status has none.  With
  `ExposureResult` and `HstsResult`, what the rules conclude holds of the whole response.
* `RulesAndComparisonAgree`: the same invariant; the two rule lemmas list the conditions
  of a conclusion, which imply those `_fresh_context_valid` checks.  This is a theorem
  only: it compares two functions of one acquisition, and no run checks it.
* `EvidenceTypeCorrect`: `Ranged` adds to the invariants of the recheck and of the runs that
  no fetch exceeds the limit and that files, once there, are not forgotten.
* `ResolvedMeansResolved`: `HistoryInv` follows an answer of an address to the run that
  reports it, as `RecheckInv` does for a recheck.  The scan under way was answered since its
  row was created (`ScanUnderWay`); what a run of a scan reports its address showed between
  its two dates (`RunsFounded`); runs with the same digest report the same (`RunsAlike`), so
  that an import speaks for the scan it repeats.  `SideStands` then says of every supported
  entry of either kind of selection that it stands for an answer of its address within its
  window: for stored runs because the window of an entry spans those of its uses
  (`EntryUses`, with `SmallestIsFirst` and `LargestIsLast`).  `ResolvedEntries` gives a
  supported positive before and a supported negative after, and `_is_later` separates their
  windows.  Stored reports support a positive for the exposures only and a negative for HSTS
  only, so two of them never make a "resolved".
* `DamageOnlyWithdraws`: each side of a comparison is set beside the same selection with
  every file readable.  A selection has one assessment of a claim (`OneAssessment`: foreign
  templates make no reviewed rule, by `SceneAssumption`), so one entry for each key; each
  entry has its counterpart, which differs in nothing but its health (`Matched`); a healthy
  entry has a readable copy of each of its digests (`Sound`, shown of rechecks by
  `FreshSound` and of stored runs by `CaptureSound`).  `_result` says "unknown" whenever an
  entry is unhealthy, so anything else it says comes from two entries that are those of the
  undamaged sides.

Only model-checked: the liveness properties `ClaimedWorkCloses`, `StartedStagesEnd`,
`RunsEnd` and `ScanEnds`, since the prover handles neither liveness under fairness nor
`ENABLED`.  The violated properties are shown by TLC's counterexamples.

## 6. Not modelled

* Scanner adapters, scope and configuration validation, rendering, serialisation and
  command construction transform data and have no order of steps that matters.
  Migrations and constraints are declarative; the constraints the store relies on are
  guards or typing here.  The demo seeds a database once.
* The browser client.  Its two hazards are listed: a comparison whose answer arrives
  after that of a later one (`frontend/src/views/ComparisonView.tsx:76`), and a refresh
  that replaces the view which awaits it (`frontend/src/App.tsx:84`).
* Clocks that disagree.  A recheck is dated by its host and a run by the database;
  `_is_later` compares the two.  `EvidenceHistory` has one clock.
* An order of the two selections for "new" and "not_observed" (`comparison/compare.py:513`):
  nothing in the code asks which of them is later, unlike for "resolved" and "unchanged".
* Signals to a process group whose identifier was reused, processes that left their
  group and closed its streams, and the bytes lost when a recheck is cancelled while it
  closes a connection.
* Names in the directory of a recheck that no row refers to (`storage/history.py:529-535`):
  reconcile reports them, which blocks nothing.
* Texts: whether two page titles, two templates or two header values are the same is
  decided before the models begin.
