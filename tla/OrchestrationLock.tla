--------------------------- MODULE OrchestrationLock ---------------------------
(***************************************************************************)
(* What the worker lock adds, for every plan and any number of workers,    *)
(* claims and faults: as long as no lock session dies before its holder    *)
(* (losses = 0), a worker is alone with the rows of every running          *)
(* assessment, no stage or run is left running under a closed one, and the *)
(* worker implements AssessmentLifecycle.                                  *)
(***************************************************************************)
EXTENDS OrchestrationStages

\* The advisory lock admits one caller of run_one or reconcile.
LockAdmitsOne == \A w \in Workers : pc[w] # "idle" => lock = w

\* claim only follows a reconciliation, so that one assessment runs at a time.
OneRunning ==
  \A a, b \in Assessments : manifest[a] = "running" /\ manifest[b] = "running" => a = b

\* Only scanner stages have runs, and a running run has a running stage or is linked.
RunsTraced ==
  \A x \in StageIds :
    /\ run[x] # "none" => KindOf(x) = "scanner"
    /\ run[x] = "running" => stage[x] = "running" \/ x \in result

\* reconcile_stale has locked everything that is running by the time it needs it.
Reconciling(w) ==
  /\ pc[w] \in {"stages", "runs", "commit"} =>
       \A a \in Assessments : manifest[a] = "running" => a \in tx[w].manifests
  /\ pc[w] \in {"runs", "commit"} =>
       \A x \in StageIds : stage[x] = "running" => x \in tx[w].stages
  /\ pc[w] = "commit" =>
       \A x \in StageIds : run[x] = "running" /\ x[1] \in tx[w].manifests => x \in tx[w].runs
  /\ pc[w] = "claim" => \A a \in Assessments : manifest[a] # "running"

\* A worker in its loop owns its assessment, finds the stage it handles as it left
\* it, has interrupted no stage before it, and finalizes what it has read.
Executing(w) ==
  /\ pc[w] \in StagePcs \cup FinalPcs => Owns(w)
  /\ pc[w] \in ScanPcs \cup RecheckPcs \cup FinishPcs => stage[at[w]] = "running"
  /\ pc[w] = "cleanup" =>
       IF KindOf(at[w]) = "scanner" THEN stage[at[w]] = "running"
       ELSE stage[at[w]] \in {"completed", "failed"}
  /\ pc[w] \in StagePcs =>
       \A y \in StagesOf(at[w][1]) : y[2] < at[w][2] => stage[y] # "interrupted"
  /\ pc[w] = "finalize_update" =>
       LET states == {stage[x] : x \in StagesOf(at[w][1])} IN
         ~Unfinished(states) /\ outcome[w] = Verdict(states)

LockInv ==
  /\ LockAdmitsOne
  /\ OneRunning
  /\ RunsTraced
  /\ NoStageLeftRunning
  /\ \A w \in Workers : Reconciling(w) /\ Executing(w)

\* The invariants proved before this module.
Before == TypeOK /\ RowLocksHold /\ LaunchInv /\ StagesInv

-----------------------------------------------------------------------------
(* One worker at a time.                                                   *)

\* A worker that holds the lock is the only one that is not idle.
LEMMA Alone ==
  ASSUME LockAdmitsOne, NEW w \in Workers, lock \in {w, NoWorker}, NEW v \in Workers, v # w
  PROVE  pc[v] = "idle"
  BY WorkerAssumption DEF LockAdmitsOne

\* Whoever takes a step is the holder, or takes the lock with it; as long as no
\* lock is lost everybody else is idle and stays so.
LEMMA SoleWorker ==
  ASSUME TypeOK, LockAdmitsOne, losses' = 0, [Next]_vars
  PROVE  \/ UNCHANGED vars
         \/ \E a \in Assessments : Enqueue(a)
         \/ \E x \in StageIds : ReconcileRun(x)
         \/ \E w \in Workers :
              /\ \/ BeginRunOne(w) \/ BeginReconcile(w) \/ Reconcile(w) \/ Work(w)
                 \/ Crash(w) \/ CancelStage(w) \/ CancelLoop(w)
              /\ pc[w] # "idle" => lock = w
              /\ \A v \in Workers \ {w} : pc[v] = "idle" /\ pc'[v] = "idle"
  <1>1. ASSUME NEW w \in Workers, LoseLock(w) PROVE FALSE
    BY <1>1 DEF LoseLock, TypeOK, DataTypeOK
  <1>2. ASSUME NEW w \in Workers, Reconcile(w) \/ Work(w) \/ Crash(w) \/ CancelStage(w)
               \/ CancelLoop(w)
        PROVE  lock = w
    <2>1. pc[w] # "idle"
      BY <1>2
         DEF Reconcile, SelectRunning, SelectRows, InterruptStages, InterruptRows,
             InterruptRuns, CommitReconcile, Work, Claim, ClaimNothing, CheckSkip, SkipStage,
             StartStage, CommitStart, BeginRun, InsertRun, Scan, Ingest, Probe, CheckPersist,
             PublishRecheck, PersistRecheck, CleanUp, CheckFinish, FinishStage, CheckFinalize,
             Finalize, Crash, CancelStage, CancelLoop, ScanPcs, RecheckPcs, SkipPcs, StartPcs,
             FinishPcs
    <2> QED BY <2>1 DEF LockAdmitsOne
  <1>3. ASSUME NEW w \in Workers, BeginRunOne(w) \/ BeginReconcile(w) PROVE lock = NoWorker
    BY <1>3 DEF BeginRunOne, BeginReconcile, TakeLock
  <1>4. ASSUME NEW w \in Workers, lock \in {w, NoWorker},
               \A v \in Workers \ {w} : pc'[v] = pc[v]
        PROVE  /\ pc[w] # "idle" => lock = w
               /\ \A v \in Workers \ {w} : pc[v] = "idle" /\ pc'[v] = "idle"
    BY <1>4, Alone DEF LockAdmitsOne
  <1>5. ASSUME NEW w \in Workers,
               BeginRunOne(w) \/ BeginReconcile(w) \/ Reconcile(w) \/ Work(w) \/ Fault(w)
        PROVE  \A v \in Workers \ {w} : pc'[v] = pc[v]
    BY <1>5, OneMoves
  <1> QED BY <1>1, <1>2, <1>3, <1>4, <1>5 DEF Next, Fault

\* The lock is let go only on the way out.
LEMMA LockStep ==
  ASSUME TypeOK, LockAdmitsOne, losses' = 0, [Next]_vars
  PROVE  LockAdmitsOne'
  <1>t. pc \in [Workers -> Pcs]
    BY DEF TypeOK, LocalTypeOK
  <1>l. ASSUME NEW w \in Workers, Leave(w) PROVE pc'[w] = "idle"
    BY <1>l, <1>t DEF Leave, Goto
  <1>1. CASE UNCHANGED local
    BY <1>1 DEF local, LockAdmitsOne
  <1>2. ASSUME NEW w \in Workers,
               \/ BeginRunOne(w) \/ BeginReconcile(w) \/ Reconcile(w) \/ Work(w)
               \/ Crash(w) \/ CancelStage(w) \/ CancelLoop(w),
               pc[w] # "idle" => lock = w,
               \A v \in Workers \ {w} : pc'[v] = "idle"
        PROVE  LockAdmitsOne'
    <2>1. pc'[w] = "idle" \/ lock' = w
      <3>1. CASE BeginRunOne(w) \/ BeginReconcile(w)
        BY <3>1 DEF BeginRunOne, BeginReconcile, TakeLock
      <3>2. CASE Reconcile(w)
        BY <1>2, <3>2, <1>l
           DEF Reconcile, SelectRunning, SelectRows, InterruptStages, InterruptRows,
               InterruptRuns, CommitReconcile, EndReconcile
      <3>3. CASE Claim(w) \/ ClaimNothing(w) \/ CheckSkip(w) \/ SkipStage(w) \/ StartStage(w)
                 \/ CommitStart(w)
        BY <1>2, <3>3, <1>l
           DEF Claim, ClaimNothing, CheckSkip, SkipStage, StartStage, CommitStart, SkipPcs,
               StartPcs
      <3>4. CASE BeginRun(w) \/ InsertRun(w) \/ Scan(w) \/ Ingest(w) \/ Probe(w)
                 \/ CheckPersist(w) \/ PublishRecheck(w) \/ PersistRecheck(w)
        BY <1>2, <3>4, <1>l
           DEF BeginRun, InsertRun, Scan, Ingest, Probe, CheckPersist, PublishRecheck,
               PersistRecheck
      <3>5. CASE CleanUp(w) \/ CheckFinish(w) \/ FinishStage(w) \/ CheckFinalize(w)
                 \/ Finalize(w)
        BY <1>2, <3>5, <1>l DEF CleanUp, CheckFinish, FinishStage, CheckFinalize, Finalize
      <3>6. CASE Crash(w) \/ CancelStage(w) \/ CancelLoop(w)
        BY <1>2, <3>6, <1>l
           DEF Crash, CancelStage, CancelLoop, ScanPcs, RecheckPcs, SkipPcs, StartPcs, FinishPcs
      <3> QED BY <1>2, <3>1, <3>2, <3>3, <3>4, <3>5, <3>6 DEF Work
    <2> QED BY <1>2, <2>1 DEF LockAdmitsOne
  <1> QED BY <1>1, <1>2, SoleWorker DEF Enqueue, ReconcileRun, vars

-----------------------------------------------------------------------------
(* The loop of the holder.                                                 *)

\* Outside the loop there is nothing to own ...
LEMMA OutsideLoop ==
  ASSUME NEW w \in Workers, pc'[w] \in {"idle", "claim"} \cup ReconcilePcs
  PROVE  Executing(w)'
  <1>1. /\ pc'[w] \notin StagePcs \cup FinalPcs \cup ScanPcs \cup RecheckPcs \cup FinishPcs
        /\ pc'[w] \notin {"cleanup", "finalize_update"}
    BY DEF ReconcilePcs, StagePcs, FinalPcs, SkipPcs, StartPcs, ScanPcs, RecheckPcs, FinishPcs
  <1> QED BY <1>1 DEF Executing

\* ... and inside it no row to have locked.
LEMMA InsideLoop ==
  ASSUME NEW w \in Workers, pc'[w] \in {"idle", "select"} \cup StagePcs \cup FinalPcs
  PROVE  Reconciling(w)'
  <1>1. pc'[w] \notin {"stages", "runs", "commit", "claim"}
    BY DEF StagePcs, FinalPcs, SkipPcs, StartPcs, ScanPcs, RecheckPcs, FinishPcs
  <1> QED BY <1>1 DEF Reconciling

\* A step within a stage.
LEMMA StayExecuting ==
  ASSUME TypeOK, NEW w \in Workers, Executing(w), pc[w] \in StagePcs,
         NEW label \in StagePcs, Goto(w, label), UNCHANGED <<at, token, manifest, owner>>,
         \A y \in StageIds \ {at[w]} : stage'[y] = stage[y],
         label \in ScanPcs \cup RecheckPcs \cup FinishPcs => stage'[at[w]] = "running",
         label = "cleanup" =>
           IF KindOf(at[w]) = "scanner" THEN stage'[at[w]] = "running"
           ELSE stage'[at[w]] \in {"completed", "failed"}
  PROVE  Executing(w)'
  <1>1. pc'[w] = label /\ at[w] \in StageIds /\ at[w][2] \in Nat
    BY StageIdParts DEF Goto, TypeOK, LocalTypeOK
  <1>2. label # "finalize_update"
    BY DEF StagePcs, SkipPcs, StartPcs, ScanPcs, RecheckPcs, FinishPcs
  <1>3. Owns(w)'
    BY DEF Executing, Owns
  <1>4. ASSUME NEW y \in StagesOf(at[w][1]), y[2] < at[w][2] PROVE stage'[y] # "interrupted"
    BY <1>1, <1>4 DEF Executing, StagesOf
  <1> QED BY <1>1, <1>2, <1>3, <1>4 DEF Executing

\* The step to finalize, from a stage or from the last one.
LEMMA FinalizeExecuting ==
  ASSUME TypeOK, NEW w \in Workers, Executing(w), pc[w] \in StagePcs, Goto(w, "finalize"),
         at'[w][1] = at[w][1], UNCHANGED <<token, manifest, owner>>
  PROVE  Executing(w)'
  <1>1. pc'[w] = "finalize"
    BY DEF Goto, TypeOK, LocalTypeOK
  <1>2. Owns(w)'
    BY DEF Executing, Owns
  <1> QED
    BY <1>1, <1>2 DEF Executing, StagePcs, SkipPcs, StartPcs, ScanPcs, RecheckPcs, FinishPcs

\* The step to a position of the plan that is owned.
LEMMA VisitExecuting ==
  ASSUME TypeOK, NEW w \in Workers, NEW p \in Positions, Visit(w, p),
         manifest'[p[1]] = "running", owner'[p[1]] = token[w], UNCHANGED token,
         \A y \in StagesOf(p[1]) : y[2] < p[2] => stage'[y] # "interrupted"
  PROVE  Executing(w)'
  <1>1. pc'[w] = Entry(p) /\ at'[w] = p
    BY DEF Visit, Goto, TypeOK, LocalTypeOK
  <1>2. Entry(p) \in {"finalize", "skip", "start"}
    BY DEF Entry
  <1>3. Owns(w)'
    BY <1>1 DEF Owns
  <1> QED
    BY <1>1, <1>2, <1>3
       DEF Executing, StagePcs, SkipPcs, StartPcs, ScanPcs, RecheckPcs, FinishPcs

\* The step to the next stage, once this one has ended without an interrupt.
LEMMA NextExecuting ==
  ASSUME TypeOK, NEW w \in Workers, Executing(w), pc[w] \in StagePcs, NextStage(w),
         UNCHANGED <<token, manifest, owner>>,
         \A y \in StageIds \ {at[w]} : stage'[y] = stage[y],
         stage'[at[w]] # "interrupted"
  PROVE  Executing(w)'
  <1> DEFINE x == at[w]
             p == <<x[1], x[2] + 1>>
  <1>1. x \in StageIds
    BY DEF TypeOK, LocalTypeOK
  <1>2. p \in Positions /\ x[2] \in Nat
    BY <1>1, Successor, StageIdParts DEF Positions
  <1>3. ASSUME NEW y \in StagesOf(p[1]), y[2] < p[2] PROVE stage'[y] # "interrupted"
    <2>1. y \in StageIds /\ y[1] = x[1] /\ y = <<y[1], y[2]>> /\ x = <<x[1], x[2]>>
      BY <1>1, StageIdParts DEF StagesOf
    <2>2. y[2] \in Nat
      BY <2>1, StageIdParts
    <2>3. CASE y[2] < x[2]
      BY <1>2, <2>1, <2>2, <2>3 DEF Executing, StagesOf
    <2>4. CASE y[2] = x[2]
      BY <2>1, <2>4
    <2> QED BY <1>2, <1>3, <2>2, <2>3, <2>4
  <1>4. Visit(w, p) /\ p[1] = x[1]
    BY DEF NextStage
  <1>5. manifest'[p[1]] = "running" /\ owner'[p[1]] = token[w]
    BY <1>4 DEF Executing, Owns
  <1> HIDE DEF p
  <1> QED BY <1>2, <1>3, <1>4, <1>5, VisitExecuting

-----------------------------------------------------------------------------
\* A worker on its way through the plan, step by step of its loop and handlers.
LEMMA WorkExecuting ==
  ASSUME Before, NEW w \in Workers, Reconciling(w), Executing(w), Work(w)
  PROVE  Executing(w)'
  <1>t. /\ TypeOK /\ AtHand(w)
        /\ pc \in [Workers -> Pcs]
        /\ stage \in [StageIds -> StageStatus]
        /\ manifest \in [Assessments -> ManifestStatus]
        /\ owner \in [Assessments -> Nat]
        /\ outcome \in [Workers -> Outcomes]
    BY DEF Before, StagesInv, TypeOK, DataTypeOK, LocalTypeOK
  <1>s. pc[w] \in StagePcs => at[w] \in StageIds /\ KindOf(at[w]) \in Kinds
    BY <1>t, KindOfType DEF TypeOK, LocalTypeOK
  <1>l. Leave(w) => Executing(w)'
    BY <1>t, OutsideLoop DEF Leave, Goto
  <1>c. ASSUME NEW verdict, Conclude(w, verdict), pc[w] \in StagePcs,
               UNCHANGED <<at, token, manifest, owner, stage>>, stage[at[w]] = "running"
        PROVE  Executing(w)'
    BY <1>t, <1>c, StayExecuting DEF Conclude, StagePcs, FinishPcs
  <1>1. CASE Claim(w)
    <2>1. PICK a \in Assessments :
            /\ manifest' = [manifest EXCEPT ![a] = "running"]
            /\ owner' = [owner EXCEPT ![a] = token[w]]
            /\ Visit(w, <<a, 1>>)
      BY <1>1 DEF Claim
    <2> DEFINE p == <<a, 1>>
    <2>2. p \in Positions /\ p[1] = a /\ UNCHANGED token
      BY <1>1 DEF Claim, Positions
    <2>3. ASSUME NEW y \in StagesOf(p[1]), y[2] < p[2] PROVE stage'[y] # "interrupted"
      <3>1. y[2] \in 1 .. Len(Plan[y[1]])
        BY StageIdParts DEF StagesOf
      <3> QED BY <2>3, <3>1
    <2>4. Visit(w, p) /\ manifest'[p[1]] = "running" /\ owner'[p[1]] = token[w]
      BY <1>t, <2>1, <2>2
    <2> HIDE DEF p
    <2> QED BY <1>t, <2>2, <2>3, <2>4, VisitExecuting
  <1>2. CASE ClaimNothing(w)
    BY <1>2, <1>l DEF ClaimNothing
  <1>3. CASE CheckSkip(w)
    BY <1>3, <1>l, <1>t, StayExecuting
       DEF CheckSkip, StagePcs, SkipPcs, ScanPcs, RecheckPcs, FinishPcs, db
  <1>4. CASE SkipStage(w)
    <2>1. pc[w] \in StagePcs
      BY <1>4 DEF SkipStage, StagePcs, SkipPcs
    <2>2. CASE stage' = [stage EXCEPT ![at[w]] = "skipped"] /\ NextStage(w) /\ UNCHANGED token
      BY <1>4, <2>1, <2>2, <1>s, <1>t, NextExecuting DEF SkipStage
    <2> QED BY <1>4, <1>l, <2>2 DEF SkipStage
  <1>5. CASE StartStage(w)
    BY <1>5, <1>l, <1>t, StayExecuting
       DEF StartStage, StagePcs, StartPcs, ScanPcs, RecheckPcs, FinishPcs, db
  <1>6. CASE CommitStart(w)
    <2>1. pc[w] \in StagePcs
      BY <1>6 DEF CommitStart, StagePcs, StartPcs
    <2>2. /\ stage'[at[w]] = "running"
          /\ \A y \in StageIds \ {at[w]} : stage'[y] = stage[y]
      BY <1>6, <2>1, <1>s, <1>t DEF CommitStart
    <2>3. PICK label \in {"probe", "begin"} : Goto(w, label)
      BY <1>6 DEF CommitStart
    <2> QED
      BY <1>6, <1>t, <2>1, <2>2, <2>3, StayExecuting
         DEF CommitStart, StagePcs, ScanPcs, RecheckPcs
  <1>7. CASE BeginRun(w) \/ InsertRun(w) \/ Scan(w)
    <2>1. pc[w] \in StagePcs /\ stage[at[w]] = "running"
      BY <1>7 DEF BeginRun, InsertRun, Scan, Executing, StagePcs, ScanPcs
    <2>2. ASSUME NEW label \in ScanPcs, Goto(w, label) PROVE Executing(w)'
      BY <1>7, <1>t, <2>1, <2>2, StayExecuting
         DEF BeginRun, InsertRun, Scan, StagePcs, ScanPcs, db
    <2> QED BY <1>7, <1>c, <2>1, <2>2 DEF BeginRun, InsertRun, Scan, ScanPcs, db
  <1>8. CASE Ingest(w)
    <2>1. pc[w] \in StagePcs /\ stage[at[w]] = "running" /\ KindOf(at[w]) = "scanner"
      BY <1>8, <1>t DEF Ingest, Executing, AtHand, StagePcs, ScanPcs
    <2>2. CASE Goto(w, "cleanup") /\ UNCHANGED <<at, token>>
      BY <1>8, <1>t, <2>1, <2>2, StayExecuting
         DEF Ingest, StagePcs, ScanPcs, RecheckPcs, FinishPcs
    <2> QED BY <1>8, <1>c, <1>l, <2>1, <2>2 DEF Ingest
  <1>9. CASE Probe(w) \/ CheckPersist(w) \/ PublishRecheck(w)
    <2>1. pc[w] \in StagePcs /\ stage[at[w]] = "running"
      BY <1>9 DEF Probe, CheckPersist, PublishRecheck, Executing, StagePcs, RecheckPcs
    <2>2. ASSUME NEW label \in RecheckPcs, Goto(w, label) PROVE Executing(w)'
      BY <1>9, <1>t, <2>1, <2>2, StayExecuting
         DEF Probe, CheckPersist, PublishRecheck, StagePcs, RecheckPcs, db
    <2> QED BY <1>9, <1>c, <2>1, <2>2 DEF Probe, CheckPersist, PublishRecheck, RecheckPcs, db
  <1>10. CASE PersistRecheck(w)
    <2>1. /\ pc[w] \in StagePcs /\ stage[at[w]] = "running" /\ KindOf(at[w]) = "recheck"
          /\ outcome[w] \in {"completed", "failed"}
      BY <1>10, <1>t DEF PersistRecheck, Executing, AtHand, StagePcs, RecheckPcs
    <2>2. /\ stage'[at[w]] \in {"completed", "failed"}
          /\ \A y \in StageIds \ {at[w]} : stage'[y] = stage[y]
      BY <1>10, <2>1, <1>s, <1>t DEF PersistRecheck
    <2> QED
      BY <1>10, <1>t, <2>1, <2>2, StayExecuting
         DEF PersistRecheck, StagePcs, ScanPcs, RecheckPcs, FinishPcs
  <1>11. CASE CleanUp(w)
    <2>1. pc[w] \in StagePcs
      BY <1>11 DEF CleanUp, StagePcs
    <2>2. CASE KindOf(at[w]) = "scanner"
      BY <1>11, <1>c, <2>1, <2>2 DEF CleanUp, Executing, db
    <2>3. CASE KindOf(at[w]) # "scanner"
      BY <1>11, <1>t, <2>1, <2>3, NextExecuting DEF CleanUp, Executing, db
    <2> QED BY <2>2, <2>3
  <1>12. CASE CheckFinish(w)
    <2>1. pc[w] \in StagePcs /\ stage[at[w]] = "running"
      BY <1>12 DEF CheckFinish, Executing, StagePcs, FinishPcs
    <2> QED
      BY <1>12, <1>l, <1>t, <2>1, StayExecuting DEF CheckFinish, StagePcs, FinishPcs, db
  <1>13. CASE FinishStage(w)
    <2>1. pc[w] \in StagePcs
      BY <1>13 DEF FinishStage, StagePcs, FinishPcs
    <2>2. CASE /\ stage' = [stage EXCEPT ![at[w]] = outcome[w]]
               /\ outcome[w] # "interrupted" /\ NextStage(w) /\ UNCHANGED token
      BY <1>13, <2>1, <2>2, <1>s, <1>t, NextExecuting DEF FinishStage
    <2>3. CASE Goto(w, "finalize") /\ UNCHANGED <<at, token>>
      BY <1>13, <1>t, <2>1, <2>3, FinalizeExecuting DEF FinishStage
    <2> QED BY <1>13, <1>l, <2>2, <2>3 DEF FinishStage
  <1>14. CASE CheckFinalize(w)
    <2> DEFINE states == {stage[x] : x \in StagesOf(at[w][1])}
    <2>1. CASE /\ ~Unfinished(states) /\ Goto(w, "finalize_update")
               /\ Decide(w, Verdict(states)) /\ UNCHANGED <<at, token>>
      <3>1. pc'[w] = "finalize_update" /\ outcome'[w] = Verdict(states)
        BY <2>1, <1>t DEF Goto, Decide
      <3>2. UNCHANGED <<stage, manifest, owner>>
        BY <1>14 DEF CheckFinalize, db
      <3>3. states' = states
        BY <2>1, <3>2
      <3>4. Owns(w)'
        BY <1>14, <2>1, <3>2 DEF CheckFinalize, Executing, FinalPcs, Owns
      <3>5. ~Unfinished(states') /\ outcome'[w] = Verdict(states')
        BY <2>1, <3>1, <3>3
      <3> QED
        BY <3>1, <3>4, <3>5
           DEF Executing, StagePcs, SkipPcs, StartPcs, ScanPcs, RecheckPcs, FinishPcs
    <2> QED BY <1>14, <1>l, <2>1 DEF CheckFinalize
  <1>15. CASE Finalize(w)
    BY <1>15, <1>l DEF Finalize
  <1> QED
    BY <1>1, <1>2, <1>3, <1>4, <1>5, <1>6, <1>7, <1>8, <1>9, <1>10, <1>11, <1>12, <1>13, <1>14,
       <1>15 DEF Work

-----------------------------------------------------------------------------
(* The transaction of the holder.                                          *)

\* Each statement of reconcile_stale locks all there is of its kind, and nothing is
\* running once it has committed.
LEMMA ReconcileReconciling ==
  ASSUME Before, LockInv, NEW w \in Workers, Reconcile(w)
  PROVE  Reconciling(w)'
  <1>t. /\ pc \in [Workers -> Pcs]
        /\ tx \in [Workers -> Tx]
        /\ manifest \in [Assessments -> ManifestStatus]
        /\ Reconciling(w) /\ NoStageLeftRunning
    BY DEF Before, LockInv, TypeOK, DataTypeOK, LocalTypeOK
  <1>1. CASE SelectRunning(w)
    BY <1>1, <1>t DEF SelectRunning, SelectRows, Goto, db, Reconciling
  <1>2. CASE InterruptStages(w)
    <2>1. /\ pc'[w] = "runs" /\ UNCHANGED <<manifest, stage>>
          /\ tx'[w].manifests = tx[w].manifests
          /\ tx'[w].stages = StagesWith(w, {"running"})
      BY <1>2, <1>t DEF InterruptStages, InterruptRows, Goto, db, Tx
    <2>2. \A a \in Assessments : manifest[a] = "running" => a \in tx[w].manifests
      BY <1>2, <1>t DEF InterruptStages, InterruptRows, Reconciling
    <2>3. \A x \in StageIds : stage[x] = "running" => x \in StagesWith(w, {"running"})
      BY <2>2, <1>t, StageIdParts DEF StagesWith, NoStageLeftRunning
    <2> QED BY <2>1, <2>2, <2>3 DEF Reconciling
  <1>3. CASE InterruptRuns(w)
    BY <1>3, <1>t DEF InterruptRuns, Goto, db, Reconciling, Tx
  <1>4. CASE CommitReconcile(w)
    <2>1. pc'[w] \in {"idle", "claim"}
      BY <1>4, <1>t DEF CommitReconcile, EndReconcile, Leave, Goto
    <2>2. \A a \in Assessments : manifest'[a] # "running"
      BY <1>4, <1>t DEF CommitReconcile, Reconciling
    <2> QED BY <2>1, <2>2 DEF Reconciling
  <1> QED BY <1>1, <1>2, <1>3, <1>4 DEF Reconcile

\* Reconciliation leaves the worker outside its loop.
LEMMA ReconcileLabels ==
  ASSUME TypeOK, NEW w \in Workers, Reconcile(w) \/ BeginRunOne(w) \/ BeginReconcile(w)
  PROVE  pc'[w] \in {"idle", "claim"} \cup ReconcilePcs
  BY DEF TypeOK, LocalTypeOK, Reconcile, SelectRunning, SelectRows, InterruptStages,
         InterruptRows, InterruptRuns, CommitReconcile, EndReconcile, BeginRunOne,
         BeginReconcile, TakeLock, Leave, Goto, ReconcilePcs

\* The loop leads to a stage, to finalize or out.
LEMMA WorkLabels ==
  ASSUME TypeOK, NEW w \in Workers, Work(w)
  PROVE  pc'[w] \in {"idle", "select"} \cup StagePcs \cup FinalPcs
  <1> DEFINE Inside == {"idle", "select"} \cup StagePcs \cup FinalPcs
  <1>t. pc \in [Workers -> Pcs]
    BY DEF TypeOK, LocalTypeOK
  <1>l. Leave(w) => pc'[w] \in Inside
    BY <1>t DEF Leave, Goto
  <1>v. ASSUME NEW p, Visit(w, p) PROVE pc'[w] \in Inside
    BY <1>v, <1>t DEF Visit, Goto, Entry, StagePcs, SkipPcs, StartPcs, FinalPcs
  <1>n. NextStage(w) => pc'[w] \in Inside
    BY <1>v DEF NextStage
  <1>g. ASSUME NEW label \in Inside, Goto(w, label) PROVE pc'[w] \in Inside
    BY <1>g, <1>t DEF Goto
  <1>c. ASSUME NEW verdict, Conclude(w, verdict) PROVE pc'[w] \in Inside
    BY <1>c, <1>g DEF Conclude, StagePcs, FinishPcs
  <1>p. /\ {"skip_update", "start_commit", "begin", "begin_insert"} \subseteq Inside
        /\ {"scan", "ingest"} \subseteq Inside
        /\ {"probe", "persist", "publish", "persist_update", "cleanup"} \subseteq Inside
        /\ {"finish", "finish_update", "finalize", "finalize_update"} \subseteq Inside
    BY DEF StagePcs, SkipPcs, StartPcs, ScanPcs, RecheckPcs, FinishPcs, FinalPcs
  <1> SUFFICES pc'[w] \in Inside
    OBVIOUS
  <1> HIDE DEF Inside
  <1>1. CASE Claim(w) \/ ClaimNothing(w) \/ CheckSkip(w) \/ SkipStage(w) \/ StartStage(w)
             \/ CommitStart(w)
    BY <1>1, <1>l, <1>v, <1>n, <1>g, <1>p
       DEF Claim, ClaimNothing, CheckSkip, SkipStage, StartStage, CommitStart
  <1>2. CASE BeginRun(w) \/ InsertRun(w) \/ Scan(w) \/ Ingest(w)
    BY <1>2, <1>l, <1>g, <1>c, <1>p DEF BeginRun, InsertRun, Scan, Ingest
  <1>3. CASE Probe(w) \/ CheckPersist(w) \/ PublishRecheck(w) \/ PersistRecheck(w)
    BY <1>3, <1>g, <1>c, <1>p
       DEF Probe, CheckPersist, PublishRecheck, PersistRecheck
  <1>4. CASE CleanUp(w) \/ CheckFinish(w) \/ FinishStage(w) \/ CheckFinalize(w) \/ Finalize(w)
    BY <1>4, <1>l, <1>n, <1>g, <1>c, <1>p
       DEF CleanUp, CheckFinish, FinishStage, CheckFinalize, Finalize
  <1> QED BY <1>1, <1>2, <1>3, <1>4 DEF Work

\* An interrupt leads to the end of the stage or of the assessment.
LEMMA FaultExecuting ==
  ASSUME TypeOK, NEW w \in Workers, Executing(w), Crash(w) \/ CancelStage(w) \/ CancelLoop(w)
  PROVE  Executing(w)' /\ Reconciling(w)'
  <1>1. CASE Crash(w)
    <2>1. pc'[w] = "idle"
      BY <1>1 DEF Crash, Leave, Goto, TypeOK, LocalTypeOK
    <2> QED BY <2>1, OutsideLoop, InsideLoop
  <1>2. CASE CancelStage(w)
    <2>1. /\ pc[w] \in StagePcs /\ stage[at[w]] = "running"
          /\ UNCHANGED <<at, token, manifest, owner, stage>> /\ Goto(w, "finish")
      BY <1>2 DEF CancelStage, Conclude, Executing, StagePcs
    <2>2. "finish" \in StagePcs /\ "finish" \notin {"cleanup"} /\ pc'[w] = "finish"
      BY <2>1 DEF StagePcs, FinishPcs, Goto, TypeOK, LocalTypeOK
    <2> QED BY <2>1, <2>2, StayExecuting, InsideLoop
  <1>3. CASE CancelLoop(w)
    <2>1. /\ pc[w] \in StagePcs /\ Goto(w, "finalize")
          /\ UNCHANGED <<at, token, manifest, owner>>
      BY <1>3 DEF CancelLoop, StagePcs, db
    <2>2. pc'[w] \in FinalPcs
      BY <2>1 DEF FinalPcs, Goto, TypeOK, LocalTypeOK
    <2> QED BY <2>1, <2>2, FinalizeExecuting, InsideLoop
  <1> QED BY <1>1, <1>2, <1>3

-----------------------------------------------------------------------------
(* The inductive invariant.                                                *)

\* A worker that does not move, while at most new assessments and ended runs appear.
LEMMA IdleStep ==
  ASSUME TypeOK, NEW w \in Workers, Reconciling(w) /\ Executing(w),
         UNCHANGED <<local, owner, stage>>,
         \A a \in Assessments : manifest'[a] = manifest[a] \/ manifest[a] = "absent",
         \A a \in Assessments : manifest'[a] = "running" => manifest[a] = "running",
         \A x \in StageIds : run'[x] = "running" => run[x] = "running"
  PROVE  Reconciling(w)' /\ Executing(w)'
  <1>1. UNCHANGED <<pc, at, token, outcome, tx, owner, stage>>
    BY DEF local
  <1>2. Reconciling(w)'
    BY <1>1 DEF Reconciling
  <1>3. pc[w] \in StagePcs \cup FinalPcs => at[w][1] \in Assessments
    BY StageIdParts DEF TypeOK, LocalTypeOK, Positions
  <1>4. Owns(w) /\ pc[w] \in StagePcs \cup FinalPcs => Owns(w)'
    BY <1>1, <1>3 DEF Owns
  <1>5. Executing(w)'
    BY <1>1, <1>4 DEF Executing
  <1> QED BY <1>2, <1>5

\* What each worker may rely on, alone with the rows.
LEMMA HoldStep ==
  ASSUME Before, LockInv, losses' = 0, [Next]_vars, NEW v \in Workers
  PROVE  Reconciling(v)' /\ Executing(v)'
  <1>t. TypeOK /\ LockAdmitsOne /\ \A w \in Workers : Reconciling(w) /\ Executing(w)
    BY DEF Before, LockInv
  <1>0. manifest \in [Assessments -> ManifestStatus] /\ run \in [StageIds -> RunStatus]
    BY <1>t DEF TypeOK, DataTypeOK
  <1>1. CASE UNCHANGED vars
    BY <1>1, <1>t, IdleStep DEF vars, db
  <1>2. CASE \E a \in Assessments : Enqueue(a)
    <2>1. /\ UNCHANGED <<local, owner, stage, run>>
          /\ \A a \in Assessments : manifest'[a] = manifest[a] \/ manifest[a] = "absent"
          /\ \A a \in Assessments : manifest'[a] = "running" => manifest[a] = "running"
      BY <1>2, <1>0 DEF Enqueue
    <2> QED BY <2>1, <1>t, IdleStep
  <1>3. CASE \E x \in StageIds : ReconcileRun(x)
    <2>1. /\ UNCHANGED <<local, manifest, owner, stage>>
          /\ \A x \in StageIds : run'[x] = "running" => run[x] = "running"
      BY <1>3, <1>0 DEF ReconcileRun, EndRun
    <2> QED BY <2>1, <1>t, IdleStep
  <1>4. ASSUME NEW w \in Workers,
               \/ BeginRunOne(w) \/ BeginReconcile(w) \/ Reconcile(w) \/ Work(w)
               \/ Crash(w) \/ CancelStage(w) \/ CancelLoop(w),
               \A u \in Workers \ {w} : pc'[u] = "idle"
        PROVE  Reconciling(v)' /\ Executing(v)'
    <2>1. CASE v # w
      BY <1>4, <2>1, OutsideLoop, InsideLoop
    <2>2. CASE v = w
      <3> SUFFICES Reconciling(w)' /\ Executing(w)'
        BY <2>2
      <3>1. CASE BeginRunOne(w) \/ BeginReconcile(w)
        <4>1. pc'[w] = "select"
          BY <3>1, <1>t DEF BeginRunOne, BeginReconcile, TakeLock, Goto, TypeOK, LocalTypeOK
        <4> QED BY <4>1, OutsideLoop, InsideLoop DEF ReconcilePcs
      <3>2. CASE Reconcile(w)
        BY <3>2, <1>t, ReconcileReconciling, ReconcileLabels, OutsideLoop
      <3>3. CASE Work(w)
        BY <3>3, <1>t, WorkExecuting, WorkLabels, InsideLoop
      <3>4. CASE Crash(w) \/ CancelStage(w) \/ CancelLoop(w)
        BY <3>4, <1>t, FaultExecuting
      <3> QED BY <1>4, <3>1, <3>2, <3>3, <3>4
    <2> QED BY <2>1, <2>2
  <1> QED BY <1>1, <1>2, <1>3, <1>4, <1>t, SoleWorker

\* claim finds nothing running.
LEMMA OneRunningStep ==
  ASSUME Before, LockInv, [Next]_vars
  PROVE  OneRunning'
  <1> SUFFICES ASSUME NEW a \in Assessments, NEW b \in Assessments,
                      manifest'[a] = "running", manifest'[b] = "running"
               PROVE  a = b
    BY DEF OneRunning
  <1>1. CASE manifest[a] = "running" /\ manifest[b] = "running"
    BY <1>1 DEF LockInv, OneRunning
  <1>2. CASE ~(manifest[a] = "running" /\ manifest[b] = "running")
    <2>1. PICK c \in {a, b} : manifest[c] # "running" /\ manifest'[c] = "running"
      BY <1>2
    <2>2. PICK w \in Workers : Claim(w)
      BY <2>1, ManifestWrites
         DEF Before, TypeOK, DataTypeOK, LocalTypeOK, VerdictPcs, FinalPcs, Closed, Finalize
    <2>3. \A d \in Assessments : manifest[d] # "running"
      BY <2>2 DEF Claim, LockInv, Reconciling
    <2>4. PICK d \in Assessments : manifest' = [manifest EXCEPT ![d] = "running"]
      BY <2>2 DEF Claim
    <2> QED BY <2>3, <2>4 DEF Before, TypeOK, DataTypeOK
  <1> QED BY <1>1, <1>2

\* Nobody closes an assessment over a stage that is running.
LEMMA NoStageLeftStep ==
  ASSUME Before, LockInv, [Next]_vars
  PROVE  NoStageLeftRunning'
  <1> SUFFICES ASSUME NEW x \in StageIds, stage'[x] = "running"
               PROVE  manifest'[x[1]] = "running"
    BY DEF NoStageLeftRunning
  <1>t. /\ TypeOK /\ RowLocksHold /\ LaunchInv
        /\ \A w \in Workers : Reconciling(w) /\ Executing(w)
        /\ NoStageLeftRunning /\ x[1] \in Assessments
    BY StageIdParts DEF Before, LockInv
  <1>1. CASE stage[x] = "running"
    <2>1. manifest[x[1]] = "running"
      BY <1>1, <1>t DEF NoStageLeftRunning
    <2>2. ASSUME NEW w \in Workers, CommitReconcile(w) PROVE FALSE
      <3>1. x \in tx[w].stages
        BY <1>1, <1>t, <2>2 DEF CommitReconcile, Reconciling
      <3> QED BY <2>2, <3>1 DEF CommitReconcile
    <2>3. ASSUME NEW w \in Workers, Finalize(w), x[1] = at[w][1] PROVE FALSE
      <3>1. "running" \in {stage[y] : y \in StagesOf(at[w][1])}
        BY <1>1, <2>3 DEF StagesOf
      <3> QED BY <2>3, <3>1, <1>t DEF Finalize, Executing, Unfinished
    <2> QED BY <1>t, <2>1, <2>2, <2>3, ManifestWrites
  <1>2. CASE stage[x] # "running"
    <2>1. PICK w \in Workers : CommitStart(w) /\ x = at[w]
      <3>1. PICK w \in Workers :
              \/ CommitStart(w) /\ x = at[w]
              \/ (PersistRecheck(w) \/ FinishStage(w)) /\ stage'[x] = outcome[w]
        BY <1>2, <1>t, StageWrites
      <3>2. PersistRecheck(w) \/ FinishStage(w) => outcome[w] # "running"
        BY <1>t
           DEF TypeOK, LocalTypeOK, PersistRecheck, FinishStage, VerdictPcs, FinishPcs, Closed
      <3> QED BY <3>1, <3>2
    <2>2. Owns(w) /\ UNCHANGED manifest
      BY <2>1, <1>t DEF CommitStart, Executing, StagePcs, StartPcs
    <2> QED BY <2>1, <2>2 DEF Owns
  <1> QED BY <1>1, <1>2

\* Only history.begin makes a run, and whoever ends the stage of a running run links
\* the run or ends it.
LEMMA RunsTracedStep ==
  ASSUME Before, LockInv, [Next]_vars
  PROVE  RunsTraced'
  <1> SUFFICES ASSUME NEW x \in StageIds
               PROVE  /\ run'[x] # "none" => KindOf(x) = "scanner"
                      /\ run'[x] = "running" => stage'[x] = "running" \/ x \in result'
    BY DEF RunsTraced
  <1>t. /\ TypeOK /\ RowLocksHold /\ LaunchInv
        /\ \A w \in Workers : Reconciling(w) /\ Executing(w) /\ AtHand(w)
        /\ run \in [StageIds -> RunStatus] /\ stage \in [StageIds -> StageStatus]
        /\ run[x] # "none" => KindOf(x) = "scanner"
        /\ run[x] = "running" => stage[x] = "running" \/ x \in result
    BY DEF Before, LockInv, StagesInv, RunsTraced, TypeOK, DataTypeOK
  <1>1. ASSUME run'[x] # "none", run[x] = "none" \/ (run[x] # "running" /\ run'[x] = "running")
        PROVE  \E w \in Workers : InsertRun(w) /\ x = at[w]
    <2>1. PICK w \in Workers : InsertRun(w)
      <3>1. ASSUME NEW w \in Workers, CommitReconcile(w) PROVE FALSE
        BY <1>1, <1>t, <3>1 DEF CommitReconcile, RowLocksHold
      <3>2. ASSUME NEW w \in Workers, Scan(w) \/ CancelStage(w) PROVE FALSE
        BY <1>1, <1>t, <3>2 DEF Scan, CancelStage, EndRun
      <3>3. ASSUME NEW y \in StageIds, ReconcileRun(y) PROVE FALSE
        BY <1>1, <1>t, <3>3 DEF ReconcileRun, EndRun
      <3>4. ASSUME NEW w \in Workers, Ingest(w) PROVE FALSE
        BY <1>1, <1>t, <3>4 DEF Ingest
      <3>5. run' # run
        BY <1>1
      <3> QED
        BY <3>1, <3>2, <3>3, <3>4, <3>5
           DEF Next, Reconcile, Work, Fault, Enqueue, BeginRunOne, BeginReconcile, TakeLock,
               SelectRunning, SelectRows, InterruptStages, InterruptRows, InterruptRuns, Claim,
               ClaimNothing, CheckSkip, SkipStage, StartStage, CommitStart, BeginRun, Probe,
               CheckPersist, PublishRecheck, PersistRecheck, CleanUp, CheckFinish, FinishStage,
               CheckFinalize, Finalize, Crash, CancelLoop, LoseLock, vars, db
    <2> QED BY <1>1, <2>1, <1>t DEF InsertRun
  <1>2. run'[x] # "none" => KindOf(x) = "scanner"
    <2>1. ASSUME NEW w \in Workers, InsertRun(w) PROVE KindOf(at[w]) = "scanner"
      BY <2>1, <1>t DEF InsertRun, AtHand, ScanPcs
    <2>2. CASE run'[x] # "none" /\ run[x] = "none"
      <3>1. PICK w \in Workers : InsertRun(w) /\ x = at[w]
        BY <1>1, <2>2
      <3> QED BY <2>1, <3>1
    <2> QED BY <1>t, <2>2
  <1>3. ASSUME run'[x] = "running" PROVE stage'[x] = "running" \/ x \in result'
    <2>1. CASE run[x] # "running"
      <3>1. PICK w \in Workers : InsertRun(w) /\ x = at[w]
        BY <1>1, <1>3, <2>1
      <3> QED BY <3>1, <1>t DEF InsertRun, Executing, ScanPcs
    <2>2. CASE run[x] = "running" /\ x \in result
      BY <2>2, EvidenceGrows
    <2>3. CASE run[x] = "running" /\ stage[x] = "running" /\ stage'[x] # "running"
      <3>1. PICK w \in Workers :
              \/ CommitReconcile(w) /\ x \in tx[w].stages
              \/ PersistRecheck(w) /\ x = at[w]
              \/ FinishStage(w) /\ result' = LinkResult(x)
        BY <2>3, <1>t, StageWrites
      <3>2. CASE CommitReconcile(w) /\ x \in tx[w].stages
        <4>1. x \in tx[w].runs
          BY <2>3, <3>2, <1>t DEF CommitReconcile, RowLocksHold, Reconciling
        <4> QED BY <1>3, <3>2, <4>1 DEF CommitReconcile
      <3>3. CASE PersistRecheck(w) /\ x = at[w]
        BY <2>3, <3>3, <1>t DEF PersistRecheck, AtHand, RecheckPcs
      <3>4. CASE FinishStage(w) /\ result' = LinkResult(x)
        BY <2>3, <3>4 DEF LinkResult
      <3> QED BY <3>1, <3>2, <3>3, <3>4
    <2> QED BY <2>1, <2>2, <2>3, <1>t
  <1> QED BY <1>2, <1>3

\* LockInv is inductive as long as no lock is lost.
LEMMA LockInvStep ==
  ASSUME Before, LockInv, losses' = 0, [Next]_vars
  PROVE  LockInv'
  <1>1. LockAdmitsOne'
    BY LockStep DEF Before, LockInv
  <1>2. \A w \in Workers : Reconciling(w)' /\ Executing(w)'
    BY HoldStep
  <1> QED BY <1>1, <1>2, OneRunningStep, NoStageLeftStep, RunsTracedStep DEF LockInv

\* The invariants of the other modules, together.
LEMMA BeforeHolds == Spec => []Before
  BY TypeCorrect, RowLocks, LaunchInvHolds, StagesInvHolds, PTL DEF Before

\* It holds in every behaviour in which the lock outlives its holders.
LEMMA LockInvHolds == Spec /\ [](losses = 0) => []LockInv
  <1>1. Init => LockInv
    BY DEF Init, LockInv, LockAdmitsOne, OneRunning, RunsTraced, NoStageLeftRunning,
           Reconciling, Executing, StagePcs, FinalPcs, SkipPcs, StartPcs, ScanPcs,
           RecheckPcs, FinishPcs
  <1>2. Before /\ LockInv /\ (losses = 0)' /\ [Next]_vars => LockInv'
    BY LockInvStep
  <1> QED BY <1>1, <1>2, BeforeHolds, PTL DEF Spec

\* The hypothesis is what the instances without lock losses satisfy: where the bound
\* on losses is 0, no behaviour has one.
LEMMA LockNeverLost ==
  ASSUME MaxLockLosses = 0
  PROVE  Spec => [](losses = 0)
  <1>1. Init => losses = 0
    BY DEF Init
  <1>2. losses = 0 /\ [Next]_vars => (losses = 0)'
    <2> SUFFICES ASSUME losses = 0, [Next]_vars PROVE losses' = losses
      OBVIOUS
    <2>1. ASSUME \/ UNCHANGED vars
                 \/ \E a \in Assessments : Enqueue(a)
                 \/ \E x \in StageIds : ReconcileRun(x)
          PROVE  losses' = losses
      BY <2>1 DEF vars, bound, Enqueue, ReconcileRun
    <2>2. ASSUME NEW w \in Workers, BeginRunOne(w) \/ BeginReconcile(w) \/ Reconcile(w)
          PROVE  losses' = losses
      BY <2>2 DEF BeginRunOne, BeginReconcile, TakeLock, Reconcile, SelectRunning,
                  SelectRows, InterruptRows, InterruptStages, InterruptRuns, CommitReconcile,
                  bound
    <2>3. ASSUME NEW w \in Workers,
                 \/ Claim(w) \/ ClaimNothing(w) \/ CheckSkip(w) \/ SkipStage(w)
                 \/ StartStage(w) \/ CommitStart(w)
                 \/ BeginRun(w) \/ InsertRun(w) \/ Scan(w) \/ Ingest(w)
          PROVE  losses' = losses
      BY <2>3 DEF Claim, ClaimNothing, CheckSkip, SkipStage, StartStage, CommitStart,
                  BeginRun, InsertRun, Scan, Ingest, bound
    <2>4. ASSUME NEW w \in Workers,
                 \/ Probe(w) \/ CheckPersist(w) \/ PublishRecheck(w) \/ PersistRecheck(w)
                 \/ CleanUp(w) \/ CheckFinish(w) \/ FinishStage(w)
                 \/ CheckFinalize(w) \/ Finalize(w)
          PROVE  losses' = losses
      BY <2>4 DEF Probe, CheckPersist, PublishRecheck, PersistRecheck, CleanUp, CheckFinish,
                  FinishStage, CheckFinalize, Finalize, bound
    <2>5. ASSUME NEW w \in Workers, Crash(w) \/ CancelStage(w) \/ CancelLoop(w)
          PROVE  losses' = losses
      BY <2>5 DEF Crash, CancelStage, CancelLoop
    <2>6. ASSUME NEW w \in Workers, LoseLock(w) PROVE FALSE
      BY <2>6 DEF LoseLock
    <2> QED BY <2>1, <2>2, <2>3, <2>4, <2>5, <2>6 DEF Next, Work, Fault
  <1> QED BY <1>1, <1>2, PTL DEF Spec

-----------------------------------------------------------------------------
(* What the lock gives the reader of an assessment.                        *)

\* As long as the lock outlives its holders, only a running assessment has a
\* running stage: no finalize and no reconcile_stale closes one over it.
THEOREM NothingLeftRunning == Spec /\ [](losses = 0) => []NoStageLeftRunning
  <1>1. LockInv => NoStageLeftRunning
    BY DEF LockInv
  <1> QED BY <1>1, LockInvHolds, PTL

\* Likewise a run still running under a closed assessment is linked from its stage.
THEOREM NoRunOrphaned == Spec /\ [](losses = 0) => []NoOrphanRun
  <1>1. LockInv => NoOrphanRun
    BY DEF LockInv, NoStageLeftRunning, RunsTraced, NoOrphanRun, Closed
  <1> QED BY <1>1, LockInvHolds, PTL

\* And a closed assessment is frozen: no stage of it changes and no report is added.
THEOREM ClosedIsFrozen == Spec /\ [](losses = 0) => ClosedFrozen
  <1> DEFINE Frozen ==
        \A a \in Assessments : manifest[a] \in Closed =>
          \A x \in StagesOf(a) : stage'[x] = stage[x] /\ (x \in report' <=> x \in report)
  <1>1. Before /\ LockInv /\ [Next]_vars => [Frozen]_vars
    <2> SUFFICES ASSUME Before, LockInv, [Next]_vars, NEW a \in Assessments,
                        NEW x \in StagesOf(a),
                        stage'[x] # stage[x] \/ ~(x \in report' <=> x \in report)
                 PROVE  manifest[a] \notin Closed
      OBVIOUS
    <2>t. /\ TypeOK /\ RowLocksHold /\ LaunchInv
          /\ \A w \in Workers : Executing(w)
          /\ x \in StageIds /\ x[1] = a
      BY DEF Before, LockInv, StagesOf
    <2>1. CASE stage'[x] # stage[x]
      <3>1. PICK w \in Workers :
              \/ x = at[w] /\ pc[w] \in StagePcs
              \/ x \in tx[w].stages
        BY <2>1, <2>t, StageWrites
           DEF SkipStage, CommitStart, PersistRecheck, FinishStage, StagePcs, SkipPcs, StartPcs,
               RecheckPcs, FinishPcs
      <3>2. CASE x = at[w] /\ pc[w] \in StagePcs
        BY <3>2, <2>t DEF Executing, Owns, Closed
      <3>3. CASE x \in tx[w].stages
        <4>1. manifest[a] = "running"
          BY <3>3, <2>t DEF RowLocksHold
        <4> QED BY <4>1 DEF Closed
      <3> QED BY <3>1, <3>2, <3>3
    <2>2. CASE stage'[x] = stage[x] /\ x \in report' /\ x \notin report
      <3>1. PICK w \in Workers : x = at[w] /\ pc[w] \in StagePcs
        BY <2>2, <2>t, ReportWrites DEF PersistRecheck, StagePcs, RecheckPcs
      <3>2. manifest[a] = "running"
        BY <3>1, <2>t DEF Executing, Owns
      <3> QED BY <3>2 DEF Closed
    <2> QED BY <2>1, <2>2, EvidenceGrows
  <1> QED BY <1>1, LockInvHolds, BeforeHolds, PTL DEF Spec, ClosedFrozen

-----------------------------------------------------------------------------
(* The refinement of AssessmentLifecycle.                                  *)

\* The plan is the same on both sides.
LEMMA LifecycleTerms ==
  /\ Lifecycle!StageIds = StageIds
  /\ \A a : Lifecycle!StagesOf(a) = StagesOf(a)
  /\ \A x : Lifecycle!KindOf(x) = KindOf(x)
  /\ Lifecycle!Closed = Closed /\ Lifecycle!Ended = Ended
  BY DEF Lifecycle!StageIds, StageIds, Lifecycle!StagesOf, StagesOf, Lifecycle!KindOf, KindOf,
         Lifecycle!Closed, Closed, Lifecycle!Ended, Ended

\* skip_stage and the commit of start_stage take the stage at hand.
LEMMA TakeImplemented ==
  ASSUME Before, LockInv, NEW w \in Workers, SkipStage(w) \/ CommitStart(w)
  PROVE  Lifecycle!Take(at[w]) \/ UNCHANGED <<manifest, stage>>
  <1>t. TypeOK /\ LaunchInv /\ AtHand(w) /\ Executing(w)
    BY DEF Before, LockInv, StagesInv
  <1>1. pc[w] \in StagePcs
    BY DEF SkipStage, CommitStart, StagePcs, SkipPcs, StartPcs
  <1>2. at[w] \in StageIds /\ Owns(w)
    BY <1>1, <1>t DEF TypeOK, LocalTypeOK, Executing
  <1>3. \A y \in StagesOf(at[w][1]) : y[2] < at[w][2] => stage[y] \in Ended \ {"interrupted"}
    BY <1>1, <1>t DEF AtHand, Executing
  <1>4. CASE SkipStage(w) /\ stage' # stage
    <2>1. KindOf(at[w]) = "skip"
      BY <1>4, <1>t DEF SkipStage, AtHand, SkipPcs
    <2>2. /\ stage[at[w]] = "pending" /\ UNCHANGED manifest
          /\ stage' = [stage EXCEPT ![at[w]] = "skipped"]
      BY <1>4 DEF SkipStage
    <2> QED BY <1>2, <1>3, <2>1, <2>2, LifecycleTerms DEF Lifecycle!Take, Owns
  <1>5. CASE SkipStage(w) /\ stage' = stage
    BY <1>5 DEF SkipStage
  <1>6. CASE CommitStart(w)
    <2>1. KindOf(at[w]) # "skip" /\ stage[at[w]] = "pending"
      BY <1>6, <1>t DEF CommitStart, AtHand, StartPcs, LaunchInv
    <2>2. UNCHANGED manifest /\ stage' = [stage EXCEPT ![at[w]] = "running"]
      BY <1>6 DEF CommitStart
    <2> QED BY <1>2, <1>3, <2>1, <2>2, LifecycleTerms DEF Lifecycle!Take, Owns
  <1> QED BY <1>4, <1>5, <1>6

\* persist_recheck and finish_stage end it.
LEMMA EndImplemented ==
  ASSUME Before, LockInv, NEW w \in Workers, PersistRecheck(w) \/ FinishStage(w)
  PROVE  Lifecycle!End(at[w]) \/ UNCHANGED <<manifest, stage>>
  <1>t. TypeOK /\ Executing(w)
    BY DEF Before, LockInv
  <1>1. pc[w] \in StagePcs /\ pc[w] \in VerdictPcs
    BY DEF PersistRecheck, FinishStage, StagePcs, RecheckPcs, FinishPcs, VerdictPcs
  <1>2. Owns(w) /\ outcome[w] \in Closed
    BY <1>1, <1>t DEF TypeOK, LocalTypeOK, Executing
  <1>3. /\ UNCHANGED manifest
        /\ \/ stage[at[w]] = "running" /\ stage' = [stage EXCEPT ![at[w]] = outcome[w]]
           \/ stage' = stage
    BY DEF PersistRecheck, FinishStage
  <1> QED BY <1>2, <1>3, LifecycleTerms DEF Lifecycle!End, Owns

\* finalize concludes the assessment from stages that have not changed since.
LEMMA ConcludeImplemented ==
  ASSUME Before, LockInv, NEW w \in Workers, Finalize(w)
  PROVE  Lifecycle!Conclude(at[w][1])
  <1> DEFINE states == {stage[x] : x \in StagesOf(at[w][1])}
  <1>1. pc[w] = "finalize_update" /\ Executing(w) /\ UNCHANGED stage
    BY DEF Finalize, LockInv
  <1>2. Owns(w) /\ ~Unfinished(states) /\ outcome[w] = Verdict(states)
    BY <1>1 DEF Executing, FinalPcs
  <1>3. manifest' = [manifest EXCEPT ![at[w][1]] = outcome[w]]
    BY <1>2 DEF Finalize
  <1>4. {stage[x] : x \in Lifecycle!StagesOf(at[w][1])} = states
    BY LifecycleTerms
  <1> HIDE DEF states
  <1>5. ~Lifecycle!Unfinished(states) /\ Lifecycle!Verdict(states) = outcome[w]
    BY <1>2 DEF Lifecycle!Unfinished, Unfinished, Lifecycle!Verdict, Verdict
  <1> QED BY <1>1, <1>2, <1>3, <1>4, <1>5 DEF Lifecycle!Conclude, Owns

\* reconcile_stale abandons the assessment that was running, if there was one.
LEMMA AbandonImplemented ==
  ASSUME Before, LockInv, NEW w \in Workers, CommitReconcile(w)
  PROVE  (\E a \in Assessments : Lifecycle!Abandon(a)) \/ UNCHANGED <<manifest, stage>>
  <1>t. /\ manifest \in [Assessments -> ManifestStatus]
        /\ stage \in [StageIds -> StageStatus]
        /\ tx[w].manifests \subseteq Assessments
        /\ RowLocksHold /\ OneRunning /\ Reconciling(w)
    BY DEF Before, LockInv, TypeOK, DataTypeOK, LocalTypeOK, Tx
  <1>m. /\ manifest' = [a \in Assessments |->
                          IF a \in tx[w].manifests THEN "interrupted" ELSE manifest[a]]
        /\ stage' = [x \in StageIds |->
                       IF x \in tx[w].stages THEN "interrupted" ELSE stage[x]]
    BY DEF CommitReconcile
  <1>s. \A x \in StageIds :
          x \in tx[w].stages <=> x[1] \in tx[w].manifests /\ stage[x] = "running"
    BY <1>t DEF RowLocksHold, CommitReconcile, Reconciling
  <1>1. CASE tx[w].manifests = {}
    <2>1. manifest' = manifest
      BY <1>1, <1>m, <1>t
    <2>2. stage' = stage
      BY <1>1, <1>m, <1>s, <1>t
    <2> QED BY <2>1, <2>2
  <1>2. CASE tx[w].manifests # {}
    <2>1. PICK a \in Assessments : a \in tx[w].manifests
      BY <1>2, <1>t
    <2>2. manifest[a] = "running" /\ tx[w].manifests = {a}
      BY <2>1, <1>t DEF RowLocksHold, OneRunning
    <2>3. manifest' = [manifest EXCEPT ![a] = "interrupted"]
      BY <1>m, <2>2, <1>t
    <2>4. stage' = [x \in StageIds |->
                      IF x[1] = a /\ stage[x] = "running" THEN "interrupted" ELSE stage[x]]
      BY <1>m, <1>s, <2>2
    <2> QED BY <2>2, <2>3, <2>4, LifecycleTerms DEF Lifecycle!Abandon
  <1> QED BY <1>1, <1>2

\* Every other step of the worker is invisible to the reader, or creates or claims.
LEMMA LifecycleStep ==
  ASSUME Before, LockInv, [Next]_vars
  PROVE  [Lifecycle!Next]_(Lifecycle!vars)
  <1>1. \/ UNCHANGED <<manifest, stage>>
        \/ \E a \in Assessments : Enqueue(a)
        \/ \E w \in Workers :
             \/ Claim(w) \/ Finalize(w) \/ CommitReconcile(w)
             \/ SkipStage(w) \/ CommitStart(w) \/ PersistRecheck(w) \/ FinishStage(w)
    BY DEF Next, Reconcile, Work, Fault, BeginRunOne, BeginReconcile, TakeLock,
           SelectRunning, SelectRows, InterruptStages, InterruptRows, InterruptRuns,
           ClaimNothing, CheckSkip, StartStage, BeginRun, InsertRun, Scan, Ingest, Probe,
           CheckPersist, PublishRecheck, CleanUp, CheckFinish, CheckFinalize, Crash,
           CancelStage, CancelLoop, LoseLock, ReconcileRun, vars, db
  <1>t. \A w \in Workers : pc[w] \in StagePcs \cup FinalPcs => at[w][1] \in Assessments
    BY StageIdParts DEF Before, TypeOK, LocalTypeOK, Positions
  <1>s. \A w \in Workers : pc[w] \in StagePcs => at[w] \in Lifecycle!StageIds
    BY LifecycleTerms DEF Before, TypeOK, LocalTypeOK
  <1>2. CASE UNCHANGED <<manifest, stage>>
    BY <1>2 DEF Lifecycle!vars
  <1>3. ASSUME NEW a \in Assessments, Enqueue(a) PROVE Lifecycle!Next
    BY <1>3 DEF Enqueue, Lifecycle!Next, Lifecycle!Create
  <1>4. ASSUME NEW w \in Workers, Claim(w) PROVE Lifecycle!Next
    <2>1. \A b \in Assessments : manifest[b] # "running"
      BY <1>4 DEF Claim, LockInv, Reconciling
    <2>2. PICK a \in Assessments :
            manifest[a] = "pending" /\ manifest' = [manifest EXCEPT ![a] = "running"]
      BY <1>4 DEF Claim
    <2> QED BY <1>4, <2>1, <2>2 DEF Claim, Lifecycle!Next, Lifecycle!Claim
  <1>5. ASSUME NEW w \in Workers, Finalize(w) PROVE Lifecycle!Next
    <2>1. at[w][1] \in Assessments
      BY <1>5, <1>t DEF Finalize, FinalPcs
    <2> QED BY <1>5, <2>1, ConcludeImplemented DEF Lifecycle!Next
  <1>6. ASSUME NEW w \in Workers, CommitReconcile(w)
        PROVE  Lifecycle!Next \/ UNCHANGED <<manifest, stage>>
    BY <1>6, AbandonImplemented DEF Lifecycle!Next
  <1>7. ASSUME NEW w \in Workers, SkipStage(w) \/ CommitStart(w)
        PROVE  Lifecycle!Next \/ UNCHANGED <<manifest, stage>>
    <2>1. at[w] \in Lifecycle!StageIds
      BY <1>7, <1>s DEF SkipStage, CommitStart, StagePcs, SkipPcs, StartPcs
    <2> QED BY <1>7, <2>1, TakeImplemented DEF Lifecycle!Next
  <1>8. ASSUME NEW w \in Workers, PersistRecheck(w) \/ FinishStage(w)
        PROVE  Lifecycle!Next \/ UNCHANGED <<manifest, stage>>
    <2>1. at[w] \in Lifecycle!StageIds
      BY <1>8, <1>s DEF PersistRecheck, FinishStage, StagePcs, RecheckPcs, FinishPcs
    <2> QED BY <1>8, <2>1, EndImplemented DEF Lifecycle!Next
  <1> QED BY <1>1, <1>2, <1>3, <1>4, <1>5, <1>6, <1>7, <1>8 DEF Lifecycle!vars

\* As long as the lock outlives its holders, the durable worker implements the
\* lifecycle promised to the reader: one assessment at a time, its stages in order
\* and once, conclusions and abandonments that are atomic.
THEOREM LifecycleImplemented == Spec /\ [](losses = 0) => ImplementsLifecycle
  <1>1. Init => Lifecycle!Init
    BY LifecycleTerms DEF Init, Lifecycle!Init
  <1>2. Before /\ LockInv /\ [Next]_vars => [Lifecycle!Next]_(Lifecycle!vars)
    BY LifecycleStep
  <1> QED
    BY <1>1, <1>2, BeforeHolds, LockInvHolds, PTL DEF Spec, ImplementsLifecycle, Lifecycle!Spec
=============================================================================
