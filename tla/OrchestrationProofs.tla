------------------------ MODULE OrchestrationProofs ------------------------
(***************************************************************************)
(* Theorems about Orchestration, for every set of assessments, plan and    *)
(* set of workers, and for any number of claims, faults and lock losses.   *)
(***************************************************************************)
EXTENDS Orchestration, TLAPS

-----------------------------------------------------------------------------
(* Stage identifiers.                                                      *)

\* A stage identifier is a pair of an assessment and a position in its plan.
LEMMA StageIdParts ==
  ASSUME NEW x \in StageIds
  PROVE  /\ x[1] \in Assessments
         /\ x[2] \in 1 .. Len(Plan[x[1]])
         /\ x = <<x[1], x[2]>>
         /\ x \in Assessments \X Nat
  <1>1. PICK a \in Assessments : x \in {a} \X (1 .. Len(Plan[a]))
    BY DEF StageIds
  <1>2. Len(Plan[a]) \in Nat
    BY PlanAssumption DEF Kinds
  <1> QED BY <1>1, <1>2

\* Conversely, a position within the plan is a stage.
LEMMA PairIsStage ==
  ASSUME NEW p \in Assessments \X Nat, p[2] >= 1, ~(p[2] > Len(Plan[p[1]]))
  PROVE  p \in StageIds
  <1>1. Len(Plan[p[1]]) \in Nat
    BY PlanAssumption DEF Kinds
  <1>2. p \in {p[1]} \X (1 .. Len(Plan[p[1]]))
    BY <1>1
  <1> QED BY <1>2 DEF StageIds

\* The head of the loop either has a stage to visit or goes to finalize.
LEMMA EntryCases ==
  ASSUME NEW p \in Assessments \X Nat, p[2] >= 1
  PROVE  \/ Entry(p) = "finalize"
         \/ Entry(p) \in {"skip", "start"} /\ p \in StageIds
  BY PairIsStage DEF Entry

\* The position after a stage is a position.
LEMMA Successor ==
  ASSUME NEW x \in StageIds
  PROVE  <<x[1], x[2] + 1>> \in Assessments \X Nat /\ <<x[1], x[2] + 1>>[2] >= 1
  <1>1. Len(Plan[x[1]]) \in Nat /\ x[1] \in Assessments /\ x[2] \in 1 .. Len(Plan[x[1]])
    BY StageIdParts, PlanAssumption DEF Kinds
  <1> QED BY <1>1

-----------------------------------------------------------------------------
(* Type correctness.                                                       *)

\* Returning from run_one or reconcile keeps the worker's locals well typed.
LEMMA LeaveType ==
  ASSUME LocalTypeOK, NEW w \in Workers, Leave(w)
  PROVE  LocalTypeOK'
  <1>1. "idle" \in Pcs /\ "idle" \notin StagePcs /\ "idle" \notin FinalPcs /\ "idle" \notin VerdictPcs
    BY DEF VerdictPcs, Pcs, ReconcilePcs, StagePcs, FinalPcs, SkipPcs, StartPcs, ScanPcs,
       RecheckPcs,
          FinishPcs
  <1>2. NoTx \in Tx /\ "none" \in Outcomes
    BY DEF NoTx, Tx, Outcomes
  <1> QED BY <1>1, <1>2 DEF LocalTypeOK, Leave, Goto, Decide

\* Moving to a position of the plan keeps them well typed.
LEMMA VisitType ==
  ASSUME LocalTypeOK, NEW w \in Workers,
         NEW p \in Positions, p[2] >= 1, Visit(w, p),
         UNCHANGED <<lock, token, tx>>
  PROVE  LocalTypeOK'
  <1>1. Entry(p) = "finalize" \/ (Entry(p) \in {"skip", "start"} /\ p \in StageIds)
    BY EntryCases DEF Positions
  <1>2. Entry(p) \in Pcs /\ "finalize" \notin StagePcs
    BY <1>1 DEF Pcs, ReconcilePcs, StagePcs, FinalPcs, SkipPcs, StartPcs, ScanPcs, RecheckPcs,
          FinishPcs
  <1>3. "skip" \notin FinalPcs /\ "start" \notin FinalPcs /\ Entry(p) \notin VerdictPcs
    BY <1>1
       DEF VerdictPcs, Pcs, ReconcilePcs, StagePcs, FinalPcs, SkipPcs, StartPcs, ScanPcs,
           RecheckPcs,
          FinishPcs
  <1> QED BY <1>1, <1>2, <1>3 DEF LocalTypeOK, Visit, Goto, Decide, Outcomes

\* So does moving on within a stage, or from a stage to finalize.
LEMMA StageStepType ==
  ASSUME LocalTypeOK, NEW w \in Workers, pc[w] \in StagePcs,
         NEW label \in StagePcs \cup FinalPcs, Goto(w, label),
         outcome' \in [Workers -> Outcomes],
         \A v \in Workers \ {w} : outcome'[v] = outcome[v],
         label \in VerdictPcs => outcome'[w] \in Closed,
         UNCHANGED <<lock, at, token, tx>>
  PROVE  LocalTypeOK'
  <1>1. at[w] \in StageIds /\ at[w] \in Positions
    BY StageIdParts DEF LocalTypeOK, Positions
  <1>2. label \in Pcs
    BY DEF Pcs
  <1> QED BY <1>1, <1>2 DEF LocalTypeOK, Goto
-----------------------------------------------------------------------------
\* The rows stay well typed: one obligation per group of actions.
LEMMA DataTypeStep ==
  ASSUME TypeOK, [Next]_vars
  PROVE  DataTypeOK'
  <1> USE DEF TypeOK, DataTypeOK, ManifestStatus, StageStatus, RunStatus, Closed
  <1>1. CASE UNCHANGED vars
    BY <1>1 DEF vars, db, bound
  <1>2. ASSUME NEW a \in Assessments, Enqueue(a) PROVE DataTypeOK'
    BY <1>2 DEF Enqueue, bound
  <1>3. ASSUME NEW w \in Workers, BeginRunOne(w) PROVE DataTypeOK'
    BY <1>3 DEF BeginRunOne, TakeLock, db
  <1>4. ASSUME NEW w \in Workers, BeginReconcile(w) PROVE DataTypeOK'
    BY <1>4 DEF BeginReconcile, TakeLock, db
  <1>5. ASSUME NEW w \in Workers, SelectRunning(w) PROVE DataTypeOK'
    BY <1>5 DEF SelectRunning, SelectRows, db, bound
  <1>6. ASSUME NEW w \in Workers, InterruptStages(w) PROVE DataTypeOK'
    BY <1>6 DEF InterruptStages, InterruptRows, StagesWith, db, bound
  <1>7. ASSUME NEW w \in Workers, InterruptRuns(w) PROVE DataTypeOK'
    BY <1>7 DEF InterruptRuns, db, bound
  <1>8. ASSUME NEW w \in Workers, CommitReconcile(w) PROVE DataTypeOK'
    BY <1>8 DEF CommitReconcile, EndReconcile, db, bound
  <1>9. ASSUME NEW w \in Workers, Claim(w) PROVE DataTypeOK'
    BY <1>9 DEF Claim, LocalTypeOK, bound
  <1>10. ASSUME NEW w \in Workers, ClaimNothing(w) PROVE DataTypeOK'
    BY <1>10 DEF ClaimNothing, db, bound
  <1>11. ASSUME NEW w \in Workers, CheckSkip(w) PROVE DataTypeOK'
    BY <1>11 DEF CheckSkip, db, bound
  <1>12. ASSUME NEW w \in Workers, SkipStage(w) PROVE DataTypeOK'
    BY <1>12 DEF SkipStage, bound
  <1>13. ASSUME NEW w \in Workers, StartStage(w) PROVE DataTypeOK'
    BY <1>13 DEF StartStage, db, bound
  <1>14. ASSUME NEW w \in Workers, CommitStart(w) PROVE DataTypeOK'
    BY <1>14 DEF CommitStart, StagePcs, StartPcs, LocalTypeOK, bound
  <1>15. ASSUME NEW w \in Workers, BeginRun(w) PROVE DataTypeOK'
    BY <1>15 DEF BeginRun, db, bound
  <1>i. ASSUME NEW w \in Workers, InsertRun(w) PROVE DataTypeOK'
    BY <1>i DEF InsertRun, LocalTypeOK, StagePcs, ScanPcs, bound
  <1>16. ASSUME NEW w \in Workers, Scan(w) PROVE DataTypeOK'
    BY <1>16 DEF Scan, EndRun, bound
  <1>17. ASSUME NEW w \in Workers, Ingest(w) PROVE DataTypeOK'
    BY <1>17 DEF Ingest, db, bound
  <1>18. ASSUME NEW w \in Workers, Probe(w) PROVE DataTypeOK'
    BY <1>18 DEF Probe, LocalTypeOK, StagePcs, RecheckPcs, db, bound
  <1>19. ASSUME NEW w \in Workers, CheckPersist(w) PROVE DataTypeOK'
    BY <1>19 DEF CheckPersist, db, bound
  <1>20. ASSUME NEW w \in Workers, PublishRecheck(w) PROVE DataTypeOK'
    BY <1>20 DEF PublishRecheck, db, bound
  <1>21. ASSUME NEW w \in Workers, PersistRecheck(w) PROVE DataTypeOK'
    BY <1>21 DEF PersistRecheck, LocalTypeOK, VerdictPcs, StagePcs, RecheckPcs, bound
  <1>22. ASSUME NEW w \in Workers, CleanUp(w) PROVE DataTypeOK'
    BY <1>22 DEF CleanUp, db, bound
  <1>23. ASSUME NEW w \in Workers, CheckFinish(w) PROVE DataTypeOK'
    BY <1>23 DEF CheckFinish, db, bound
  <1>24. ASSUME NEW w \in Workers, FinishStage(w) PROVE DataTypeOK'
    BY <1>24 DEF FinishStage, LinkResult, LocalTypeOK, VerdictPcs, StagePcs, FinishPcs, bound
  <1>25. ASSUME NEW w \in Workers, CheckFinalize(w) PROVE DataTypeOK'
    BY <1>25 DEF CheckFinalize, db, bound
  <1>26. ASSUME NEW w \in Workers, Finalize(w) PROVE DataTypeOK'
    BY <1>26 DEF Finalize, LocalTypeOK, VerdictPcs, FinalPcs, bound
  <1>27. ASSUME NEW w \in Workers, Crash(w) PROVE DataTypeOK'
    BY <1>27 DEF Crash, db
  <1>28. ASSUME NEW w \in Workers, CancelStage(w) PROVE DataTypeOK'
    BY <1>28 DEF CancelStage, EndRun, db
  <1>29. ASSUME NEW w \in Workers, CancelLoop(w) PROVE DataTypeOK'
    BY <1>29 DEF CancelLoop, db
  <1>30. ASSUME NEW w \in Workers, LoseLock(w) PROVE DataTypeOK'
    BY <1>30 DEF LoseLock, db
  <1>31. ASSUME NEW x \in StageIds, ReconcileRun(x) PROVE DataTypeOK'
    BY <1>31 DEF ReconcileRun, EndRun, bound
  <1> QED
    BY <1>1, <1>2, <1>3, <1>4, <1>5, <1>6, <1>7, <1>8, <1>9, <1>10, <1>11, <1>12, <1>13,
       <1>14, <1>15, <1>16, <1>17, <1>18, <1>19, <1>20, <1>21, <1>22, <1>23, <1>24, <1>25,
       <1>26, <1>27, <1>28, <1>29, <1>30, <1>31, <1>i
       DEF Next, Reconcile, Work, Fault

\* The workers' locals stay well typed.
LEMMA LocalTypeStep ==
  ASSUME TypeOK, [Next]_vars
  PROVE  LocalTypeOK'
  <1> USE DEF TypeOK
  <1>l. \A v \in Workers : at[v] \in StageIds =>
          /\ at[v][1] \in Assessments
          /\ <<at[v][1], at[v][2] + 1>> \in Positions
          /\ <<at[v][1], at[v][2] + 1>>[2] >= 1
    BY StageIdParts, Successor DEF Positions
  <1>o. outcome \in [Workers -> Outcomes] /\ Closed \subseteq Outcomes
    BY DEF LocalTypeOK, Outcomes
  <1>v. \A v \in Workers : pc[v] \in VerdictPcs => outcome[v] \in Closed
    BY DEF LocalTypeOK
  <1>d. ASSUME NEW w \in Workers, NEW verdict \in Closed \cup {"none"}, Decide(w, verdict)
        PROVE  /\ outcome' \in [Workers -> Outcomes] /\ outcome'[w] = verdict
               /\ \A v \in Workers \ {w} : outcome'[v] = outcome[v]
    BY <1>o, <1>d DEF Decide, Outcomes
  <1>1. CASE UNCHANGED local
    BY <1>1 DEF local, LocalTypeOK
  <1>2. ASSUME NEW w \in Workers, Leave(w) PROVE LocalTypeOK'
    BY <1>2, LeaveType
  <1>3. ASSUME NEW w \in Workers, NEW label \in {"select", "stages", "runs", "commit", "claim"},
               Goto(w, label), lock' \in Workers \cup {NoWorker},
               token' \in [Workers -> Nat], tx' \in [Workers -> Tx], UNCHANGED <<at, outcome>>
        PROVE  LocalTypeOK'
    <2>1. label \in Pcs /\ label \notin StagePcs /\ label \notin FinalPcs /\ label \notin VerdictPcs
      BY DEF Pcs, VerdictPcs, ReconcilePcs, StagePcs, FinalPcs, SkipPcs, StartPcs, ScanPcs,
         RecheckPcs, FinishPcs
    <2> QED BY <1>3, <2>1 DEF LocalTypeOK, Goto
  <1>4. ASSUME NEW w \in Workers, BeginRunOne(w) \/ BeginReconcile(w) PROVE LocalTypeOK'
    <2>1. Goto(w, "select") /\ lock' = w /\ UNCHANGED <<at, outcome, tx>> /\ token' \in [Workers -> Nat]
      BY <1>4 DEF BeginRunOne, BeginReconcile, TakeLock, LocalTypeOK, DataTypeOK
    <2> QED BY <2>1, <1>3 DEF LocalTypeOK
  <1>5. ASSUME NEW w \in Workers, SelectRunning(w) PROVE LocalTypeOK'
    <2>1. Goto(w, "stages") /\ UNCHANGED <<lock, token, at, outcome>> /\ tx' \in [Workers -> Tx]
      BY <1>5 DEF SelectRunning, SelectRows, LocalTypeOK, Tx
    <2> QED BY <2>1, <1>3 DEF LocalTypeOK
  <1>6. ASSUME NEW w \in Workers, InterruptStages(w) PROVE LocalTypeOK'
    <2>1. Goto(w, "runs") /\ UNCHANGED <<lock, token, at, outcome>> /\ tx' \in [Workers -> Tx]
      BY <1>6 DEF InterruptStages, InterruptRows, StagesWith, LocalTypeOK, Tx
    <2> QED BY <2>1, <1>3 DEF LocalTypeOK
  <1>7. ASSUME NEW w \in Workers, InterruptRuns(w) PROVE LocalTypeOK'
    <2>1. Goto(w, "commit") /\ UNCHANGED <<lock, token, at, outcome>> /\ tx' \in [Workers -> Tx]
      BY <1>7 DEF InterruptRuns, LocalTypeOK, Tx
    <2> QED BY <2>1, <1>3 DEF LocalTypeOK
  <1>8. ASSUME NEW w \in Workers, CommitReconcile(w) PROVE LocalTypeOK'
    <2>1. \/ Leave(w)
          \/ Goto(w, "claim") /\ tx' = [tx EXCEPT ![w] = NoTx] /\ UNCHANGED <<lock, token, at, outcome>>
      BY <1>8 DEF CommitReconcile, EndReconcile
    <2>2. [tx EXCEPT ![w] = NoTx] \in [Workers -> Tx]
      BY DEF LocalTypeOK, Tx, NoTx
    <2> QED BY <2>1, <2>2, <1>2, <1>3 DEF LocalTypeOK
  <1>9. ASSUME NEW w \in Workers, Claim(w) PROVE LocalTypeOK'
    <2>1. PICK a \in Assessments : Visit(w, <<a, 1>>) /\ UNCHANGED <<lock, token, tx>>
      BY <1>9 DEF Claim
    <2>2. <<a, 1>> \in Positions /\ <<a, 1>>[2] >= 1
      BY DEF Positions
    <2> QED BY <2>1, <2>2, VisitType
  <1>10. ASSUME NEW w \in Workers, ClaimNothing(w) PROVE LocalTypeOK'
    BY <1>10, <1>2 DEF ClaimNothing
  <1>11. ASSUME NEW w \in Workers, CheckSkip(w) PROVE LocalTypeOK'
    BY <1>11, <1>2, StageStepType, <1>d, <1>o
       DEF CheckSkip, Conclude, StagePcs, FinalPcs, VerdictPcs, SkipPcs, StartPcs,
           ScanPcs, RecheckPcs, FinishPcs, Closed
  <1>12. ASSUME NEW w \in Workers, SkipStage(w) PROVE LocalTypeOK'
    <2>1. Leave(w) \/ (NextStage(w) /\ UNCHANGED <<lock, token, tx>>)
      BY <1>12 DEF SkipStage
    <2>2. at[w] \in StageIds
      BY <1>12 DEF SkipStage, LocalTypeOK, StagePcs, SkipPcs
    <2> QED BY <2>1, <2>2, <1>2, <1>l, VisitType DEF NextStage
  <1>13. ASSUME NEW w \in Workers, StartStage(w) PROVE LocalTypeOK'
    BY <1>13, <1>2, StageStepType, <1>d, <1>o
       DEF StartStage, Conclude, StagePcs, FinalPcs, VerdictPcs, SkipPcs, StartPcs,
           ScanPcs, RecheckPcs, FinishPcs, Closed
  <1>14. ASSUME NEW w \in Workers, CommitStart(w) PROVE LocalTypeOK'
    BY <1>14, StageStepType, <1>d, <1>o
       DEF CommitStart, Conclude, StagePcs, FinalPcs, VerdictPcs, SkipPcs, StartPcs,
           ScanPcs, RecheckPcs, FinishPcs, Closed
  <1>15. ASSUME NEW w \in Workers, BeginRun(w) PROVE LocalTypeOK'
    BY <1>15, StageStepType, <1>d, <1>o
       DEF BeginRun, Conclude, StagePcs, FinalPcs, VerdictPcs, SkipPcs, StartPcs,
           ScanPcs, RecheckPcs, FinishPcs, Closed
  <1>i. ASSUME NEW w \in Workers, InsertRun(w) PROVE LocalTypeOK'
    BY <1>i, StageStepType, <1>o
       DEF InsertRun, StagePcs, FinalPcs, VerdictPcs, ScanPcs, FinishPcs
  <1>16. ASSUME NEW w \in Workers, Scan(w) PROVE LocalTypeOK'
    BY <1>16, StageStepType, <1>d, <1>o
       DEF Scan, Conclude, StagePcs, FinalPcs, VerdictPcs, SkipPcs, StartPcs,
           ScanPcs, RecheckPcs, FinishPcs, Closed
  <1>17. ASSUME NEW w \in Workers, Ingest(w) PROVE LocalTypeOK'
    BY <1>17, <1>2, StageStepType, <1>d, <1>o
       DEF Ingest, Conclude, StagePcs, FinalPcs, VerdictPcs, SkipPcs, StartPcs,
           ScanPcs, RecheckPcs, FinishPcs, Closed
  <1>18. ASSUME NEW w \in Workers, Probe(w) PROVE LocalTypeOK'
    BY <1>18, StageStepType, <1>d, <1>o
       DEF Probe, Conclude, StagePcs, FinalPcs, VerdictPcs, SkipPcs, StartPcs,
           ScanPcs, RecheckPcs, FinishPcs, Closed
  <1>19. ASSUME NEW w \in Workers, CheckPersist(w) PROVE LocalTypeOK'
    BY <1>19, StageStepType, <1>d, <1>o, <1>v
       DEF CheckPersist, Conclude, StagePcs, FinalPcs, VerdictPcs, SkipPcs, StartPcs,
           ScanPcs, RecheckPcs, FinishPcs, Closed
  <1>20. ASSUME NEW w \in Workers, PublishRecheck(w) PROVE LocalTypeOK'
    BY <1>20, StageStepType, <1>d, <1>o, <1>v
       DEF PublishRecheck, Conclude, StagePcs, FinalPcs, VerdictPcs, SkipPcs, StartPcs,
           ScanPcs, RecheckPcs, FinishPcs, Closed
  <1>21. ASSUME NEW w \in Workers, PersistRecheck(w) PROVE LocalTypeOK'
    BY <1>21, StageStepType, <1>d, <1>o
       DEF PersistRecheck, Conclude, StagePcs, FinalPcs, VerdictPcs, SkipPcs, StartPcs,
           ScanPcs, RecheckPcs, FinishPcs, Closed
  <1>22. ASSUME NEW w \in Workers, CleanUp(w) PROVE LocalTypeOK'
    <2>1. \/ Conclude(w, "completed") /\ UNCHANGED <<lock, at, token, tx>>
          \/ NextStage(w) /\ UNCHANGED <<lock, token, tx>>
      BY <1>22 DEF CleanUp
    <2>2. pc[w] \in StagePcs /\ at[w] \in StageIds
      BY <1>22 DEF CleanUp, LocalTypeOK, StagePcs
    <2>3. CASE Conclude(w, "completed") /\ UNCHANGED <<lock, at, token, tx>>
      BY <2>2, <2>3, <1>d, StageStepType DEF Conclude, StagePcs, FinishPcs, Closed
    <2>4. CASE NextStage(w) /\ UNCHANGED <<lock, token, tx>>
      BY <2>2, <2>4, <1>l, VisitType DEF NextStage
    <2> QED BY <2>1, <2>3, <2>4
  <1>23. ASSUME NEW w \in Workers, CheckFinish(w) PROVE LocalTypeOK'
    BY <1>23, <1>2, StageStepType, <1>d, <1>o, <1>v
       DEF CheckFinish, Conclude, StagePcs, FinalPcs, VerdictPcs, SkipPcs, StartPcs,
           ScanPcs, RecheckPcs, FinishPcs, Closed
  <1>24. ASSUME NEW w \in Workers, FinishStage(w) PROVE LocalTypeOK'
    <2>1. pc[w] \in StagePcs /\ at[w] \in StageIds
      BY <1>24 DEF FinishStage, LocalTypeOK, StagePcs, FinishPcs
    <2>2. \/ Leave(w)
          \/ Goto(w, "finalize") /\ Decide(w, "none") /\ UNCHANGED <<lock, at, token, tx>>
          \/ NextStage(w) /\ UNCHANGED <<lock, token, tx>>
      BY <1>24 DEF FinishStage
    <2>3. CASE Goto(w, "finalize") /\ Decide(w, "none") /\ UNCHANGED <<lock, at, token, tx>>
      BY <2>1, <2>3, <1>d, StageStepType DEF FinalPcs, VerdictPcs, FinishPcs
    <2>4. CASE NextStage(w) /\ UNCHANGED <<lock, token, tx>>
      BY <2>1, <2>4, <1>l, VisitType DEF NextStage
    <2> QED BY <2>2, <2>3, <2>4, <1>2
  <1>25. ASSUME NEW w \in Workers, CheckFinalize(w) PROVE LocalTypeOK'
    <2> DEFINE states == {stage[x] : x \in StagesOf(at[w][1])}
    <2>1. \/ Leave(w)
          \/ Goto(w, "finalize_update") /\ Decide(w, Verdict(states)) /\ UNCHANGED <<lock, at, token, tx>>
      BY <1>25 DEF CheckFinalize
    <2>2. Verdict(states) \in Closed
      BY DEF Verdict, Closed
    <2>3. at[w] \in Positions /\ "finalize_update" \in Pcs /\ "finalize_update" \notin StagePcs
      BY <1>25
         DEF CheckFinalize, LocalTypeOK, Pcs, FinalPcs, StagePcs, SkipPcs, StartPcs, ScanPcs,
                  RecheckPcs, FinishPcs
    <2>4. CASE Goto(w, "finalize_update") /\ Decide(w, Verdict(states)) /\ UNCHANGED <<lock, at, token, tx>>
      <3> HIDE DEF states
      <3>1. outcome' \in [Workers -> Outcomes] /\ outcome'[w] \in Closed
            /\ \A v \in Workers \ {w} : outcome'[v] = outcome[v]
        BY <2>2, <2>4, <1>d
      <3> QED BY <2>3, <2>4, <3>1 DEF LocalTypeOK, Goto
    <2> QED BY <2>1, <2>4, <1>2
  <1>26. ASSUME NEW w \in Workers, Finalize(w) PROVE LocalTypeOK'
    BY <1>26, <1>2 DEF Finalize
  <1>27. ASSUME NEW w \in Workers, Crash(w) PROVE LocalTypeOK'
    BY <1>27, <1>2 DEF Crash
  <1>28. ASSUME NEW w \in Workers, CancelStage(w) PROVE LocalTypeOK'
    BY <1>28, StageStepType, <1>d, <1>o
       DEF CancelStage, Conclude, StagePcs, FinalPcs, VerdictPcs, SkipPcs, StartPcs,
           ScanPcs, RecheckPcs, FinishPcs, Closed
  <1>29. ASSUME NEW w \in Workers, CancelLoop(w) PROVE LocalTypeOK'
    BY <1>29, StageStepType, <1>d, <1>o
       DEF CancelLoop, Conclude, StagePcs, FinalPcs, VerdictPcs, SkipPcs, StartPcs,
           ScanPcs, RecheckPcs, FinishPcs, Closed
  <1>30. ASSUME NEW w \in Workers, LoseLock(w) PROVE LocalTypeOK'
    BY <1>30 DEF LoseLock, LocalTypeOK
  <1>31. ASSUME NEW a \in Assessments, Enqueue(a) PROVE LocalTypeOK'
    BY <1>31, <1>1 DEF Enqueue
  <1>32. CASE UNCHANGED vars
    BY <1>32, <1>1 DEF vars
  <1>33. ASSUME NEW x \in StageIds, ReconcileRun(x) PROVE LocalTypeOK'
    BY <1>33, <1>1 DEF ReconcileRun
  <1> QED
    BY <1>4, <1>5, <1>6, <1>7, <1>8, <1>9, <1>10, <1>11, <1>12, <1>13, <1>14, <1>15, <1>16,
       <1>17, <1>18, <1>19, <1>20, <1>21, <1>22, <1>23, <1>24, <1>25, <1>26, <1>27, <1>28,
          <1>29, <1>30, <1>31, <1>32, <1>33, <1>i
       DEF Next, Reconcile, Work, Fault

\* Every state of every behaviour is well typed: rows keep the values the schema
\* allows, and a worker that handles or finalizes a stage knows which.
THEOREM TypeCorrect == Spec => []TypeOK
  <1>1. Init => TypeOK
    BY BoundAssumption
       DEF Init, TypeOK, DataTypeOK, LocalTypeOK, ManifestStatus, StageStatus, RunStatus,
       Outcomes, Tx, NoTx, Pcs, StagePcs, FinalPcs, VerdictPcs, SkipPcs, StartPcs, ScanPcs,
       RecheckPcs, FinishPcs
  <1>2. TypeOK /\ [Next]_vars => TypeOK'
    BY DataTypeStep, LocalTypeStep DEF TypeOK
  <1> QED BY <1>1, <1>2, PTL DEF Spec

-----------------------------------------------------------------------------
(* Row locks and final outcomes.                                           *)

\* Labels at which a worker has no reconcile_stale transaction open.
Quiet == Pcs \ {"stages", "runs", "commit"}

\* A worker that goes from one quiet label to another disturbs no row lock as
\* long as the rows locked by open transactions keep their value.
LEMMA QuietStep ==
  ASSUME TypeOK, RowLocksHold,
         NEW w \in Workers, pc[w] \in Quiet,
         NEW label \in Quiet, Goto(w, label),
         tx' = tx \/ tx' = [tx EXCEPT ![w] = NoTx],
         \A v \in Workers :
           /\ \A a \in tx[v].manifests : manifest'[a] = "running"
           /\ \A x \in tx[v].stages : stage'[x] = "running"
           /\ \A x \in tx[v].runs : run'[x] = "running"
  PROVE  RowLocksHold'
  <1>1. tx' = tx
    <2>1. tx[w] = NoTx /\ tx \in [Workers -> Tx]
      BY DEF RowLocksHold, Quiet, TypeOK, LocalTypeOK
    <2> QED BY <2>1
  <1>2. \A v \in Workers :
          pc'[v] \notin {"stages", "runs", "commit"} => pc[v] \notin {"stages", "runs", "commit"}
    BY DEF TypeOK, LocalTypeOK, Goto, Quiet
  <1> QED BY <1>1, <1>2 DEF RowLocksHold

\* The head of the loop is a quiet label.
LEMMA EntryQuiet == ASSUME NEW x PROVE Entry(x) \in Quiet
  BY DEF Entry, Quiet, Pcs, StagePcs, SkipPcs, StartPcs, FinalPcs

\* The labels outside reconcile_stale are quiet, and so are its first and "idle".
LEMMA QuietLabels ==
  /\ {"idle", "claim", "select", "cleanup"} \subseteq Quiet
  /\ SkipPcs \cup StartPcs \cup ScanPcs \cup RecheckPcs \cup FinishPcs \cup FinalPcs \subseteq Quiet
  BY DEF Quiet, Pcs, ReconcilePcs, StagePcs, SkipPcs, StartPcs, ScanPcs, RecheckPcs,
         FinishPcs, FinalPcs

\* No step changes a row that an open reconcile_stale has locked.
LEMMA RowLocksStep ==
  ASSUME TypeOK, RowLocksHold, [Next]_vars
  PROVE  RowLocksHold'
  <1> DEFINE Untouched ==
        \A v \in Workers :
          /\ \A a \in tx[v].manifests : manifest'[a] = "running"
          /\ \A x \in tx[v].stages : stage'[x] = "running"
          /\ \A x \in tx[v].runs : run'[x] = "running"
  <1>t. /\ manifest \in [Assessments -> ManifestStatus]
        /\ stage \in [StageIds -> StageStatus]
        /\ run \in [StageIds -> RunStatus]
        /\ tx \in [Workers -> Tx]
        /\ pc \in [Workers -> Pcs]
    BY DEF TypeOK, DataTypeOK, LocalTypeOK
  <1>r. \A v \in Workers :
          /\ \A a \in tx[v].manifests : a \in Assessments /\ manifest[a] = "running"
          /\ \A x \in tx[v].stages : x \in StageIds /\ stage[x] = "running"
          /\ \A x \in tx[v].runs : x \in StageIds /\ run[x] = "running"
    BY <1>t DEF RowLocksHold, Tx
  <1>n. \A v \in Workers : pc[v] \notin {"stages", "runs", "commit"} => tx[v] = NoTx
    BY DEF RowLocksHold
  <1>u. UNCHANGED <<manifest, stage, run>> => Untouched
    BY <1>r
  \* Three shapes of a quiet step: staying, returning, moving to another stage.
  <1>g. ASSUME NEW w \in Workers, pc[w] \in Quiet, NEW label \in Quiet, Goto(w, label),
               UNCHANGED tx, Untouched
        PROVE  RowLocksHold'
    BY <1>g, QuietStep
  <1>l. ASSUME NEW w \in Workers, pc[w] \in Quiet, Leave(w), Untouched
        PROVE  RowLocksHold'
    BY <1>l, QuietStep, QuietLabels DEF Leave
  <1>v. ASSUME NEW w \in Workers, pc[w] \in Quiet, NEW x, Visit(w, x), UNCHANGED tx, Untouched
        PROVE  RowLocksHold'
    BY <1>v, <1>g, EntryQuiet DEF Visit
  <1> HIDE DEF Untouched
  <1>1. CASE UNCHANGED vars
    BY <1>1 DEF vars, db, local, RowLocksHold
  <1>2. ASSUME NEW a \in Assessments, Enqueue(a) PROVE RowLocksHold'
    BY <1>2, <1>t, <1>r DEF Enqueue, local, RowLocksHold
  <1>3. ASSUME NEW w \in Workers, BeginRunOne(w) \/ BeginReconcile(w) PROVE RowLocksHold'
    BY <1>3, <1>g, <1>u, QuietLabels DEF BeginRunOne, BeginReconcile, TakeLock, db
  <1>4. ASSUME NEW w \in Workers, SelectRunning(w) PROVE RowLocksHold'
    BY <1>4, <1>t, <1>n DEF SelectRunning, SelectRows, ManifestLocked, db, Goto, RowLocksHold, NoTx, Tx
  <1>5. ASSUME NEW w \in Workers, InterruptStages(w) PROVE RowLocksHold'
    BY <1>5, <1>t DEF InterruptStages, InterruptRows, StagesWith, db, Goto, RowLocksHold, Tx
  <1>6. ASSUME NEW w \in Workers, InterruptRuns(w) PROVE RowLocksHold'
    BY <1>6, <1>t DEF InterruptRuns, db, Goto, RowLocksHold, Tx
  <1>7. ASSUME NEW w \in Workers, CommitReconcile(w) PROVE RowLocksHold'
    <2>1. tx' = [tx EXCEPT ![w] = NoTx]
          /\ (Goto(w, "idle") \/ Goto(w, "claim"))
      BY <1>7 DEF CommitReconcile, EndReconcile, Leave
    <2>2. tx'[w] = NoTx /\ \A v \in Workers \ {w} : tx'[v] = tx[v] /\ pc'[v] = pc[v]
      BY <2>1, <1>t DEF Goto
    <2>3. \A v \in Workers \ {w} :
            /\ \A a \in tx[v].manifests : a \notin tx[w].manifests
            /\ \A x \in tx[v].stages : x \notin tx[w].stages
            /\ \A x \in tx[v].runs : x \notin tx[w].runs
      BY DEF RowLocksHold
    <2>4. \A v \in Workers \ {w} :
            /\ \A a \in tx[v].manifests : manifest'[a] = "running"
            /\ \A x \in tx[v].stages : stage'[x] = "running"
            /\ \A x \in tx[v].runs : run'[x] = "running"
      BY <1>7, <1>r, <2>3 DEF CommitReconcile, EndReconcile
    <2> QED BY <2>2, <2>4 DEF RowLocksHold, NoTx
  <1>8. ASSUME NEW w \in Workers, Claim(w) PROVE RowLocksHold'
    <2>1. PICK a \in Assessments :
            /\ manifest[a] = "pending"
            /\ manifest' = [manifest EXCEPT ![a] = "running"]
            /\ Visit(w, <<a, 1>>)
      BY <1>8 DEF Claim
    <2>2. Untouched
      BY <1>8, <1>t, <1>r, <2>1 DEF Claim, Untouched
    <2> QED BY <1>8, <1>v, <2>1, <2>2, QuietLabels DEF Claim
  <1>9. ASSUME NEW w \in Workers, ClaimNothing(w) PROVE RowLocksHold'
    BY <1>9, <1>l, <1>u, QuietLabels
       DEF ClaimNothing, db
  <1>10. ASSUME NEW w \in Workers, CheckSkip(w) PROVE RowLocksHold'
    BY <1>10, <1>g, <1>l, <1>u, QuietLabels
       DEF CheckSkip, SkipPcs, db
  <1>11. ASSUME NEW w \in Workers, SkipStage(w) PROVE RowLocksHold'
    <2>1. Untouched
      BY <1>11, <1>t, <1>r DEF SkipStage, Untouched
    <2> QED BY <1>11, <2>1, <1>l, <1>v, QuietLabels DEF SkipStage, NextStage, SkipPcs
  <1>12. ASSUME NEW w \in Workers, StartStage(w) PROVE RowLocksHold'
    BY <1>12, <1>g, <1>l, <1>u, QuietLabels
       DEF StartStage, StartPcs, db
  <1>13. ASSUME NEW w \in Workers, CommitStart(w) PROVE RowLocksHold'
    <2>1. stage' = [stage EXCEPT ![at[w]] = "running"] /\ UNCHANGED <<manifest, run>>
      BY <1>13 DEF CommitStart
    <2>2. Untouched
      BY <2>1, <1>t, <1>r DEF Untouched
    <2> QED BY <1>13, <2>2, <1>g, QuietLabels DEF CommitStart, StartPcs, RecheckPcs, ScanPcs
  <1>14. ASSUME NEW w \in Workers, BeginRun(w) PROVE RowLocksHold'
    BY <1>14, <1>g, <1>u, QuietLabels DEF BeginRun, Conclude, ScanPcs, FinishPcs, db
  <1>i. ASSUME NEW w \in Workers, InsertRun(w) PROVE RowLocksHold'
    <2>1. Untouched
      BY <1>i, <1>t, <1>r DEF InsertRun, Untouched
    <2> QED BY <1>i, <2>1, <1>g, QuietLabels DEF InsertRun, ScanPcs
  <1>15. ASSUME NEW w \in Workers, Scan(w) PROVE RowLocksHold'
    <2>1. Untouched
      BY <1>15, <1>t, <1>r DEF Scan, EndRun, RunLocked, Untouched
    <2> QED BY <1>15, <2>1, <1>g, QuietLabels DEF Scan, Conclude, ScanPcs, FinishPcs
  <1>16. ASSUME NEW w \in Workers, Ingest(w) PROVE RowLocksHold'
    <2>1. Untouched
      BY <1>16, <1>t, <1>r DEF Ingest, RunLocked, Untouched
    <2> QED BY <1>16, <2>1, <1>g, <1>l, QuietLabels DEF Ingest, Conclude, ScanPcs, FinishPcs
  <1>17. ASSUME NEW w \in Workers, Probe(w) PROVE RowLocksHold'
    BY <1>17, <1>g, <1>u, QuietLabels
       DEF Probe, Conclude, RecheckPcs, FinishPcs, db
  <1>18. ASSUME NEW w \in Workers, CheckPersist(w) PROVE RowLocksHold'
    BY <1>18, <1>g, <1>u, QuietLabels
       DEF CheckPersist, Conclude, RecheckPcs, FinishPcs, db
  <1>19. ASSUME NEW w \in Workers, PublishRecheck(w) PROVE RowLocksHold'
    BY <1>19, <1>g, <1>u, QuietLabels
       DEF PublishRecheck, Conclude, RecheckPcs, FinishPcs, db
  <1>20. ASSUME NEW w \in Workers, PersistRecheck(w) PROVE RowLocksHold'
    <2>1. tx[w].stages = {}
      BY <1>20, <1>n DEF PersistRecheck, NoTx
    <2>2. Untouched
      BY <1>20, <1>t, <1>r, <2>1 DEF PersistRecheck, StageLocked, Untouched
    <2> QED BY <1>20, <2>2, <1>g, QuietLabels
       DEF PersistRecheck, Conclude, RecheckPcs, FinishPcs
  <1>21. ASSUME NEW w \in Workers, CleanUp(w) PROVE RowLocksHold'
    BY <1>21, <1>g, <1>v, <1>u, QuietLabels
       DEF CleanUp, Conclude, NextStage, FinishPcs, db
  <1>22. ASSUME NEW w \in Workers, CheckFinish(w) PROVE RowLocksHold'
    BY <1>22, <1>g, <1>l, <1>u, QuietLabels
       DEF CheckFinish, FinishPcs, db
  <1>23. ASSUME NEW w \in Workers, FinishStage(w) PROVE RowLocksHold'
    <2>1. tx[w].stages = {}
      BY <1>23, <1>n DEF FinishStage, NoTx
    <2>2. Untouched
      BY <1>23, <1>t, <1>r, <2>1 DEF FinishStage, StageLocked, Untouched
    <2> QED
      BY <1>23, <2>2, <1>g, <1>l, <1>v, QuietLabels
         DEF FinishStage, NextStage, FinishPcs, FinalPcs
  <1>24. ASSUME NEW w \in Workers, CheckFinalize(w) PROVE RowLocksHold'
    BY <1>24, <1>g, <1>l, <1>u, QuietLabels
       DEF CheckFinalize, FinalPcs, db
  <1>25. ASSUME NEW w \in Workers, Finalize(w) PROVE RowLocksHold'
    <2>1. tx[w].manifests = {}
      BY <1>25, <1>n DEF Finalize, NoTx
    <2>2. Untouched
      BY <1>25, <1>t, <1>r, <2>1 DEF Finalize, ManifestLocked, Untouched
    <2> QED BY <1>25, <2>2, <1>l, QuietLabels DEF Finalize, FinalPcs
  <1>26. ASSUME NEW w \in Workers, Crash(w) PROVE RowLocksHold'
    BY <1>26, <1>t DEF Crash, Leave, Goto, db, RowLocksHold, NoTx
  <1>27. ASSUME NEW w \in Workers, CancelStage(w) PROVE RowLocksHold'
    <2>1. Untouched
      BY <1>27, <1>t, <1>r DEF CancelStage, EndRun, RunLocked, Untouched
    <2> QED BY <1>27, <2>1, <1>g, QuietLabels DEF CancelStage, Conclude, FinishPcs
  <1>28. ASSUME NEW w \in Workers, CancelLoop(w) PROVE RowLocksHold'
    BY <1>28, <1>g, <1>u, QuietLabels DEF CancelLoop, FinalPcs, db
  <1>29. ASSUME NEW w \in Workers, LoseLock(w) PROVE RowLocksHold'
    BY <1>29 DEF LoseLock, db, RowLocksHold
  <1>h. ASSUME NEW x \in StageIds, ReconcileRun(x) PROVE RowLocksHold'
    BY <1>h, <1>t, <1>r DEF ReconcileRun, EndRun, RunLocked, local, RowLocksHold
  <1> QED
    BY <1>1, <1>2, <1>3, <1>4, <1>5, <1>6, <1>7, <1>8, <1>9, <1>10, <1>11, <1>12, <1>13,
       <1>14, <1>15, <1>16, <1>17, <1>18, <1>19, <1>20, <1>21, <1>22, <1>23, <1>24,
       <1>25, <1>26, <1>27, <1>28, <1>29, <1>h, <1>i
       DEF Next, Reconcile, Work, Fault

\* An open reconcile_stale keeps the rows it has locked as it found them, and no
\* two of them share a row: the row-lock discipline that every other statement of
\* store.py and history.py is written against.
THEOREM RowLocks == Spec => []RowLocksHold
  <1>1. Init => RowLocksHold
    BY DEF Init, RowLocksHold, NoTx
  <1>2. TypeOK /\ RowLocksHold /\ [Next]_vars => RowLocksHold'
    BY RowLocksStep
  <1> QED BY <1>1, <1>2, TypeCorrect, PTL DEF Spec

-----------------------------------------------------------------------------
(* At most one launch.                                                     *)

\* Where a worker has matched its pending stage and not yet launched it.
Launching == {"start_commit", "begin", "begin_insert", "probe"}

\* A step that neither launches nor starts a stage keeps LaunchInv, as long as it
\* makes no stage pending and leaves the rows of uncommitted starts alone.
LEMMA AsideStep ==
  ASSUME TypeOK, LaunchInv,
         NEW w \in Workers, NEW label \in Pcs \ Launching, Goto(w, label),
         \A v \in Workers \ {w} : at'[v] = at[v],
         UNCHANGED launches,
         \A x \in StageIds : run[x] = "none" => run'[x] = "none",
         \A x \in StageIds :
           \/ stage'[x] = stage[x]
           \/ stage'[x] # "pending" /\ (stage[x] = "running" \/ ~StageLocked(w, x))
  PROVE  LaunchInv'
  <1>1. /\ pc'[w] = label
        /\ \A v \in Workers \ {w} : pc'[v] = pc[v]
    BY DEF Goto, TypeOK, LocalTypeOK
  <1>2. \A v \in Workers : pc[v] \in Launching => at[v] \in StageIds
    BY DEF TypeOK, LocalTypeOK, Launching, StagePcs, StartPcs, ScanPcs, RecheckPcs
  <1>3. \A v \in Workers : pc'[v] \in Launching =>
          v # w /\ pc[v] = pc'[v] /\ at'[v] = at[v] /\ at[v] \in StageIds
    BY <1>1, <1>2
  <1>4. \A v \in Workers : pc'[v] = "start_commit" => stage'[at'[v]] = "pending"
    BY <1>3 DEF LaunchInv, StageLocked, Launching
  <1>5. \A v \in Workers : pc'[v] \in {"begin", "begin_insert", "probe"} =>
          stage'[at'[v]] # "pending" /\ launches'[at'[v]] = 0
    BY <1>3 DEF LaunchInv, Launching
  <1>6. \A u, v \in Workers :
          u # v /\ pc'[u] \in Launching /\ pc'[v] \in Launching => at'[u] # at'[v]
    BY <1>3 DEF LaunchInv, Launching
  <1>7. \A x \in StageIds : stage'[x] = "pending" => launches'[x] = 0
    BY DEF LaunchInv
  <1>8. LaunchedOnce'
    BY DEF LaunchInv, LaunchedOnce
  <1>9. \A x \in StageIds : launches'[x] = 0 => run'[x] = "none"
    BY DEF LaunchInv
  <1> QED BY <1>4, <1>5, <1>6, <1>7, <1>8, <1>9 DEF LaunchInv, Launching

\* Labels at which nothing is about to be launched.
LEMMA AsideLabels ==
  /\ {"idle", "claim", "cleanup"} \cup ReconcilePcs \subseteq Pcs \ Launching
  /\ SkipPcs \cup FinishPcs \cup FinalPcs \subseteq Pcs \ Launching
  /\ {"start", "scan", "ingest", "persist", "publish", "persist_update"} \subseteq Pcs \ Launching
  BY DEF Launching, Pcs, ReconcilePcs, StagePcs, SkipPcs, StartPcs, ScanPcs, RecheckPcs,
         FinishPcs, FinalPcs

\* The launch itself: a worker alone at a stage never launched moves past it.
LEMMA LaunchStep ==
  ASSUME TypeOK, LaunchInv,
         NEW w \in Workers, pc[w] \in {"begin", "begin_insert", "probe"},
         NEW label \in Pcs \ Launching, Goto(w, label),
         launches' = [launches EXCEPT ![at[w]] = @ + 1],
         \A x \in StageIds \ {at[w]} : run'[x] = run[x],
         UNCHANGED <<stage, at>>
  PROVE  LaunchInv'
  <1>1. at[w] \in StageIds /\ launches[at[w]] = 0 /\ stage[at[w]] # "pending"
    BY DEF LaunchInv, TypeOK, LocalTypeOK, StagePcs, ScanPcs, RecheckPcs
  <1>2. /\ pc'[w] = label
        /\ \A v \in Workers \ {w} : pc'[v] = pc[v]
    BY DEF Goto, TypeOK, LocalTypeOK
  <1>3. \A v \in Workers : pc'[v] \in Launching => v # w /\ pc[v] = pc'[v] /\ at[v] # at[w]
    BY <1>2 DEF LaunchInv, Launching
  <1>4. launches'[at[w]] = 1 /\ \A y : y # at[w] /\ y \in StageIds => launches'[y] = launches[y]
    BY <1>1 DEF TypeOK, DataTypeOK
  <1>5. \A v \in Workers : pc'[v] \in Launching => at[v] \in StageIds
    BY <1>3 DEF TypeOK, LocalTypeOK, Launching, StagePcs, StartPcs, ScanPcs, RecheckPcs
  <1>6. \A v \in Workers : pc'[v] \in {"begin", "begin_insert", "probe"} =>
          stage'[at'[v]] # "pending" /\ launches'[at'[v]] = 0
    BY <1>3, <1>4, <1>5 DEF LaunchInv, Launching
  <1>7. \A x \in StageIds : stage'[x] = "pending" => launches'[x] = 0
    BY <1>1, <1>4 DEF LaunchInv
  <1>8. LaunchedOnce'
    BY <1>4 DEF LaunchInv, LaunchedOnce
  <1>9. \A x \in StageIds : launches'[x] = 0 => run'[x] = "none"
    BY <1>4 DEF LaunchInv
  <1> QED BY <1>3, <1>6, <1>7, <1>8, <1>9 DEF LaunchInv, Launching

\* Claims, starts, launches and reconciliations keep LaunchInv.
LEMMA LaunchInvStep ==
  ASSUME TypeOK, RowLocksHold, LaunchInv, [Next]_vars
  PROVE  LaunchInv'
  <1> DEFINE RunsKept == \A x \in StageIds : run[x] = "none" => run'[x] = "none"
  <1>t. /\ stage \in [StageIds -> StageStatus]
        /\ launches \in [StageIds -> Nat]
        /\ run \in [StageIds -> RunStatus]
        /\ at \in [Workers -> Positions \cup {NoStage}]
        /\ pc \in [Workers -> Pcs]
    BY DEF TypeOK, DataTypeOK, LocalTypeOK
  <1>s. \A v \in Workers : pc[v] \in StagePcs => at[v] \in StageIds
    BY DEF TypeOK, LocalTypeOK
  \* A step of w away from launching that leaves the stages alone ...
  <1>g. ASSUME NEW w \in Workers, NEW label \in Pcs \ Launching, Goto(w, label),
               UNCHANGED <<stage, launches, at>>, RunsKept
        PROVE  LaunchInv'
    BY <1>g, AsideStep
  \* ... or changes the stage it is at, or the stages it has locked.
  <1>l. ASSUME NEW w \in Workers, Leave(w), UNCHANGED <<stage, launches>>, RunsKept
        PROVE  LaunchInv'
    BY <1>l, <1>t, AsideStep, AsideLabels DEF Leave
  <1>e. \A x : Entry(x) \in Pcs \ Launching
    BY AsideLabels DEF Entry, SkipPcs, FinalPcs
  <1>v. ASSUME NEW w \in Workers, NEW x, Visit(w, x), UNCHANGED <<stage, launches>>,
               RunsKept
        PROVE  LaunchInv'
    BY <1>v, <1>t, <1>e, AsideStep DEF Visit
  <1>x. ASSUME NEW w \in Workers, NEW status \in StageStatus \ {"pending"}, at[w] \in StageIds,
               stage[at[w]] = "running" \/ ~StageLocked(w, at[w]),
               stage' = [stage EXCEPT ![at[w]] = status],
               NEW label \in Pcs \ Launching, Goto(w, label),
               \A v \in Workers \ {w} : at'[v] = at[v], UNCHANGED launches, RunsKept
        PROVE  LaunchInv'
    <2>1. \A x \in StageIds :
            \/ stage'[x] = stage[x]
            \/ stage'[x] # "pending" /\ (stage[x] = "running" \/ ~StageLocked(w, x))
      BY <1>x, <1>t
    <2> QED BY <1>x, <2>1, AsideStep
  <1>k. UNCHANGED run => RunsKept
    OBVIOUS
  <1> HIDE DEF RunsKept
  <1>1. CASE UNCHANGED vars
    BY <1>1 DEF vars, db, local, LaunchInv, LaunchedOnce
  <1>2. ASSUME NEW a \in Assessments, Enqueue(a) PROVE LaunchInv'
    BY <1>2 DEF Enqueue, local, LaunchInv, LaunchedOnce
  <1>3. ASSUME NEW w \in Workers, BeginRunOne(w) \/ BeginReconcile(w) PROVE LaunchInv'
    BY <1>3, <1>k, <1>g, AsideLabels DEF BeginRunOne, BeginReconcile, TakeLock, db, ReconcilePcs
  <1>4. ASSUME NEW w \in Workers, SelectRunning(w) \/ InterruptStages(w) \/ InterruptRuns(w)
        PROVE  LaunchInv'
    BY <1>4, <1>k, <1>g, AsideLabels
       DEF SelectRunning, SelectRows, InterruptStages, InterruptRows, InterruptRuns, db, ReconcilePcs
  <1>5. ASSUME NEW w \in Workers, CommitReconcile(w) PROVE LaunchInv'
    <2>1. \A x \in tx[w].stages : stage[x] = "running"
      BY DEF RowLocksHold
    <2>2. \A x \in StageIds : stage'[x] = stage[x]
                              \/ (stage'[x] # "pending" /\ stage[x] = "running")
      BY <1>5, <2>1 DEF CommitReconcile, EndReconcile
    <2>3. /\ Goto(w, "idle") \/ Goto(w, "claim")
          /\ \A v \in Workers \ {w} : at'[v] = at[v]
      BY <1>5, <1>t DEF CommitReconcile, EndReconcile, Leave
    <2>4. RunsKept
      BY <1>5 DEF CommitReconcile, RunsKept, RowLocksHold
    <2> QED BY <1>5, <2>2, <2>3, <2>4, AsideStep, AsideLabels DEF CommitReconcile, RunsKept
  <1>6. ASSUME NEW w \in Workers, Claim(w) PROVE LaunchInv'
    BY <1>6, <1>k, <1>v DEF Claim
  <1>7. ASSUME NEW w \in Workers, ClaimNothing(w) PROVE LaunchInv'
    BY <1>7, <1>k, <1>l DEF ClaimNothing, db
  <1>8. ASSUME NEW w \in Workers, CheckSkip(w) PROVE LaunchInv'
    BY <1>8, <1>k, <1>g, <1>l, AsideLabels DEF CheckSkip, db, SkipPcs
  <1>9. ASSUME NEW w \in Workers, SkipStage(w) PROVE LaunchInv'
    <2>1. CASE stage' = [stage EXCEPT ![at[w]] = "skipped"] /\ NextStage(w)
      <3>1. at[w] \in StageIds
        BY <1>9, <1>s DEF SkipStage, StagePcs, SkipPcs
      <3>2. PICK label \in Pcs \ Launching : Goto(w, label)
        BY <2>1, <1>e DEF NextStage, Visit
      <3>3. \A v \in Workers \ {w} : at'[v] = at[v]
        BY <2>1, <1>t DEF NextStage, Visit
      <3> QED BY <1>9, <1>k, <1>x, <2>1, <3>1, <3>2, <3>3 DEF SkipStage, StageStatus
    <2> QED BY <1>9, <1>k, <1>l, <2>1 DEF SkipStage
  <1>10. ASSUME NEW w \in Workers, StartStage(w) PROVE LaunchInv'
    <2>1. CASE stage[at[w]] = "pending" /\ Goto(w, "start_commit")
               /\ UNCHANGED <<stage, launches, at, run>>
      <3>1. at[w] \in StageIds /\ ~StageLocked(w, at[w])
        BY <1>10, <1>s DEF StartStage, StagePcs, StartPcs
      <3>2. pc'[w] = "start_commit" /\ \A v \in Workers \ {w} : pc'[v] = pc[v]
        BY <2>1, <1>t DEF Goto
      <3>3. \A v \in Workers \ {w} : pc[v] \in Launching => at[v] # at[w]
        BY <2>1, <3>1 DEF LaunchInv, Launching, StageLocked
      <3> QED BY <2>1, <3>2, <3>3 DEF LaunchInv, LaunchedOnce, Launching
    <2> QED BY <1>10, <1>k, <1>l, <2>1 DEF StartStage, db
  <1>11. ASSUME NEW w \in Workers, CommitStart(w) PROVE LaunchInv'
    <2>1. /\ pc[w] = "start_commit" /\ at[w] \in StageIds
          /\ stage' = [stage EXCEPT ![at[w]] = "running"] /\ UNCHANGED <<at, launches, run>>
      BY <1>11, <1>s DEF CommitStart, StagePcs, StartPcs
    <2>2. stage[at[w]] = "pending" /\ launches[at[w]] = 0
      BY <2>1 DEF LaunchInv
    <2>3. pc'[w] \in {"begin", "begin_insert", "probe"} /\ \A v \in Workers \ {w} : pc'[v] = pc[v]
      BY <1>11, <1>t DEF CommitStart, Goto
    <2>4. \A v \in Workers \ {w} : pc[v] \in Launching => at[v] # at[w] /\ at[v] \in StageIds
      BY <2>1, <1>s DEF LaunchInv, Launching, StagePcs, StartPcs, ScanPcs, RecheckPcs
    <2>5. stage'[at[w]] = "running" /\ \A x \in StageIds : x # at[w] => stage'[x] = stage[x]
      BY <2>1, <1>t
    <2> QED BY <2>1, <2>2, <2>3, <2>4, <2>5 DEF LaunchInv, LaunchedOnce, Launching
  <1>12. ASSUME NEW w \in Workers, BeginRun(w) PROVE LaunchInv'
    <2>1. CASE Goto(w, "begin_insert") /\ UNCHANGED <<stage, launches, at, run>>
      <3>1. pc[w] = "begin" /\ pc'[w] = "begin_insert" /\ \A v \in Workers \ {w} : pc'[v] = pc[v]
        BY <1>12, <2>1, <1>t DEF BeginRun, Goto
      <3> QED BY <2>1, <3>1 DEF LaunchInv, LaunchedOnce
    <2> QED BY <1>12, <1>g, <1>k, <2>1, AsideLabels DEF BeginRun, Conclude, FinishPcs, db
  <1>i. ASSUME NEW w \in Workers, InsertRun(w) PROVE LaunchInv'
    <2>1. \A x \in StageIds \ {at[w]} : run'[x] = run[x]
      BY <1>i DEF InsertRun, TypeOK, DataTypeOK
    <2> QED BY <1>i, <2>1, LaunchStep, AsideLabels DEF InsertRun
  <1>13. ASSUME NEW w \in Workers, Scan(w) PROVE LaunchInv'
    <2>1. RunsKept
      BY <1>13, <1>t DEF Scan, EndRun, RunsKept
    <2> QED BY <1>13, <1>g, <2>1, AsideLabels DEF Scan, Conclude, FinishPcs
  <1>14. ASSUME NEW w \in Workers, Ingest(w) PROVE LaunchInv'
    <2>1. RunsKept
      BY <1>14, <1>t DEF Ingest, RunsKept
    <2> QED BY <1>14, <1>g, <1>l, <2>1, AsideLabels DEF Ingest, Conclude, FinishPcs
  <1>15. ASSUME NEW w \in Workers, Probe(w) PROVE LaunchInv'
    BY <1>15, LaunchStep, AsideLabels DEF Probe, Conclude, FinishPcs, db
  <1>16. ASSUME NEW w \in Workers, CheckPersist(w) \/ PublishRecheck(w) PROVE LaunchInv'
    BY <1>16, <1>k, <1>g, AsideLabels DEF CheckPersist, PublishRecheck, Conclude, FinishPcs, db
  <1>17. ASSUME NEW w \in Workers, PersistRecheck(w) PROVE LaunchInv'
    <2>1. CASE stage[at[w]] = "running"
      <3>1. at[w] \in StageIds /\ outcome[w] \in Closed
        BY <1>17 DEF PersistRecheck, TypeOK, LocalTypeOK, StagePcs, RecheckPcs, VerdictPcs
      <3>2. outcome[w] \in StageStatus \ {"pending"}
        BY <3>1 DEF Closed, StageStatus
      <3> QED BY <1>17, <1>k, <1>x, <2>1, <3>1, <3>2, AsideLabels DEF PersistRecheck
    <2> QED BY <1>17, <1>k, <1>g, <2>1, AsideLabels DEF PersistRecheck, Conclude, FinishPcs
  <1>18. ASSUME NEW w \in Workers, CleanUp(w) PROVE LaunchInv'
    BY <1>18, <1>k, <1>g, <1>v, AsideLabels DEF CleanUp, Conclude, NextStage, FinishPcs, db
  <1>19. ASSUME NEW w \in Workers, CheckFinish(w) PROVE LaunchInv'
    BY <1>19, <1>k, <1>g, <1>l, AsideLabels DEF CheckFinish, FinishPcs, db
  <1>20. ASSUME NEW w \in Workers, FinishStage(w) PROVE LaunchInv'
    <2>1. CASE stage[at[w]] = "running"
      <3>1. at[w] \in StageIds /\ outcome[w] \in StageStatus \ {"pending"}
        BY <1>20
           DEF FinishStage, TypeOK, LocalTypeOK, StagePcs, FinishPcs, VerdictPcs, Closed,
               StageStatus
      <3>2. PICK label \in Pcs \ Launching : Goto(w, label)
        BY <1>20, <1>e, <2>1, AsideLabels DEF FinishStage, NextStage, Visit, FinalPcs
      <3>3. \A v \in Workers \ {w} : at'[v] = at[v]
        BY <1>20, <1>t, <2>1 DEF FinishStage, NextStage, Visit
      <3> QED BY <1>20, <1>k, <1>x, <2>1, <3>1, <3>2, <3>3 DEF FinishStage
    <2> QED BY <1>20, <1>k, <1>l, <2>1 DEF FinishStage
  <1>21. ASSUME NEW w \in Workers, CheckFinalize(w) PROVE LaunchInv'
    BY <1>21, <1>k, <1>g, <1>l, AsideLabels DEF CheckFinalize, FinalPcs, db
  <1>22. ASSUME NEW w \in Workers, Finalize(w) \/ Crash(w) PROVE LaunchInv'
    BY <1>22, <1>k, <1>l DEF Finalize, Crash, db
  <1>23. ASSUME NEW w \in Workers, CancelStage(w) \/ CancelLoop(w) PROVE LaunchInv'
    <2>1. RunsKept
      BY <1>23, <1>t DEF CancelStage, CancelLoop, EndRun, RunsKept, db
    <2> QED BY <1>23, <1>g, <2>1, AsideLabels DEF CancelStage, CancelLoop, Conclude, FinishPcs, FinalPcs, db
  <1>24. ASSUME NEW w \in Workers, LoseLock(w) PROVE LaunchInv'
    BY <1>24 DEF LoseLock, LaunchInv, LaunchedOnce, db
  <1>25. ASSUME NEW x \in StageIds, ReconcileRun(x) PROVE LaunchInv'
    BY <1>25, <1>t DEF ReconcileRun, EndRun, local, LaunchInv, LaunchedOnce
  <1> QED
    BY <1>1, <1>2, <1>3, <1>4, <1>5, <1>6, <1>7, <1>8, <1>9, <1>10, <1>11, <1>12, <1>13,
       <1>14, <1>15, <1>16, <1>17, <1>18, <1>19, <1>20, <1>21, <1>22, <1>23, <1>24, <1>25, <1>i
       DEF Next, Reconcile, Work, Fault

\* The strengthening behind the next theorem, used again for final outcomes.
LEMMA LaunchInvHolds == Spec => []LaunchInv
  <1>1. Init => LaunchInv
    BY DEF Init, LaunchInv, LaunchedOnce
  <1>2. TypeOK /\ RowLocksHold /\ LaunchInv /\ [Next]_vars => LaunchInv'
    BY LaunchInvStep
  <1> QED BY <1>1, <1>2, TypeCorrect, RowLocks, PTL DEF Spec

\* A stage's scanner or recheck is executed at most once, with any number of
\* workers, crashes, reconciliations and lost locks.
THEOREM LaunchedAtMostOnce == Spec => []LaunchedOnce
  <1>1. LaunchInv => LaunchedOnce
    BY DEF LaunchInv
  <1> QED BY <1>1, LaunchInvHolds, PTL

-----------------------------------------------------------------------------
(* Final outcomes.                                                         *)

\* A manifest leaves "running" when it is closed and is then left alone.
LEMMA ManifestFinalStep ==
  ASSUME TypeOK, RowLocksHold, [Next]_vars,
         NEW a \in Assessments, manifest[a] \in Closed
  PROVE  manifest'[a] = manifest[a]
  <1>1. manifest[a] \notin {"absent", "pending", "running"}
    BY DEF Closed
  <1>t. manifest \in [Assessments -> ManifestStatus] /\ tx \in [Workers -> Tx]
    BY DEF TypeOK, DataTypeOK, LocalTypeOK
  <1>2. ASSUME NEW b \in Assessments, Enqueue(b) PROVE manifest'[a] = manifest[a]
    BY <1>1, <1>2, <1>t DEF Enqueue
  <1>3. ASSUME NEW w \in Workers, Reconcile(w) PROVE manifest'[a] = manifest[a]
    <2>1. a \notin tx[w].manifests
      BY <1>1 DEF RowLocksHold
    <2> QED BY <1>3, <2>1
            DEF Reconcile, SelectRunning, SelectRows, InterruptStages, InterruptRows, InterruptRuns, CommitReconcile, db
  <1>4. ASSUME NEW w \in Workers, Claim(w) PROVE manifest'[a] = manifest[a]
    BY <1>1, <1>4, <1>t DEF Claim
  <1>5. ASSUME NEW w \in Workers, Finalize(w) PROVE manifest'[a] = manifest[a]
    BY <1>1, <1>5, <1>t DEF Finalize, Owns
  <1> QED
    BY <1>2, <1>3, <1>4, <1>5
       DEF Next, BeginRunOne, BeginReconcile, TakeLock, Work, Fault, ClaimNothing, CheckSkip,
           SkipStage, StartStage, CommitStart, BeginRun, InsertRun, Scan, Ingest, Probe, CheckPersist,
           PublishRecheck, PersistRecheck, CleanUp, CheckFinish, FinishStage, CheckFinalize,
           Crash, CancelStage, CancelLoop, LoseLock, ReconcileRun, vars, db

\* A stage that ended is left alone: every UPDATE of a stage asks for the status
\* it leaves, or (reconcile_stale, start_stage) holds the row it has matched.
LEMMA StageFinalStep ==
  ASSUME TypeOK, RowLocksHold, LaunchInv, [Next]_vars,
         NEW x \in StageIds, stage[x] \in Ended
  PROVE  stage'[x] = stage[x]
  <1>1. stage[x] \notin {"pending", "running"}
    BY DEF Ended
  <1>t. stage \in [StageIds -> StageStatus]
    BY DEF TypeOK, DataTypeOK
  <1>2. ASSUME NEW w \in Workers, Reconcile(w) PROVE stage'[x] = stage[x]
    <2>1. x \notin tx[w].stages
      BY <1>1 DEF RowLocksHold
    <2> QED BY <1>2, <2>1
            DEF Reconcile, SelectRunning, SelectRows, InterruptStages, InterruptRows, InterruptRuns, CommitReconcile, db
  <1>3. ASSUME NEW w \in Workers, SkipStage(w) \/ PersistRecheck(w) \/ FinishStage(w)
        PROVE  stage'[x] = stage[x]
    BY <1>1, <1>3, <1>t DEF SkipStage, PersistRecheck, FinishStage
  <1>4. ASSUME NEW w \in Workers, CommitStart(w) PROVE stage'[x] = stage[x]
    <2>1. stage[at[w]] = "pending"
      BY <1>4 DEF CommitStart, LaunchInv
    <2> QED BY <1>1, <1>4, <2>1, <1>t DEF CommitStart
  <1> QED
    BY <1>2, <1>3, <1>4
       DEF Next, Enqueue, BeginRunOne, BeginReconcile, TakeLock, Work, Fault, Claim,
           ClaimNothing, CheckSkip, StartStage, BeginRun, InsertRun, Scan, Ingest, Probe, CheckPersist,
           PublishRecheck, CleanUp, CheckFinish, CheckFinalize, Finalize,
           Crash, CancelStage, CancelLoop, LoseLock, ReconcileRun, vars, db

\* So is a run that ended.
LEMMA RunFinalStep ==
  ASSUME TypeOK, RowLocksHold, LaunchInv, [Next]_vars,
         NEW x \in StageIds, run[x] \in {"succeeded", "failed", "interrupted"}
  PROVE  run'[x] = run[x]
  <1>t. run \in [StageIds -> RunStatus] /\ run[x] \notin {"none", "running"}
    BY DEF TypeOK, DataTypeOK
  <1>1. ASSUME NEW w \in Workers, Reconcile(w) PROVE run'[x] = run[x]
    <2>1. x \notin tx[w].runs
      BY <1>t DEF RowLocksHold
    <2> QED BY <1>1, <2>1
            DEF Reconcile, SelectRunning, SelectRows, InterruptStages, InterruptRows, InterruptRuns, CommitReconcile, db
  <1>2. ASSUME NEW w \in Workers, BeginRun(w) \/ Scan(w) \/ Ingest(w) \/ CancelStage(w)
        PROVE  run'[x] = run[x]
    BY <1>2, <1>t DEF BeginRun, db, Scan, Ingest, CancelStage, EndRun
  <1>3. ASSUME NEW y \in StageIds, ReconcileRun(y) PROVE run'[x] = run[x]
    BY <1>3, <1>t DEF ReconcileRun, EndRun
  <1>4. ASSUME NEW w \in Workers, InsertRun(w) PROVE run'[x] = run[x]
    <2>1. pc[w] \in StagePcs
      BY <1>4 DEF InsertRun, StagePcs, ScanPcs
    <2>2. run[at[w]] = "none"
      BY <1>4, <2>1 DEF InsertRun, LaunchInv, TypeOK, LocalTypeOK
    <2> QED BY <1>4, <1>t, <2>2 DEF InsertRun
  <1> QED
    BY <1>1, <1>2, <1>3, <1>4
       DEF Next, Enqueue, BeginRunOne, BeginReconcile, TakeLock, Work, Fault, Claim,
           ClaimNothing, CheckSkip, SkipStage, StartStage, CommitStart, Probe, CheckPersist,
           PublishRecheck, PersistRecheck, CleanUp, CheckFinish, FinishStage, CheckFinalize,
           Finalize, Crash, CancelLoop, LoseLock, vars, db

\* No step rewrites a closed assessment, an ended stage or a finished run, not
\* even one of a worker that lost its lock and races a reconciliation.
THEOREM OutcomesAreFinal == Spec => OutcomesFinal
  <1> DEFINE Final ==
        /\ \A a \in Assessments : manifest[a] \in Closed => manifest'[a] = manifest[a]
        /\ \A x \in StageIds : stage[x] \in Ended => stage'[x] = stage[x]
        /\ \A x \in StageIds :
             run[x] \in {"succeeded", "failed", "interrupted"} => run'[x] = run[x]
  <1>1. TypeOK /\ RowLocksHold /\ LaunchInv /\ [Next]_vars => [Final]_vars
    BY ManifestFinalStep, StageFinalStep, RunFinalStep
  <1> QED BY <1>1, TypeCorrect, RowLocks, LaunchInvHolds, PTL DEF Spec, OutcomesFinal
=============================================================================
