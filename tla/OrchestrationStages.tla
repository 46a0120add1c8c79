------------------------- MODULE OrchestrationStages -------------------------
(***************************************************************************)
(* The order of stages, the evidence behind a completed stage and the      *)
(* verdict of an assessment, for any number of workers, claims, faults and *)
(* lock losses: what start_stage, finish_stage, persist_recheck and        *)
(* finalize check in the database is enough, even when two workers believe *)
(* they hold the worker lock.                                              *)
(***************************************************************************)
EXTENDS OrchestrationProofs

\* The stages of `a` call for `verdict`, and will go on doing so.
Agrees(a, verdict) ==
  /\ verdict = "completed" => \A x \in StagesOf(a) : stage[x] \in {"completed", "skipped"}
  /\ verdict = "failed" =>
       /\ \A x \in StagesOf(a) : stage[x] \in {"completed", "failed", "skipped"}
       /\ \E x \in StagesOf(a) : stage[x] = "failed"

\* What a worker may rely on at the stage it handles, whoever else is at work: its
\* kind, the stages before it, and the evidence for the verdict it is about to write.
AtHand(w) ==
  /\ pc[w] \in SkipPcs => KindOf(at[w]) = "skip"
  /\ pc[w] \in StartPcs => KindOf(at[w]) # "skip"
  /\ pc[w] \in ScanPcs => KindOf(at[w]) = "scanner"
  /\ pc[w] \in RecheckPcs => KindOf(at[w]) = "recheck"
  /\ pc[w] \in StagePcs =>
       \A y \in StagesOf(at[w][1]) : y[2] < at[w][2] => stage[y] \in Ended
  /\ pc[w] = "cleanup" =>
       IF KindOf(at[w]) = "scanner" THEN run[at[w]] = "succeeded" ELSE stage[at[w]] \in Ended
  /\ pc[w] \in {"persist", "publish", "persist_update"} =>
       outcome[w] \in {"completed", "failed"}
  /\ pc[w] \in FinishPcs /\ outcome[w] = "completed" =>
       KindOf(at[w]) = "scanner" /\ run[at[w]] = "succeeded"
  /\ pc[w] = "finalize_update" => Agrees(at[w][1], outcome[w])

StagesInv ==
  /\ \A w \in Workers : AtHand(w)
  /\ StagesInOrder
  /\ EvidenceBacksStages
  /\ \A a \in Assessments : Agrees(a, manifest[a])

-----------------------------------------------------------------------------
(* Helpers.                                                                *)

\* A stage of the plan has one of the three kinds.
LEMMA KindOfType == ASSUME NEW x \in StageIds PROVE KindOf(x) \in Kinds
  BY StageIdParts, PlanAssumption DEF KindOf

\* What has ended stays: no step of anybody rewrites an ended stage or run.
Settled ==
  \A x \in StageIds :
    /\ stage[x] \in Ended => stage'[x] = stage[x]
    /\ run[x] = "succeeded" => run'[x] = run[x]

LEMMA SettledStep ==
  ASSUME TypeOK, RowLocksHold, LaunchInv, [Next]_vars
  PROVE  Settled
  BY StageFinalStep, RunFinalStep DEF Settled

\* So a verdict that agrees with the stages goes on agreeing with them.
LEMMA AgreesKept ==
  ASSUME Settled, NEW a, NEW verdict, Agrees(a, verdict)
  PROVE  /\ verdict = "completed" => \A x \in StagesOf(a) : stage'[x] \in {"completed", "skipped"}
         /\ verdict = "failed" =>
              /\ \A x \in StagesOf(a) : stage'[x] \in {"completed", "failed", "skipped"}
              /\ \E x \in StagesOf(a) : stage'[x] = "failed"
  BY DEF Settled, Agrees, StagesOf, Ended

\* And a worker that does not move keeps what it relies on.
LEMMA HandKept ==
  ASSUME TypeOK, Settled, NEW v \in Workers, AtHand(v),
         pc'[v] = pc[v], at'[v] = at[v], outcome'[v] = outcome[v]
  PROVE  AtHand(v)'
  <1>1. pc[v] \in StagePcs => at[v] \in StageIds
    BY DEF TypeOK, LocalTypeOK
  <1>2. {"cleanup"} \cup FinishPcs \subseteq StagePcs
    BY DEF StagePcs
  <1>3. pc[v] \in StagePcs =>
          \A y \in StagesOf(at[v][1]) : y[2] < at[v][2] => stage'[y] \in Ended
    BY DEF AtHand, Settled, StagesOf
  <1>4. pc[v] = "cleanup" =>
          IF KindOf(at[v]) = "scanner" THEN run'[at[v]] = "succeeded"
          ELSE stage'[at[v]] \in Ended
    BY <1>1, <1>2 DEF AtHand, Settled
  <1>5. pc[v] \in FinishPcs /\ outcome[v] = "completed" =>
          KindOf(at[v]) = "scanner" /\ run'[at[v]] = "succeeded"
    BY <1>1, <1>2 DEF AtHand, Settled
  <1>6. pc[v] = "finalize_update" =>
          Agrees(at[v][1], outcome[v])'
    BY AgreesKept DEF AtHand, Agrees
  <1> QED BY <1>3, <1>4, <1>5, <1>6 DEF AtHand

-----------------------------------------------------------------------------
(* The worker that moves.                                                  *)

\* One that returns has nothing at hand.
LEMMA LeaveHand ==
  ASSUME TypeOK, NEW w \in Workers, Leave(w)
  PROVE  AtHand(w)'
  <1>1. pc'[w] = "idle"
    BY DEF Leave, Goto, TypeOK, LocalTypeOK
  <1> QED
    BY <1>1 DEF AtHand, StagePcs, SkipPcs, StartPcs, ScanPcs, RecheckPcs, FinishPcs

\* One that comes to a position of the plan needs the stages before it ended.
LEMMA VisitHand ==
  ASSUME TypeOK, NEW w \in Workers, NEW p \in Positions, p[2] >= 1, Visit(w, p),
         \A y \in StagesOf(p[1]) : y[2] < p[2] => stage'[y] \in Ended
  PROVE  AtHand(w)'
  <1>1. pc'[w] = Entry(p) /\ at'[w] = p
    BY DEF Visit, Goto, TypeOK, LocalTypeOK
  <1>2. /\ Entry(p) \in {"finalize", "skip", "start"}
        /\ Entry(p) = "skip" => KindOf(p) = "skip"
        /\ Entry(p) = "start" => KindOf(p) # "skip"
    BY DEF Entry
  <1> QED
    BY <1>1, <1>2 DEF AtHand, StagePcs, SkipPcs, StartPcs, ScanPcs, RecheckPcs, FinishPcs

\* In particular the next position, once the stage at hand has ended too.
LEMMA NextHand ==
  ASSUME TypeOK, Settled, NEW w \in Workers, AtHand(w), pc[w] \in StagePcs, NextStage(w),
         stage'[at[w]] \in Ended
  PROVE  AtHand(w)'
  <1> DEFINE x == at[w]
             p == <<x[1], x[2] + 1>>
  <1>1. x \in StageIds
    BY DEF TypeOK, LocalTypeOK
  <1>2. p \in Positions /\ p[2] >= 1 /\ x[2] \in Nat
    BY <1>1, Successor, StageIdParts DEF Positions
  <1>3. ASSUME NEW y \in StagesOf(p[1]), y[2] < p[2] PROVE stage'[y] \in Ended
    <2>1. y \in StageIds /\ y[1] = x[1] /\ y = <<y[1], y[2]>> /\ x = <<x[1], x[2]>>
      BY <1>1, StageIdParts DEF StagesOf
    <2>2. y[2] \in Nat
      BY <2>1, StageIdParts
    <2>3. CASE y[2] < x[2]
      BY <2>1, <2>3 DEF AtHand, Settled, StagesOf
    <2>4. CASE y[2] = x[2]
      BY <2>1, <2>4
    <2> QED BY <1>2, <1>3, <2>2, <2>3, <2>4
  <1>4. Visit(w, p)
    BY DEF NextStage
  <1> HIDE DEF p
  <1> QED BY <1>2, <1>3, <1>4, VisitHand

\* A worker that stays at its stage keeps what it knows of the stages before.
LEMMA StayHand ==
  ASSUME TypeOK, Settled, NEW w \in Workers, AtHand(w), pc[w] \in StagePcs,
         NEW label \in StagePcs \ {"start"}, Goto(w, label), UNCHANGED at,
         label = "skip_update" => pc[w] = "skip",
         label = "start_commit" => pc[w] = "start",
         label \in ScanPcs => KindOf(at[w]) = "scanner",
         label \in RecheckPcs => KindOf(at[w]) = "recheck",
         label # "skip",
         label = "cleanup" =>
           IF KindOf(at[w]) = "scanner" THEN run'[at[w]] = "succeeded"
           ELSE stage'[at[w]] \in Ended,
         label \in {"persist", "publish", "persist_update"} =>
           outcome'[w] \in {"completed", "failed"},
         label \in FinishPcs /\ outcome'[w] = "completed" =>
           KindOf(at[w]) = "scanner" /\ run'[at[w]] = "succeeded"
  PROVE  AtHand(w)'
  <1>1. pc'[w] = label /\ at'[w] = at[w] /\ at[w] \in StageIds
    BY DEF Goto, TypeOK, LocalTypeOK
  <1>2. \A y \in StagesOf(at[w][1]) : y[2] < at[w][2] => stage'[y] \in Ended
    BY DEF AtHand, Settled, StagesOf
  <1>3. /\ label \in SkipPcs => KindOf(at[w]) = "skip"
        /\ label \in StartPcs => KindOf(at[w]) # "skip"
    BY DEF AtHand, SkipPcs, StartPcs
  <1>4. label # "finalize_update"
    BY DEF StagePcs, SkipPcs, StartPcs, ScanPcs, RecheckPcs, FinishPcs
  <1> QED BY <1>1, <1>2, <1>3, <1>4 DEF AtHand

\* One that goes to finalize has still to read the stages.
LEMMA FinalizeHand ==
  ASSUME TypeOK, NEW w \in Workers, Goto(w, "finalize")
  PROVE  AtHand(w)'
  <1>1. pc'[w] = "finalize"
    BY DEF Goto, TypeOK, LocalTypeOK
  <1> QED
    BY <1>1 DEF AtHand, StagePcs, SkipPcs, StartPcs, ScanPcs, RecheckPcs, FinishPcs

-----------------------------------------------------------------------------
\* A worker on its way through the plan, step by step of its loop and handlers.
LEMMA WorkHand ==
  ASSUME TypeOK, LaunchInv, Settled, NEW w \in Workers, AtHand(w), Work(w)
  PROVE  AtHand(w)'
  <1>t. /\ pc \in [Workers -> Pcs]
        /\ stage \in [StageIds -> StageStatus]
        /\ run \in [StageIds -> RunStatus]
        /\ outcome \in [Workers -> Outcomes]
    BY DEF TypeOK, DataTypeOK, LocalTypeOK
  <1>s. pc[w] \in StagePcs => at[w] \in StageIds /\ KindOf(at[w]) \in Kinds
    BY KindOfType DEF TypeOK, LocalTypeOK
  <1>l. Leave(w) => AtHand(w)'
    BY LeaveHand
  <1>c. ASSUME NEW verdict \in Closed, Conclude(w, verdict), pc[w] \in StagePcs, UNCHANGED at,
               verdict = "completed" => KindOf(at[w]) = "scanner" /\ run'[at[w]] = "succeeded"
        PROVE  AtHand(w)'
    <2>1. "finish" \in StagePcs \ {"start"} /\ "finish" \notin ScanPcs \cup RecheckPcs
      BY DEF StagePcs, FinishPcs, ScanPcs, RecheckPcs
    <2>2. Goto(w, "finish") /\ outcome'[w] = verdict
      BY <1>c, <1>t DEF Conclude, Decide
    <2> QED BY <1>c, <2>1, <2>2, StayHand
  <1>f. {"failed", "completed", "interrupted"} \subseteq Closed
    BY DEF Closed
  <1>1. CASE Claim(w)
    <2>1. PICK a \in Assessments : Visit(w, <<a, 1>>)
      BY <1>1 DEF Claim
    <2> DEFINE p == <<a, 1>>
    <2>2. p \in Positions /\ p[2] >= 1
      BY DEF Positions
    <2>3. ASSUME NEW y \in StagesOf(p[1]), y[2] < p[2] PROVE stage'[y] \in Ended
      <3>1. y[2] \in 1 .. Len(Plan[y[1]])
        BY StageIdParts DEF StagesOf
      <3> QED BY <2>3, <3>1
    <2> HIDE DEF p
    <2> QED BY <2>1, <2>2, <2>3, VisitHand DEF p
  <1>2. CASE ClaimNothing(w)
    BY <1>2, <1>l DEF ClaimNothing
  <1>3. CASE CheckSkip(w)
    BY <1>3, <1>l, StayHand DEF CheckSkip, StagePcs, SkipPcs, ScanPcs, RecheckPcs, FinishPcs
  <1>4. CASE SkipStage(w)
    <2>1. pc[w] \in StagePcs
      BY <1>4 DEF SkipStage, StagePcs, SkipPcs
    <2>2. CASE stage' = [stage EXCEPT ![at[w]] = "skipped"] /\ NextStage(w)
      BY <2>1, <2>2, <1>s, <1>t, NextHand DEF Ended
    <2> QED BY <1>4, <1>l, <2>2 DEF SkipStage
  <1>5. CASE StartStage(w)
    BY <1>5, <1>l, StayHand DEF StartStage, StagePcs, StartPcs, ScanPcs, RecheckPcs, FinishPcs
  <1>6. CASE CommitStart(w)
    <2>1. pc[w] \in StagePcs /\ KindOf(at[w]) \in {"scanner", "recheck"}
      BY <1>6, <1>s DEF CommitStart, AtHand, StagePcs, StartPcs, Kinds
    <2>2. CASE KindOf(at[w]) = "recheck"
      BY <1>6, <2>1, <2>2, StayHand
         DEF CommitStart, StagePcs, StartPcs, ScanPcs, RecheckPcs, FinishPcs
    <2>3. CASE KindOf(at[w]) = "scanner"
      BY <1>6, <2>1, <2>3, StayHand
         DEF CommitStart, StagePcs, StartPcs, ScanPcs, RecheckPcs, FinishPcs
    <2> QED BY <2>1, <2>2, <2>3
  <1>7. CASE BeginRun(w)
    <2>1. pc[w] \in StagePcs /\ KindOf(at[w]) = "scanner"
      BY <1>7 DEF BeginRun, AtHand, StagePcs, ScanPcs
    <2>2. CASE Goto(w, "begin_insert")
      BY <1>7, <2>1, <2>2, StayHand DEF BeginRun, StagePcs, ScanPcs, RecheckPcs, FinishPcs
    <2> QED BY <1>7, <1>c, <1>f, <2>1, <2>2 DEF BeginRun
  <1>8. CASE InsertRun(w)
    <2>1. pc[w] \in StagePcs /\ KindOf(at[w]) = "scanner"
      BY <1>8 DEF InsertRun, AtHand, StagePcs, ScanPcs
    <2> QED BY <1>8, <2>1, StayHand DEF InsertRun, StagePcs, ScanPcs, RecheckPcs, FinishPcs
  <1>9. CASE Scan(w)
    <2>1. pc[w] \in StagePcs /\ KindOf(at[w]) = "scanner"
      BY <1>9 DEF Scan, AtHand, StagePcs, ScanPcs
    <2>2. CASE Goto(w, "ingest")
      BY <1>9, <2>1, <2>2, StayHand DEF Scan, StagePcs, ScanPcs, RecheckPcs, FinishPcs
    <2> QED BY <1>9, <1>c, <1>f, <2>1, <2>2 DEF Scan
  <1>10. CASE Ingest(w)
    <2>1. pc[w] \in StagePcs /\ KindOf(at[w]) = "scanner"
      BY <1>10 DEF Ingest, AtHand, StagePcs, ScanPcs
    <2>2. CASE run' = [run EXCEPT ![at[w]] = "succeeded"] /\ Goto(w, "cleanup") /\ UNCHANGED at
      <3>1. run'[at[w]] = "succeeded"
        BY <2>1, <2>2, <1>s, <1>t
      <3> QED BY <2>1, <2>2, <3>1, StayHand DEF StagePcs, ScanPcs, RecheckPcs, FinishPcs
    <2> QED BY <1>10, <1>c, <1>f, <1>l, <2>1, <2>2 DEF Ingest
  <1>11. CASE Probe(w)
    <2>1. pc[w] \in StagePcs /\ KindOf(at[w]) = "recheck"
      BY <1>11 DEF Probe, AtHand, StagePcs, RecheckPcs
    <2>2. CASE Goto(w, "persist") /\ \E verdict \in {"completed", "failed"} : Decide(w, verdict)
      <3>1. outcome'[w] \in {"completed", "failed"}
        BY <2>2, <1>t DEF Decide
      <3> QED
        BY <1>11, <2>1, <2>2, <3>1, StayHand
           DEF Probe, StagePcs, StartPcs, ScanPcs, RecheckPcs, FinishPcs
    <2> QED BY <1>11, <1>c, <1>f, <2>1, <2>2 DEF Probe
  <1>12. CASE CheckPersist(w)
    <2>1. pc[w] \in StagePcs /\ KindOf(at[w]) = "recheck" /\ outcome[w] \in {"completed", "failed"}
      BY <1>12 DEF CheckPersist, AtHand, StagePcs, RecheckPcs
    <2>2. CASE Goto(w, "publish") /\ UNCHANGED outcome
      BY <1>12, <2>1, <2>2, StayHand
         DEF CheckPersist, StagePcs, StartPcs, ScanPcs, RecheckPcs, FinishPcs
    <2>3. CASE Conclude(w, "failed")
      BY <1>12, <1>c, <1>f, <2>1, <2>3 DEF CheckPersist
    <2> QED BY <1>12, <2>2, <2>3 DEF CheckPersist
  <1>13. CASE PublishRecheck(w)
    <2>1. pc[w] \in StagePcs /\ KindOf(at[w]) = "recheck" /\ outcome[w] \in {"completed", "failed"}
      BY <1>13 DEF PublishRecheck, AtHand, StagePcs, RecheckPcs
    <2>2. CASE Goto(w, "persist_update") /\ UNCHANGED outcome
      BY <1>13, <2>1, <2>2, StayHand
         DEF PublishRecheck, StagePcs, StartPcs, ScanPcs, RecheckPcs, FinishPcs
    <2> QED BY <1>13, <1>c, <1>f, <2>1, <2>2 DEF PublishRecheck
  <1>14. CASE PersistRecheck(w)
    <2>1. pc[w] \in StagePcs /\ KindOf(at[w]) = "recheck" /\ outcome[w] \in {"completed", "failed"}
      BY <1>14 DEF PersistRecheck, AtHand, StagePcs, RecheckPcs
    <2>2. CASE stage[at[w]] = "running"
      <3>1. stage'[at[w]] \in Ended
        BY <1>14, <2>1, <2>2, <1>s, <1>t DEF PersistRecheck, Ended
      <3> QED
        BY <1>14, <2>1, <2>2, <3>1, StayHand
           DEF PersistRecheck, StagePcs, StartPcs, ScanPcs, RecheckPcs, FinishPcs
    <2> QED BY <1>14, <1>c, <1>f, <2>1, <2>2 DEF PersistRecheck
  <1>15. CASE CleanUp(w)
    <2>1. pc[w] \in StagePcs
      BY <1>15 DEF CleanUp, StagePcs
    <2>2. CASE KindOf(at[w]) = "scanner"
      <3>1. run'[at[w]] = "succeeded"
        BY <1>15, <2>2 DEF CleanUp, AtHand, db
      <3> QED BY <1>15, <1>c, <1>f, <2>1, <2>2, <3>1 DEF CleanUp
    <2>3. CASE KindOf(at[w]) # "scanner"
      <3>1. stage'[at[w]] \in Ended /\ NextStage(w)
        BY <1>15, <2>3 DEF CleanUp, AtHand, db
      <3> QED BY <2>1, <3>1, NextHand
    <2> QED BY <2>2, <2>3
  <1>16. CASE CheckFinish(w)
    <2>1. pc[w] \in StagePcs
      BY <1>16 DEF CheckFinish, StagePcs, FinishPcs
    <2>2. CASE Goto(w, "finish_update") /\ UNCHANGED <<at, outcome>>
      <3>1. outcome'[w] = "completed" =>
              KindOf(at[w]) = "scanner" /\ run'[at[w]] = "succeeded"
        BY <1>16, <2>2 DEF CheckFinish, AtHand, FinishPcs, db
      <3> QED BY <2>1, <2>2, <3>1, StayHand DEF StagePcs, StartPcs, ScanPcs, RecheckPcs, FinishPcs
    <2> QED BY <1>16, <1>l, <2>2 DEF CheckFinish
  <1>17. CASE FinishStage(w)
    <2>1. pc[w] \in StagePcs /\ outcome[w] \in Closed
      BY <1>17 DEF FinishStage, TypeOK, LocalTypeOK, StagePcs, FinishPcs, VerdictPcs
    <2>2. CASE stage' = [stage EXCEPT ![at[w]] = outcome[w]] /\ NextStage(w)
      BY <2>1, <2>2, <1>s, <1>t, NextHand DEF Closed, Ended
    <2> QED BY <1>17, <1>l, <2>2, FinalizeHand DEF FinishStage
  <1>18. CASE CheckFinalize(w)
    <2> DEFINE states == {stage[x] : x \in StagesOf(at[w][1])}
    <2>1. CASE /\ ~Unfinished(states)
               /\ Goto(w, "finalize_update") /\ Decide(w, Verdict(states)) /\ UNCHANGED at
      <3>1. states \subseteq StageStatus
        BY <1>t DEF StagesOf
      <3>2. /\ Verdict(states) = "completed" => states \subseteq {"completed", "skipped"}
            /\ Verdict(states) = "failed" =>
                 "failed" \in states /\ states \subseteq {"completed", "failed", "skipped"}
        BY <2>1, <3>1 DEF Verdict, Unfinished, StageStatus
      <3>3. pc'[w] = "finalize_update" /\ outcome'[w] = Verdict(states)
        BY <2>1, <1>t DEF Goto, Decide
      <3>4. UNCHANGED stage
        BY <1>18 DEF CheckFinalize, db
      <3>5. /\ Verdict(states) = "completed" =>
                 \A x \in StagesOf(at[w][1]) : stage[x] \in {"completed", "skipped"}
            /\ Verdict(states) = "failed" =>
                 /\ \A x \in StagesOf(at[w][1]) : stage[x] \in {"completed", "failed", "skipped"}
                 /\ \E x \in StagesOf(at[w][1]) : stage[x] = "failed"
        BY <3>2
      <3> HIDE DEF states
      <3>6. Agrees(at[w][1], outcome[w])'
        BY <2>1, <3>3, <3>4, <3>5 DEF Agrees
      <3> QED
        BY <3>3, <3>6
           DEF AtHand, StagePcs, SkipPcs, StartPcs, ScanPcs, RecheckPcs, FinishPcs
    <2> QED BY <1>18, <1>l, <2>1 DEF CheckFinalize
  <1>19. CASE Finalize(w)
    BY <1>19, <1>l DEF Finalize
  <1> QED
    BY <1>1, <1>2, <1>3, <1>4, <1>5, <1>6, <1>7, <1>8, <1>9, <1>10, <1>11, <1>12, <1>13, <1>14,
       <1>15, <1>16, <1>17, <1>18, <1>19 DEF Work

-----------------------------------------------------------------------------
(* Everybody's hand.                                                       *)

\* A worker's step moves that worker alone.
LEMMA OneMoves ==
  ASSUME TypeOK, NEW u \in Workers,
         BeginRunOne(u) \/ BeginReconcile(u) \/ Reconcile(u) \/ Work(u) \/ Fault(u)
  PROVE  \A v \in Workers \ {u} : pc'[v] = pc[v] /\ at'[v] = at[v] /\ outcome'[v] = outcome[v]
  <1>t. /\ pc \in [Workers -> Pcs]
        /\ at \in [Workers -> Positions \cup {NoStage}]
        /\ outcome \in [Workers -> Outcomes]
    BY DEF TypeOK, LocalTypeOK
  <1> DEFINE Alone(w) ==
        \A v \in Workers \ {w} : pc'[v] = pc[v] /\ at'[v] = at[v] /\ outcome'[v] = outcome[v]
  <1>g. ASSUME NEW w \in Workers, NEW label, Goto(w, label), UNCHANGED at,
               UNCHANGED outcome \/ \E verdict : Decide(w, verdict)
        PROVE  Alone(w)
    BY <1>g, <1>t DEF Goto, Decide
  <1>l. ASSUME NEW w \in Workers, Leave(w) PROVE Alone(w)
    BY <1>l, <1>t DEF Leave, Goto, Decide
  <1>v. ASSUME NEW w \in Workers, NEW p, Visit(w, p) PROVE Alone(w)
    BY <1>v, <1>t DEF Visit, Goto, Decide
  <1>c. ASSUME NEW w \in Workers, NEW verdict, Conclude(w, verdict), UNCHANGED at PROVE Alone(w)
    BY <1>c, <1>g DEF Conclude
  <1>n. ASSUME NEW w \in Workers, NextStage(w) PROVE Alone(w)
    BY <1>n, <1>v DEF NextStage
  <1> HIDE DEF Alone
  <1>1. ASSUME NEW w \in Workers, BeginRunOne(w) \/ BeginReconcile(w) PROVE Alone(w)
    BY <1>1, <1>g DEF BeginRunOne, BeginReconcile, TakeLock
  <1>2. ASSUME NEW w \in Workers, Reconcile(w) PROVE Alone(w)
    BY <1>2, <1>g, <1>l
       DEF Reconcile, SelectRunning, SelectRows, InterruptStages, InterruptRows, InterruptRuns,
           CommitReconcile, EndReconcile
  <1>3. ASSUME NEW w \in Workers, Claim(w) \/ ClaimNothing(w) \/ CheckSkip(w) \/ SkipStage(w)
               \/ StartStage(w) \/ CommitStart(w)
        PROVE  Alone(w)
    BY <1>3, <1>g, <1>l, <1>v, <1>n
       DEF Claim, ClaimNothing, CheckSkip, SkipStage, StartStage, CommitStart
  <1>4. ASSUME NEW w \in Workers, BeginRun(w) \/ InsertRun(w) \/ Scan(w) \/ Ingest(w)
        PROVE  Alone(w)
    BY <1>4, <1>g, <1>l, <1>c DEF BeginRun, InsertRun, Scan, Ingest
  <1>5. ASSUME NEW w \in Workers, Probe(w) \/ CheckPersist(w) \/ PublishRecheck(w)
               \/ PersistRecheck(w)
        PROVE  Alone(w)
    BY <1>5, <1>g, <1>c DEF Probe, CheckPersist, PublishRecheck, PersistRecheck
  <1>6. ASSUME NEW w \in Workers, CleanUp(w) \/ CheckFinish(w) \/ FinishStage(w)
        PROVE  Alone(w)
    BY <1>6, <1>g, <1>l, <1>c, <1>n DEF CleanUp, CheckFinish, FinishStage
  <1>7. ASSUME NEW w \in Workers, CheckFinalize(w) \/ Finalize(w) PROVE Alone(w)
    <2>1. \/ Leave(w)
          \/ Goto(w, "finalize_update") /\ UNCHANGED at /\ \E verdict : Decide(w, verdict)
      BY <1>7 DEF CheckFinalize, Finalize
    <2> QED BY <2>1, <1>g, <1>l
  <1>8. ASSUME NEW w \in Workers, Fault(w) PROVE Alone(w)
    <2>1. CASE Crash(w) BY <2>1, <1>l DEF Crash
    <2>2. CASE CancelStage(w) BY <2>2, <1>c DEF CancelStage
    <2>3. CASE CancelLoop(w) BY <2>3, <1>g DEF CancelLoop
    <2>4. CASE LoseLock(w) BY <2>4 DEF LoseLock, Alone
    <2> QED BY <1>8, <2>1, <2>2, <2>3, <2>4 DEF Fault
  <1>9. ASSUME NEW w \in Workers, Work(w) PROVE Alone(w)
    BY <1>9, <1>3, <1>4, <1>5, <1>6, <1>7 DEF Work
  <1> QED BY <1>1, <1>2, <1>8, <1>9 DEF Alone

\* Whoever moves, every worker may go on relying on what it has at hand.
LEMMA HandStep ==
  ASSUME TypeOK, RowLocksHold, LaunchInv, \A w \in Workers : AtHand(w), [Next]_vars,
         NEW v \in Workers
  PROVE  AtHand(v)'
  <1>1. Settled
    BY SettledStep
  <1>2. CASE UNCHANGED <<pc, at, outcome>>
    BY <1>1, <1>2, HandKept
  <1>3. ASSUME NEW w \in Workers,
               BeginRunOne(w) \/ BeginReconcile(w) \/ Reconcile(w) \/ Work(w) \/ Fault(w)
        PROVE  AtHand(v)'
    <2>1. CASE v # w
      BY <1>1, <1>3, <2>1, HandKept, OneMoves
    <2>2. CASE v = w
      <3>s. SUFFICES AtHand(w)'
        BY <2>2
      <3>1. ASSUME NEW label \in {"idle", "claim", "select", "stages", "runs", "commit",
                                 "finalize"},
                   Goto(w, label)
            PROVE  AtHand(w)'
        <4>1. pc'[w] = label
          BY <3>1 DEF Goto, TypeOK, LocalTypeOK
        <4> QED
          BY <4>1 DEF AtHand, StagePcs, SkipPcs, StartPcs, ScanPcs, RecheckPcs, FinishPcs
      <3>2. CASE BeginRunOne(w) \/ BeginReconcile(w)
        BY <3>1, <3>2 DEF BeginRunOne, BeginReconcile, TakeLock
      <3>3. CASE Reconcile(w)
        BY <3>1, <3>3, LeaveHand
           DEF Reconcile, SelectRunning, SelectRows, InterruptStages, InterruptRows,
               InterruptRuns, CommitReconcile, EndReconcile
      <3>4. CASE Work(w)
        BY <1>1, <3>4, WorkHand
      <3>5. CASE Crash(w)
        BY <3>5, LeaveHand DEF Crash
      <3>6. CASE CancelStage(w)
        <4>1. /\ pc[w] \in StagePcs /\ UNCHANGED at
              /\ Goto(w, "finish") /\ outcome'[w] = "interrupted"
          BY <3>6 DEF CancelStage, Conclude, Decide, StagePcs, TypeOK, LocalTypeOK
        <4> QED
          BY <1>1, <4>1, StayHand DEF StagePcs, FinishPcs, ScanPcs, RecheckPcs
      <3>7. CASE CancelLoop(w)
        BY <3>1, <3>7 DEF CancelLoop
      <3>8. CASE LoseLock(w)
        BY <1>1, <3>8, HandKept DEF LoseLock
      <3> QED BY <1>3, <3>2, <3>3, <3>4, <3>5, <3>6, <3>7, <3>8 DEF Fault
    <2> QED BY <2>1, <2>2
  <1>4. \/ UNCHANGED <<pc, at, outcome>>
        \/ \E w \in Workers :
             BeginRunOne(w) \/ BeginReconcile(w) \/ Reconcile(w) \/ Work(w) \/ Fault(w)
    BY DEF Next, Enqueue, ReconcileRun, vars, local
  <1> QED BY <1>2, <1>3, <1>4

-----------------------------------------------------------------------------
(* The rows.                                                               *)

\* The five statements that change a stage, each from the status its WHERE asks
\* for, at the stage its worker handles or, for reconcile_stale, has locked.
LEMMA StageWrites ==
  ASSUME TypeOK, RowLocksHold, LaunchInv, [Next]_vars,
         NEW x \in StageIds, stage'[x] # stage[x]
  PROVE  \E w \in Workers :
           \/ SkipStage(w) /\ x = at[w] /\ stage[x] = "pending" /\ stage'[x] = "skipped"
           \/ CommitStart(w) /\ x = at[w] /\ stage[x] = "pending" /\ stage'[x] = "running"
           \/ CommitReconcile(w) /\ x \in tx[w].stages /\ stage[x] = "running"
              /\ stage'[x] = "interrupted"
           \/ PersistRecheck(w) /\ x = at[w] /\ stage[x] = "running"
              /\ stage'[x] = outcome[w] /\ x \in report'
           \/ FinishStage(w) /\ x = at[w] /\ stage[x] = "running"
              /\ stage'[x] = outcome[w] /\ result' = LinkResult(x)
  <1>t. stage \in [StageIds -> StageStatus]
    BY DEF TypeOK, DataTypeOK
  <1>1. PICK w \in Workers :
          SkipStage(w) \/ CommitStart(w) \/ CommitReconcile(w) \/ PersistRecheck(w)
            \/ FinishStage(w)
    BY DEF Next, Reconcile, Work, Fault, Enqueue, BeginRunOne, BeginReconcile, TakeLock,
           SelectRunning, SelectRows, InterruptStages, InterruptRows, InterruptRuns, Claim,
           ClaimNothing, CheckSkip, StartStage, BeginRun, InsertRun, Scan, Ingest, Probe,
           CheckPersist, PublishRecheck, CleanUp, CheckFinish, CheckFinalize, Finalize,
           Crash, CancelStage, CancelLoop, LoseLock, ReconcileRun, vars, db
  <1>2. CASE SkipStage(w)
    BY <1>2, <1>t DEF SkipStage
  <1>3. CASE CommitStart(w)
    <2>1. stage[at[w]] = "pending"
      BY <1>3 DEF CommitStart, LaunchInv
    <2> QED BY <1>3, <2>1, <1>t DEF CommitStart
  <1>4. CASE CommitReconcile(w)
    BY <1>4, <1>t DEF CommitReconcile, RowLocksHold
  <1>5. CASE PersistRecheck(w)
    BY <1>5, <1>t DEF PersistRecheck
  <1>6. CASE FinishStage(w)
    BY <1>6, <1>t DEF FinishStage
  <1> QED BY <1>1, <1>2, <1>3, <1>4, <1>5, <1>6

\* The four statements that change a manifest.
LEMMA ManifestWrites ==
  ASSUME TypeOK, RowLocksHold, [Next]_vars, NEW a \in Assessments, manifest'[a] # manifest[a]
  PROVE  \/ Enqueue(a) /\ manifest[a] = "absent" /\ manifest'[a] = "pending"
         \/ \E w \in Workers :
              \/ CommitReconcile(w) /\ a \in tx[w].manifests /\ manifest[a] = "running"
                 /\ manifest'[a] = "interrupted"
              \/ Claim(w) /\ manifest[a] = "pending" /\ manifest'[a] = "running"
              \/ Finalize(w) /\ a = at[w][1] /\ manifest[a] = "running"
                 /\ manifest'[a] = outcome[w]
  <1>t. manifest \in [Assessments -> ManifestStatus]
    BY DEF TypeOK, DataTypeOK
  <1>1. \/ \E b \in Assessments : Enqueue(b)
        \/ \E w \in Workers : CommitReconcile(w) \/ Claim(w) \/ Finalize(w)
    BY DEF Next, Reconcile, Work, Fault, BeginRunOne, BeginReconcile, TakeLock,
           SelectRunning, SelectRows, InterruptStages, InterruptRows, InterruptRuns,
           ClaimNothing, CheckSkip, SkipStage, StartStage, CommitStart, BeginRun, InsertRun,
           Scan, Ingest, Probe, CheckPersist, PublishRecheck, PersistRecheck, CleanUp,
           CheckFinish, FinishStage, CheckFinalize, Crash, CancelStage, CancelLoop, LoseLock,
           ReconcileRun, vars, db
  <1>2. ASSUME NEW b \in Assessments, Enqueue(b)
        PROVE  Enqueue(a) /\ manifest[a] = "absent" /\ manifest'[a] = "pending"
    <2>1. a = b
      BY <1>2, <1>t DEF Enqueue
    <2> QED BY <1>2, <2>1, <1>t DEF Enqueue
  <1>3. ASSUME NEW w \in Workers, CommitReconcile(w)
        PROVE  a \in tx[w].manifests /\ manifest[a] = "running" /\ manifest'[a] = "interrupted"
    BY <1>3, <1>t DEF CommitReconcile, RowLocksHold
  <1>4. ASSUME NEW w \in Workers, Claim(w)
        PROVE  manifest[a] = "pending" /\ manifest'[a] = "running"
    BY <1>4, <1>t DEF Claim
  <1>5. ASSUME NEW w \in Workers, Finalize(w)
        PROVE  a = at[w][1] /\ manifest[a] = "running" /\ manifest'[a] = outcome[w]
    BY <1>5, <1>t DEF Finalize, Owns
  <1> QED BY <1>1, <1>2, <1>3, <1>4, <1>5

\* A stage that leaves "pending" has only ended stages before it.
LEMMA OrderStep ==
  ASSUME TypeOK, RowLocksHold, LaunchInv, StagesInv, [Next]_vars
  PROVE  StagesInOrder'
  <1> SUFFICES ASSUME NEW x \in StageIds, NEW y \in StageIds,
                      x[1] = y[1], x[2] < y[2], stage'[y] # "pending"
               PROVE  stage'[x] \in Ended
    BY DEF StagesInOrder
  <1>1. stage[x] \in Ended => stage'[x] \in Ended
    BY SettledStep DEF Settled
  <1>2. CASE stage[y] # "pending"
    BY <1>1, <1>2 DEF StagesInv, StagesInOrder
  <1>3. CASE stage[y] = "pending"
    <2>1. PICK w \in Workers : y = at[w] /\ (SkipStage(w) \/ CommitStart(w))
      BY <1>3, StageWrites
    <2>2. pc[w] \in StagePcs
      BY <2>1 DEF SkipStage, CommitStart, StagePcs, SkipPcs, StartPcs
    <2>3. stage[x] \in Ended
      BY <2>1, <2>2 DEF StagesInv, AtHand, StagesOf
    <2> QED BY <1>1, <2>3
  <1> QED BY <1>2, <1>3

\* What was linked or stored stays so.
LEMMA EvidenceGrows ==
  ASSUME [Next]_vars
  PROVE  result \subseteq result' /\ report \subseteq report'
  BY DEF Next, Reconcile, Work, Fault, Enqueue, BeginRunOne, BeginReconcile, TakeLock,
         SelectRunning, SelectRows, InterruptStages, InterruptRows, InterruptRuns,
         CommitReconcile, Claim, ClaimNothing, CheckSkip, SkipStage, StartStage, CommitStart,
         BeginRun, InsertRun, Scan, Ingest, Probe, CheckPersist, PublishRecheck,
         PersistRecheck, CleanUp, CheckFinish, FinishStage, LinkResult, CheckFinalize,
         Finalize, Crash, CancelStage, CancelLoop, LoseLock, ReconcileRun, vars, db

\* A report is stored by persist_recheck only, with the stage it belongs to.
LEMMA ReportWrites ==
  ASSUME TypeOK, [Next]_vars, NEW x \in report', x \notin report
  PROVE  \E w \in Workers :
           PersistRecheck(w) /\ x = at[w] /\ stage[x] = "running" /\ stage'[x] = outcome[w]
  <1>t. stage \in [StageIds -> StageStatus]
    BY DEF TypeOK, DataTypeOK
  <1>1. PICK w \in Workers : PersistRecheck(w)
    BY DEF Next, Reconcile, Work, Fault, Enqueue, BeginRunOne, BeginReconcile, TakeLock,
           SelectRunning, SelectRows, InterruptStages, InterruptRows, InterruptRuns,
           CommitReconcile, Claim, ClaimNothing, CheckSkip, SkipStage, StartStage,
           CommitStart, BeginRun, InsertRun, Scan, Ingest, Probe, CheckPersist,
           PublishRecheck, CleanUp, CheckFinish, FinishStage, CheckFinalize, Finalize,
           Crash, CancelStage, CancelLoop, LoseLock, ReconcileRun, vars, db
  <1>2. at[w] \in StageIds
    BY <1>1 DEF PersistRecheck, TypeOK, LocalTypeOK, StagePcs, RecheckPcs
  <1> QED BY <1>1, <1>2, <1>t DEF PersistRecheck

\* A stage becomes completed together with its evidence, or after it.
LEMMA EvidenceStep ==
  ASSUME TypeOK, RowLocksHold, LaunchInv, StagesInv, [Next]_vars
  PROVE  EvidenceBacksStages'
  <1> SUFFICES ASSUME NEW x \in StageIds
               PROVE  /\ stage'[x] = "completed" =>
                           IF KindOf(x) = "scanner" THEN run'[x] = "succeeded" /\ x \in result'
                           ELSE x \in report'
                      /\ x \in report' => stage'[x] \in {"completed", "failed"}
    BY DEF EvidenceBacksStages
  <1>s. Settled /\ result \subseteq result' /\ report \subseteq report'
    BY SettledStep, EvidenceGrows
  <1>e. /\ stage[x] = "completed" =>
             IF KindOf(x) = "scanner" THEN run[x] = "succeeded" /\ x \in result
             ELSE x \in report
        /\ x \in report => stage[x] \in {"completed", "failed"}
    BY DEF StagesInv, EvidenceBacksStages
  <1>p. ASSUME NEW w \in Workers, PersistRecheck(w)
        PROVE  KindOf(at[w]) = "recheck" /\ outcome[w] \in {"completed", "failed"}
    BY <1>p DEF PersistRecheck, StagesInv, AtHand, RecheckPcs
  <1>1. ASSUME stage'[x] = "completed"
        PROVE  IF KindOf(x) = "scanner" THEN run'[x] = "succeeded" /\ x \in result'
               ELSE x \in report'
    <2>1. CASE stage[x] = "completed"
      BY <2>1, <1>s, <1>e DEF Settled
    <2>2. CASE stage[x] # "completed"
      <3>1. PICK w \in Workers :
              /\ x = at[w] /\ outcome[w] = "completed"
              /\ \/ PersistRecheck(w) /\ x \in report'
                 \/ FinishStage(w) /\ result' = LinkResult(x)
        BY <1>1, <2>2, StageWrites
      <3>2. CASE PersistRecheck(w) /\ x \in report'
        BY <1>p, <3>1, <3>2
      <3>3. CASE FinishStage(w) /\ result' = LinkResult(x)
        <4>1. KindOf(x) = "scanner" /\ run[x] = "succeeded"
          BY <3>1, <3>3 DEF FinishStage, StagesInv, AtHand, FinishPcs
        <4> QED BY <3>3, <4>1, <1>s DEF LinkResult, Settled
      <3> QED BY <3>1, <3>2, <3>3
    <2> QED BY <2>1, <2>2
  <1>2. ASSUME x \in report' PROVE stage'[x] \in {"completed", "failed"}
    <2>1. CASE x \in report
      BY <2>1, <1>s, <1>e DEF Settled, Ended
    <2>2. CASE x \notin report
      BY <1>2, <2>2, <1>p, ReportWrites
    <2> QED BY <2>1, <2>2
  <1> QED BY <1>1, <1>2

\* The verdict written by finalize is the one its worker has at hand.
LEMMA VerdictStep ==
  ASSUME TypeOK, RowLocksHold, LaunchInv, StagesInv, [Next]_vars, NEW a \in Assessments
  PROVE  Agrees(a, manifest[a])'
  <1>t. manifest \in [Assessments -> ManifestStatus]
    BY DEF TypeOK, DataTypeOK
  <1>s. Settled
    BY SettledStep
  <1>1. CASE manifest'[a] \notin {"completed", "failed"}
    BY <1>1 DEF Agrees
  <1>2. CASE manifest'[a] = manifest[a]
    BY <1>2, <1>s, AgreesKept DEF StagesInv, Agrees
  <1>3. CASE manifest'[a] \in {"completed", "failed"} /\ manifest'[a] # manifest[a]
    <2>1. PICK w \in Workers : Finalize(w)
      BY <1>3, ManifestWrites
    <2>2. a = at[w][1] /\ manifest'[a] = outcome[w]
      BY <1>3, <2>1, <1>t DEF Finalize
    <2>3. Agrees(a, outcome[w])
      BY <2>1, <2>2 DEF Finalize, StagesInv, AtHand
    <2> QED BY <2>2, <2>3, <1>s, AgreesKept DEF Agrees
  <1> QED BY <1>1, <1>2, <1>3

\* Together they are inductive.
LEMMA StagesInvHolds == Spec => []StagesInv
  <1>1. Init => StagesInv
    <2> SUFFICES ASSUME Init PROVE StagesInv
      OBVIOUS
    <2>1. \A w \in Workers : AtHand(w)
      BY DEF Init, AtHand, StagePcs, SkipPcs, StartPcs, ScanPcs, RecheckPcs, FinishPcs
    <2>2. StagesInOrder /\ EvidenceBacksStages
      BY DEF Init, StagesInOrder, EvidenceBacksStages
    <2>3. \A a \in Assessments : Agrees(a, manifest[a])
      BY DEF Init, Agrees
    <2> QED BY <2>1, <2>2, <2>3 DEF StagesInv
  <1>2. TypeOK /\ RowLocksHold /\ LaunchInv /\ StagesInv /\ [Next]_vars => StagesInv'
    <2> SUFFICES ASSUME TypeOK, RowLocksHold, LaunchInv, StagesInv, [Next]_vars
                 PROVE  StagesInv'
      OBVIOUS
    <2>1. \A w \in Workers : AtHand(w)'
      BY HandStep DEF StagesInv
    <2>2. \A a \in Assessments : Agrees(a, manifest[a])'
      BY VerdictStep
    <2> QED BY <2>1, <2>2, OrderStep, EvidenceStep DEF StagesInv
  <1> QED BY <1>1, <1>2, TypeCorrect, RowLocks, LaunchInvHolds, PTL DEF Spec

-----------------------------------------------------------------------------
(* What this gives the reader of an assessment.                            *)

\* A stage leaves "pending" only after every earlier stage of its assessment has
\* ended, whichever workers, fenced or not, moved the two.
THEOREM StagesTakenInOrder == Spec => []StagesInOrder
  <1>1. StagesInv => StagesInOrder
    BY DEF StagesInv
  <1> QED BY <1>1, StagesInvHolds, PTL

\* A completed stage has its linked, succeeded run or its stored report, and no
\* report belongs to a stage that is open, skipped or interrupted.
THEOREM CompletedHasEvidence == Spec => []EvidenceBacksStages
  <1>1. StagesInv => EvidenceBacksStages
    BY DEF StagesInv
  <1> QED BY <1>1, StagesInvHolds, PTL

\* The verdict of finalize agrees with the stages, although it was computed from
\* an earlier read and perhaps by a worker that had lost its lock.
THEOREM VerdictAgrees == Spec => []VerdictMatchesStages
  <1>1. StagesInv => VerdictMatchesStages
    <2> SUFFICES ASSUME StagesInv, NEW a \in Assessments
                 PROVE  /\ manifest[a] = "completed" =>
                             {stage[x] : x \in StagesOf(a)} \subseteq {"completed", "skipped"}
                        /\ manifest[a] = "failed" =>
                             /\ "failed" \in {stage[x] : x \in StagesOf(a)}
                             /\ {stage[x] : x \in StagesOf(a)}
                                  \subseteq {"completed", "failed", "skipped"}
      BY DEF VerdictMatchesStages
    <2>1. Agrees(a, manifest[a])
      BY DEF StagesInv
    <2> QED BY <2>1 DEF Agrees
  <1> QED BY <1>1, StagesInvHolds, PTL
=============================================================================
