--------------------------- MODULE AssessmentPlan ---------------------------
(***************************************************************************)
(* The immutable part of an assessment: which stages it has, of which kind *)
(* and in which order, and the lifecycle states of assessments and stages  *)
(* (orchestration/models.py, the CHECKs of storage/schema.py).             *)
(***************************************************************************)
EXTENDS Naturals, Sequences, FiniteSets

CONSTANTS
  Assessments,    \* assessment identifiers
  Plan            \* Plan[a]: the kinds of the stages of a, in order

\* "scanner" is nmap, httpx or nuclei; "skip" a stage planned with a skip_reason.
Kinds == {"scanner", "recheck", "skip"}

\* build_plan and enqueue refuse an assessment without stages.
ASSUME PlanAssumption == Plan \in [Assessments -> Seq(Kinds) \ {<<>>}]

StageIds == UNION {{a} \X (1 .. Len(Plan[a])) : a \in Assessments}
StagesOf(a) == {x \in StageIds : x[1] = a}
KindOf(x) == Plan[x[1]][x[2]]

ManifestStatus == {"absent", "pending", "running", "completed", "failed", "interrupted"}
StageStatus == {"pending", "running", "completed", "failed", "interrupted", "skipped"}
Closed == {"completed", "failed", "interrupted"}
Ended == {"completed", "failed", "interrupted", "skipped"}

\* Mutant of Unfinished: a stage that is still running is overlooked.
UnfinishedPendingOnly(states) == "pending" \in states /\ "interrupted" \notin states

\* An assessment cannot be concluded over these stage states ...
Unfinished(states) ==
  "running" \in states \/ ("pending" \in states /\ "interrupted" \notin states)

\* Mutant of Verdict: failed stages are overlooked.
VerdictIgnoringFailures(states) ==
  IF "interrupted" \in states THEN "interrupted" ELSE "completed"

\* ... and is otherwise concluded as its worst stage.
Verdict(states) ==
  IF "interrupted" \in states THEN "interrupted"
  ELSE IF "failed" \in states THEN "failed" ELSE "completed"
=============================================================================
