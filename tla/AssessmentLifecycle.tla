------------------------ MODULE AssessmentLifecycle ------------------------
(***************************************************************************)
(* What the durable worker promises to the reader of an assessment,        *)
(* without tokens, locks, transactions or runs: at most one assessment is  *)
(* being executed, its stages are taken in order and once, and it is       *)
(* closed either with the verdict its stages call for or, when it was      *)
(* abandoned, together with the stage that was running.  Orchestration     *)
(* implements this as long as the worker lock outlives its holder.         *)
(***************************************************************************)
EXTENDS AssessmentPlan

VARIABLES manifest, stage

vars == <<manifest, stage>>

Init ==
  /\ manifest = [a \in Assessments |-> "absent"]
  /\ stage = [x \in StageIds |-> "pending"]

Create(a) ==
  /\ manifest[a] = "absent"
  /\ manifest' = [manifest EXCEPT ![a] = "pending"]
  /\ UNCHANGED stage

Claim(a) ==
  /\ manifest[a] = "pending"
  /\ \A b \in Assessments : manifest[b] # "running"
  /\ manifest' = [manifest EXCEPT ![a] = "running"]
  /\ UNCHANGED stage

\* A stage is begun, or skipped if it was planned so, after all earlier ones ended.
Take(x) ==
  /\ manifest[x[1]] = "running" /\ stage[x] = "pending"
  /\ \A y \in StagesOf(x[1]) : y[2] < x[2] => stage[y] \in Ended \ {"interrupted"}
  /\ stage' = [stage EXCEPT ![x] = IF KindOf(x) = "skip" THEN "skipped" ELSE "running"]
  /\ UNCHANGED manifest

End(x) ==
  /\ manifest[x[1]] = "running" /\ stage[x] = "running"
  /\ \E verdict \in Closed : stage' = [stage EXCEPT ![x] = verdict]
  /\ UNCHANGED manifest

Conclude(a) ==
  LET states == {stage[x] : x \in StagesOf(a)} IN
    /\ manifest[a] = "running" /\ ~Unfinished(states)
    /\ manifest' = [manifest EXCEPT ![a] = Verdict(states)]
    /\ UNCHANGED stage

Abandon(a) ==
  /\ manifest[a] = "running"
  /\ manifest' = [manifest EXCEPT ![a] = "interrupted"]
  /\ stage' = [x \in StageIds |->
                 IF x[1] = a /\ stage[x] = "running" THEN "interrupted" ELSE stage[x]]

Next ==
  \/ \E a \in Assessments : Create(a) \/ Claim(a) \/ Conclude(a) \/ Abandon(a)
  \/ \E x \in StageIds : Take(x) \/ End(x)

Spec == Init /\ [][Next]_vars
=============================================================================
