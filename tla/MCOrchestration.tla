-------------------------- MODULE MCOrchestration --------------------------
(* Small instances of Orchestration for TLC.                               *)
EXTENDS Orchestration, TLC

CONSTANTS a1, a2

\* One assessment with a stage of every kind that acts, and a one-stage scan.
MixedPlan == a1 :> <<"scanner", "recheck">> @@ a2 :> <<"scanner">>

\* A scan, a stage planned to be skipped, and a recheck, in one assessment.
LongPlan == a1 :> <<"scanner", "skip", "recheck">>

WorkerSymmetry == Permutations(Workers)
=============================================================================
