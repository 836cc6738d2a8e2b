------------------------------ MODULE Pipeline ------------------------------
(***************************************************************************)
(* A pipeline as config.Load hands it to the orchestrator: a list of       *)
(* stages with jobs (internal/domain/pipeline.go).  Validate rejects a     *)
(* pipeline without stages and a stage without jobs; translate puts each   *)
(* job in the one stage it names (internal/config/models.go, loader.go).   *)
(***************************************************************************)
EXTENDS Status

CONSTANTS
    Jobs,       \* the jobs of the pipeline
    NumStages,  \* its number of stages
    JobsOf      \* the jobs of each stage

ASSUME NumStagesAssumption == NumStages \in Nat \ {0}
ASSUME JobsOfAssumption ==
    /\ JobsOf \in [1..NumStages -> (SUBSET Jobs) \ {{}}]
    /\ \A s, t \in 1..NumStages : s # t => JobsOf[s] \cap JobsOf[t] = {}

\* What a job can end with (DockerRunner's VerdictHonest).
Verdicts == {"passed", "failed", "errored"}
=============================================================================
