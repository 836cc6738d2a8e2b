------------------------------- MODULE Status -------------------------------
(***************************************************************************)
(* Statuses, exit codes and their aggregation: internal/domain/status.go   *)
(* and internal/domain/result.go.                                          *)
(*                                                                         *)
(* A step result keeps what its status depends on: the exit code, reduced  *)
(* to "zero" (ExitSuccess), "nonzero" (ExitFailure and every other code)   *)
(* and "none" (ExitNone), and whether Err is set.  Output and durations    *)
(* are left out.                                                           *)
(***************************************************************************)
EXTENDS Integers, Sequences

Statuses ==
    {"unknown", "pending", "running", "passed", "failed", "skipped", "errored"}

ExitCodes == {"zero", "nonzero", "none"}

StepResult == [step : Nat, exit : ExitCodes, err : BOOLEAN]

\* StepResult.Status: an infrastructure fault outranks whatever code was kept.
StepStatus(r) ==
    IF r.err THEN "errored"
    ELSE IF r.exit = "zero" THEN "passed" ELSE "failed"

statusRank(s) ==
    CASE s = "errored" -> 6 [] s = "failed"  -> 5 [] s = "unknown" -> 4
      [] s = "running" -> 3 [] s = "pending" -> 2 [] s = "skipped" -> 1
      [] OTHER -> 0

worstStatus(a, b) == IF statusRank(b) > statusRank(a) THEN b ELSE a

(***************************************************************************)
(* What the three Status methods compute: their loop starts from Passed    *)
(* and folds worstStatus over the parts.  VerdictLoop takes that loop step *)
(* by step and shows that it ends with WorstOf of the statuses it saw.     *)
(***************************************************************************)
WorstOf(S) ==
    CHOOSE s \in S \cup {"passed"} :
        \A t \in S \cup {"passed"} : statusRank(t) <= statusRank(s)

\* StageResult.Status and PipelineResult.Status, given the parts' statuses.
AggregateStatus(S) == IF S = {} THEN "pending" ELSE WorstOf(S)

\* JobResult.Status: a setup error outranks the steps.
JobResultStatus(setupErr, results) ==
    IF setupErr THEN "errored"
    ELSE AggregateStatus({StepStatus(results[i]) : i \in DOMAIN results})

\* The orchestrator's fail-fast gate.
EndsTheRun(s) == s \in {"failed", "errored"}
=============================================================================
