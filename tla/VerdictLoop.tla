---------------------------- MODULE VerdictLoop ----------------------------
(***************************************************************************)
(* The loop that JobResult.Status, StageResult.Status and                  *)
(* PipelineResult.Status share (internal/domain/result.go):                *)
(*                                                                         *)
(*     worst := StatusPassed                                               *)
(*     for _, p := range parts { worst = worstStatus(worst, p.Status()) }  *)
(*                                                                         *)
(* One Fold step per iteration, over parts of any status in any order and  *)
(* number.  The other modules use the loop's result, WorstOf.              *)
(***************************************************************************)
EXTENDS Status

VARIABLES
    worst,  \* the accumulator of the loop
    seen    \* the statuses folded in so far

vars == <<worst, seen>>

Init ==
    /\ worst = "passed"
    /\ seen = {}

\* Seeded fault: the newest status that is not Passed wins.
Fold_NewestWins(s) ==
    /\ worst' = IF s = "passed" THEN worst ELSE s
    /\ seen' = seen \cup {s}

Fold(s) ==
    /\ worst' = worstStatus(worst, s)
    /\ seen' = seen \cup {s}

Next == \E s \in Statuses : Fold(s)

Spec == Init /\ [][Next]_vars

(***************************************************************************)
(* The accumulator is a status and only statuses were folded.              *)
(***************************************************************************)
TypeOK == worst \in Statuses /\ seen \subseteq Statuses

(***************************************************************************)
(* Whatever the order of the parts, the loop ends with the worst of them   *)
(* (result.go:50-53, 86-89, 111-114): jobs finish in any order, and the    *)
(* verdict may not depend on it.                                           *)
(***************************************************************************)
LoopComputesWorst == worst = WorstOf(seen)

(***************************************************************************)
(* The fail-fast gate (orchestrator.go:107) looks at the aggregate only:   *)
(* it must fire exactly when some part is Failed or Errored.  A Pending,   *)
(* Running or Unknown part may neither mask a bad one nor raise the gate.  *)
(***************************************************************************)
GateSeesEveryBadPart ==
    EndsTheRun(worst) <=> \E s \in seen : EndsTheRun(s)
=============================================================================
