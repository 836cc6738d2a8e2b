---------------------------- MODULE Orchestrator ----------------------------
(***************************************************************************)
(* Orchestrator.Run and runStage (internal/orchestrator/orchestrator.go):  *)
(* one pipeline run.  The main goroutine goes through the stages and, in   *)
(* each, starts one goroutine per job and waits for all of them; each      *)
(* publication and each call of the runner is a step of its own.           *)
(*                                                                         *)
(* The runner is what it promises its caller (see DockerRunner): if it     *)
(* returns, a verdict, and Errored if its context was done when it was     *)
(* called.                                                                 *)
(***************************************************************************)
EXTENDS Pipeline

VARIABLES
    \* The environment.
    busFaulty,      \* publications may fail although their context is live
    ctxErr,         \* ctx.Err() of the run: "none", "canceled", "deadline"
    \* Orchestrator.Run and runStage.
    pc,             \* "start", "stage", "spawn", "finish" or "returned"
    stage,          \* the stage the loop is in
    toSpawn,        \* its jobs whose goroutine is not started yet
    groupDone,      \* the errgroup cancelled the context of the stage's jobs
    stageResults,   \* the statuses of result.StageResults
    response,       \* the status of the returned result, "none" before
    \* The goroutine of each job.
    jobPc,          \* the next call the goroutine makes, see JobLabels
    jobResult,      \* the status of the result the runner returned
    slot,           \* the status of jobResults[i]; its zero value is Pending
    \* The event stream.
    log,            \* the events of the run that landed, in order
    late            \* jobs whose runner was called on a done context

envVars  == <<busFaulty, ctxErr>>
mainVars == <<pc, stage, toSpawn, stageResults, response>>
jobVars  == <<jobPc, jobResult, slot, late>>
vars == <<envVars, mainVars, groupDone, jobVars, log>>

NoJob == "-"

Init ==
    /\ busFaulty \in BOOLEAN
    /\ ctxErr = "none"
    /\ pc = "start"
    /\ stage = 1
    /\ toSpawn = {}
    /\ groupDone = FALSE
    /\ stageResults = <<>>
    /\ response = "none"
    /\ jobPc = [j \in Jobs |-> "none"]
    /\ jobResult = [j \in Jobs |-> "none"]
    /\ slot = [j \in Jobs |-> "pending"]
    /\ late = {}
    /\ log = <<>>

\* The client goes away or its deadline passes.
Cancel ==
    /\ ctxErr = "none"
    /\ ctxErr' \in {"canceled", "deadline"}
    /\ UNCHANGED <<busFaulty, mainVars, groupDone, jobVars, log>>

-----------------------------------------------------------------------------
(***************************************************************************)
(* emit, on a context that is done or not: publishing on a done context    *)
(* fails, a failure is logged and nothing else.                            *)
(***************************************************************************)
emit(done, type, job, status) ==
    \/ ~done /\ log' = Append(log, [type |-> type, job |-> job, status |-> status])
    \/ (done \/ busFaulty) /\ UNCHANGED log

RunCtxDone == ctxErr # "none"

\* Seeded fault: the group's context does not derive from the run's.
JobCtxDone_Background == groupDone

\* The context of the stage's errgroup.
JobCtxDone == RunCtxDone \/ groupDone

\* Seeded fault: finished events are published on the run's context.
DetachedCtxDone_Inherited == RunCtxDone

\* context.WithoutCancel(ctx)
DetachedCtxDone == FALSE

-----------------------------------------------------------------------------
(* The main goroutine.                                                     *)

\* Run up to its loop.
Start ==
    /\ pc = "start"
    /\ emit(RunCtxDone, "pipeline.started", NoJob, "unknown")
    /\ pc' = "stage"
    /\ UNCHANGED <<envVars, stage, toSpawn, stageResults, response, groupDone, jobVars>>

\* runStage up to its loop: a new errgroup with a context of its own.
OpenStage ==
    /\ pc = "stage"
    /\ toSpawn' = JobsOf[stage]
    /\ groupDone' = FALSE
    /\ pc' = "spawn"
    /\ UNCHANGED <<envVars, stage, stageResults, response, jobVars, log>>

Spawn(j) ==
    /\ pc = "spawn" /\ j \in toSpawn
    /\ toSpawn' = toSpawn \ {j}
    /\ jobPc' = [jobPc EXCEPT ![j] = "started"]
    /\ UNCHANGED <<envVars, pc, stage, stageResults, response, groupDone,
                   jobResult, slot, late, log>>

\* Seeded fault: one goroutine's return is enough.
GroupReturned_Any == toSpawn = {} /\ \E j \in JobsOf[stage] : jobPc[j] = "done"

\* g.Wait() returns.
GroupReturned == toSpawn = {} /\ \A j \in JobsOf[stage] : jobPc[j] = "done"

StageStatus == AggregateStatus({slot[j] : j \in JobsOf[stage]})

\* Seeded fault: only Failed ends the run.
FailsFast_FailedOnly(status) == status = "failed"

FailsFast(status) == EndsTheRun(status)

\* Seeded fault: off by one.
LastStage_OneMore == stage > NumStages

LastStage == stage = NumStages

\* The end of runStage, where Wait cancels the group's context, and of the
\* loop's turn in Run.
CloseStage ==
    /\ pc = "spawn" /\ GroupReturned
    /\ groupDone' = TRUE
    /\ stageResults' = Append(stageResults, StageStatus)
    /\ IF FailsFast(StageStatus) \/ LastStage
       THEN pc' = "finish" /\ UNCHANGED stage
       ELSE pc' = "stage" /\ stage' = stage + 1
    /\ UNCHANGED <<envVars, toSpawn, response, jobVars, log>>

ResultStatus == AggregateStatus({stageResults[i] : i \in DOMAIN stageResults})

Finish ==
    /\ pc = "finish"
    /\ emit(DetachedCtxDone, "pipeline.finished", NoJob, ResultStatus)
    /\ response' = ResultStatus
    /\ pc' = "returned"
    /\ UNCHANGED <<envVars, stage, toSpawn, stageResults, groupDone, jobVars>>

-----------------------------------------------------------------------------
(* The goroutine of job j.                                                 *)

\* The started event, and the call of runner.Run.
StartJob(j) ==
    /\ jobPc[j] = "started"
    /\ emit(JobCtxDone, "job.started", j, "unknown")
    /\ jobPc' = [jobPc EXCEPT ![j] = "calling"]
    /\ UNCHANGED <<envVars, mainVars, groupDone, jobResult, slot, late>>

CallRunner(j) ==
    /\ jobPc[j] = "calling"
    /\ jobPc' = [jobPc EXCEPT ![j] = "running"]
    /\ late' = IF JobCtxDone THEN late \cup {j} ELSE late
    /\ UNCHANGED <<envVars, mainVars, groupDone, jobResult, slot, log>>

RunnerReturns(j) ==
    /\ jobPc[j] = "running"
    /\ \E v \in Verdicts :
          /\ j \in late => v = "errored"
          /\ jobResult' = [jobResult EXCEPT ![j] = v]
    /\ jobPc' = [jobPc EXCEPT ![j] = "reporting"]
    /\ UNCHANGED <<envVars, mainVars, groupDone, slot, late, log>>

FinishJob(j) ==
    /\ jobPc[j] = "reporting"
    /\ emit(DetachedCtxDone, "job.finished", j, jobResult[j])
    /\ jobPc' = [jobPc EXCEPT ![j] = "storing"]
    /\ UNCHANGED <<envVars, mainVars, groupDone, jobResult, slot, late>>

\* Seeded fault: a job that did not pass fails the errgroup.
GoroutineErr_Propagated(j) == jobResult[j] # "passed"

\* The goroutine's own return: `return nil`, whatever runner.Run returned.
GoroutineErr(j) == FALSE

\* Seeded fault: the goroutines share the loop's variable.
SlotOf_Shared(j) == CHOOSE i \in JobsOf[stage] : TRUE

\* The slot a job's goroutine writes: its own.
SlotOf(j) == j

\* jobResults[i] under the mutex, and the return to the errgroup.
StoreResult(j) ==
    /\ jobPc[j] = "storing"
    /\ slot' = [slot EXCEPT ![SlotOf(j)] = jobResult[j]]
    /\ groupDone' = (groupDone \/ GoroutineErr(j))
    /\ jobPc' = [jobPc EXCEPT ![j] = "done"]
    /\ UNCHANGED <<envVars, mainVars, jobResult, late, log>>

-----------------------------------------------------------------------------
MainStep == Start \/ OpenStage \/ CloseStage \/ Finish \/ \E j \in Jobs : Spawn(j)

JobStep(j) == StartJob(j) \/ CallRunner(j) \/ FinishJob(j) \/ StoreResult(j)

Done == pc = "returned" /\ UNCHANGED vars

Next ==
    \/ Cancel
    \/ MainStep
    \/ \E j \in Jobs : JobStep(j) \/ RunnerReturns(j)
    \/ Done

(***************************************************************************)
(* Goroutines are scheduled.  A run of the runner begun on a done context  *)
(* returns, its first call fails; one begun on a live context may take     *)
(* forever, whatever becomes of the context.                               *)
(***************************************************************************)
Fairness ==
    /\ WF_vars(MainStep)
    /\ \A j \in Jobs : WF_vars(JobStep(j)) /\ WF_vars(j \in late /\ RunnerReturns(j))

Spec == Init /\ [][Next]_vars /\ Fairness

-----------------------------------------------------------------------------
(* Properties.                                                             *)

JobLabels ==
    {"none", "started", "calling", "running", "reporting", "storing", "done"}

(***************************************************************************)
(* Every variable has its type.                                            *)
(***************************************************************************)
TypeOK ==
    /\ busFaulty \in BOOLEAN
    /\ ctxErr \in {"none", "canceled", "deadline"}
    /\ pc \in {"start", "stage", "spawn", "finish", "returned"}
    /\ stage \in 1..NumStages
    /\ toSpawn \subseteq Jobs
    /\ groupDone \in BOOLEAN
    /\ stageResults \in Seq(Statuses)
    /\ response \in {"none"} \cup Statuses
    /\ jobPc \in [Jobs -> JobLabels]
    /\ jobResult \in [Jobs -> {"none"} \cup Verdicts]
    /\ slot \in [Jobs -> {"pending"} \cup Verdicts]
    /\ late \subseteq Jobs
    /\ log \in Seq([type : {"pipeline.started", "job.started", "job.finished",
                            "pipeline.finished"},
                    job : Jobs \cup {NoJob}, status : Statuses])

(***************************************************************************)
(* A job that fails leaves its siblings alone: while the client waits, the *)
(* context of a running job is live (orchestrator.go:135, 164).            *)
(***************************************************************************)
SiblingsUndisturbed ==
    ctxErr = "none" =>
        /\ late = {}
        /\ groupDone => \A j \in Jobs : jobPc[j] \notin {"started", "calling", "running"}

(***************************************************************************)
(* The verdict of the response is Passed exactly when every job of every   *)
(* stage ran and passed: no zero-valued slot, skipped stage or job         *)
(* cancelled on the way is taken for a pass (orchestrator.go:103-122).     *)
(***************************************************************************)
PassedMeansEveryJobPassed ==
    response # "none" =>
        (response = "passed" <=>
            \A s \in 1..NumStages : \A j \in JobsOf[s] : jobResult[j] = "passed")

\* The position of an event in the stream.
At(type, job) == {i \in DOMAIN log : log[i].type = type /\ log[i].job = job}
Precedes(A, B) == \A a \in A, b \in B : a < b

(***************************************************************************)
(* With the bus up the stream records every end, cancelled or not: one     *)
(* finished event per job begun, with the status the response carries, and *)
(* one for the run, last and with the response's verdict                   *)
(* (orchestrator.go:112-121, 144-153).                                     *)
(***************************************************************************)
EveryEndRecorded ==
    response # "none" /\ ~busFaulty =>
        /\ \A j \in Jobs :
              IF jobPc[j] = "none" THEN At("job.finished", j) = {}
              ELSE \E i \in DOMAIN log :
                      At("job.finished", j) = {i} /\ log[i].status = slot[j]
        /\ At("pipeline.finished", NoJob) = {Len(log)}
        /\ log[Len(log)].status = response

(***************************************************************************)
(* Whatever was lost, what landed is in order: a job's start before its    *)
(* end, the jobs of a stage after the end of every earlier stage's, all of *)
(* it after the run's start and before its end.                            *)
(***************************************************************************)
StreamNested ==
    /\ Precedes(At("pipeline.started", NoJob), DOMAIN log \ {1})
    /\ Precedes(DOMAIN log \ {Len(log)}, At("pipeline.finished", NoJob))
    /\ \A j \in Jobs : Precedes(At("job.started", j), At("job.finished", j))
    /\ \A s, t \in 1..NumStages : s < t =>
          \A i \in JobsOf[s], j \in JobsOf[t] :
              Precedes(At("job.started", i) \cup At("job.finished", i),
                       At("job.started", j) \cup At("job.finished", j))

(***************************************************************************)
(* Orchestrator implements StagedRun: a job has begun when its goroutine   *)
(* has, has its verdict when that is in the stage's result, and the run's  *)
(* verdict is the response's.                                              *)
(***************************************************************************)
Promise == INSTANCE StagedRun WITH
    begun <- {j \in Jobs : jobPc[j] # "none"},
    verdict <- [j \in Jobs |-> IF jobPc[j] = "done" THEN slot[j] ELSE "none"],
    runVerdict <- response

ImplementsStagedRun == Promise!Spec

(***************************************************************************)
(* A run whose client is gone ends, unless a job the runner already works  *)
(* on holds it up: the jobs that are still to begin, in this stage and the *)
(* later ones, all see the cancellation and none stays                     *)
(* (orchestrator.go:103-110, 135).                                         *)
(***************************************************************************)
CancelledRunEnds ==
    (RunCtxDone /\ \A j \in Jobs : jobPc[j] # "running") ~> pc = "returned"
=============================================================================
