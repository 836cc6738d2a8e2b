------------------------- MODULE OrchestratorProofs -------------------------
(***************************************************************************)
(* The verdict of a run, its fail-fast gate and its event stream, for any  *)
(* number of stages and any jobs in them: the safety of Orchestrator and   *)
(* the steps of its refinement of StagedRun.                               *)
(***************************************************************************)
EXTENDS Orchestrator, StatusLemmas, SequenceTheorems

-----------------------------------------------------------------------------
(* The invariant.                                                          *)

Event == [type : {"pipeline.started", "job.started", "job.finished",
                  "pipeline.finished"},
          job : Jobs \cup {NoJob}, status : Statuses]

\* The stages whose result is in: all before the loop's, and then that one.
Closed == IF pc \in {"start", "stage", "spawn"} THEN stage - 1 ELSE stage

\* What a goroutine has done, by the call it makes next.
JobInv(j) ==
    /\ jobPc[j] \in {"reporting", "storing", "done"} => jobResult[j] \in Verdicts
    /\ jobPc[j] \notin {"reporting", "storing", "done"} => jobResult[j] = "none"
    /\ jobPc[j] = "done" => slot[j] = jobResult[j]

\* A closed stage holds the worst verdict of its jobs, all of them done.
ClosedInv(s) ==
    /\ \A j \in JobsOf[s] : jobPc[j] = "done"
    /\ stageResults[s] = AggregateStatus({slot[j] : j \in JobsOf[s]})

\* Which jobs have a goroutine.
SpawnInv ==
    /\ \A j \in Jobs : jobPc[j] # "none" => \E s \in 1..NumStages : j \in JobsOf[s]
    /\ \A s \in 1..NumStages : s > stage => \A j \in JobsOf[s] : jobPc[j] = "none"
    /\ pc \in {"start", "stage"} => \A j \in JobsOf[stage] : jobPc[j] = "none"
    /\ pc = "spawn" =>
          /\ toSpawn \subseteq JobsOf[stage]
          /\ \A j \in JobsOf[stage] : jobPc[j] = "none" <=> j \in toSpawn

\* The loop over the stages, and what it has collected.
StageInv ==
    /\ pc = "start" => stage = 1
    /\ Len(stageResults) = Closed
    /\ \A s \in 1..Closed : ClosedInv(s)
    /\ \A s \in 1..(stage - 1) : ~EndsTheRun(stageResults[s])
    /\ pc \in {"finish", "returned"} =>
          EndsTheRun(stageResults[stage]) \/ stage = NumStages
    /\ response = IF pc = "returned" THEN ResultStatus ELSE "none"

\* Who may find a context done.
ContextInv ==
    /\ groupDone => pc \in {"stage", "finish", "returned"}
    /\ late # {} => ctxErr # "none"

IInv ==
    /\ TypeOK
    /\ \A j \in Jobs : JobInv(j)
    /\ SpawnInv
    /\ StageInv
    /\ ContextInv

-----------------------------------------------------------------------------
(* Facts about the parts of the model.                                     *)

\* The jobs of a stage are jobs, and there is at least one.
LEMMA StageJobs ==
    \A s \in 1..NumStages : JobsOf[s] \subseteq Jobs /\ JobsOf[s] # {}
BY JobsOfAssumption

\* What a stage's or a run's verdict is made of, and its type.
LEMMA AggregateTyped ==
    ASSUME NEW S \in SUBSET Statuses
    PROVE  AggregateStatus(S) \in Statuses
BY WorstOfIsWorst DEF AggregateStatus, Statuses

\* The slots of a stage hold statuses.
LEMMA SlotsTyped ==
    ASSUME TypeOK, NEW s \in 1..NumStages
    PROVE  {slot[j] : j \in JobsOf[s]} \in SUBSET Statuses
<1>1. JobsOf[s] \subseteq Jobs
  BY StageJobs
<1>2. \A j \in Jobs : slot[j] \in Statuses
  BY DEF TypeOK, Verdicts, Statuses
<1>3. QED
  BY <1>1, <1>2

\* The results of the stages hold statuses.
LEMMA ResultsTyped ==
    ASSUME TypeOK
    PROVE  /\ {stageResults[i] : i \in DOMAIN stageResults} \in SUBSET Statuses
           /\ ResultStatus \in Statuses
<1>1. \A i \in DOMAIN stageResults : stageResults[i] \in Statuses
  BY DEF TypeOK
<1>2. {stageResults[i] : i \in DOMAIN stageResults} \in SUBSET Statuses
  BY <1>1
<1>3. QED
  BY <1>2, AggregateTyped DEF ResultStatus

\* An event, published or lost, leaves a typed stream.
LEMMA EmitTyped ==
    ASSUME log \in Seq(Event), NEW done,
           NEW type \in {"pipeline.started", "job.started", "job.finished",
                         "pipeline.finished"},
           NEW job \in Jobs \cup {NoJob}, NEW status \in Statuses,
           emit(done, type, job, status)
    PROVE  log' \in Seq(Event)
<1>1. [type |-> type, job |-> job, status |-> status] \in Event
  BY DEF Event
<1>2. CASE log' = log
  BY <1>2
<1>3. CASE log' = Append(log, [type |-> type, job |-> job, status |-> status])
  BY <1>1, <1>3
<1>4. QED
  BY <1>2, <1>3 DEF emit

\* The verdict of a closed stage is the worst of its jobs' own verdicts.
LEMMA ClosedStage ==
    ASSUME IInv, NEW s \in 1..Closed
    PROVE  /\ s \in 1..NumStages
           /\ \A j \in JobsOf[s] : jobPc[j] = "done" /\ slot[j] = jobResult[j]
                                   /\ jobResult[j] \in Verdicts
           /\ stageResults[s] = WorstOf({slot[j] : j \in JobsOf[s]})
<1>1. s \in 1..NumStages
  BY NumStagesAssumption DEF IInv, TypeOK, Closed
<1>2. ClosedInv(s)
  BY DEF IInv, StageInv
<1>3. \A j \in JobsOf[s] : jobPc[j] = "done" /\ slot[j] = jobResult[j]
                           /\ jobResult[j] \in Verdicts
  BY <1>1, <1>2, StageJobs DEF IInv, ClosedInv, JobInv
<1>4. {slot[j] : j \in JobsOf[s]} # {}
  BY <1>1, StageJobs
<1>5. QED
  BY <1>1, <1>2, <1>3, <1>4 DEF ClosedInv, AggregateStatus

\* When the group's context is done its goroutines are: Wait has returned.
LEMMA GroupDoneMeansQuiet ==
    ASSUME IInv, groupDone, NEW j \in Jobs
    PROVE  jobPc[j] \in {"none", "done"}
<1>1. pc \in {"stage", "finish", "returned"}
  BY DEF IInv, ContextInv
<1>2. SUFFICES ASSUME jobPc[j] # "none" PROVE jobPc[j] = "done"
  OBVIOUS
<1>3. PICK s \in 1..NumStages : j \in JobsOf[s]
  BY <1>2 DEF IInv, SpawnInv
<1>4. ~(s > stage) /\ (pc = "stage" => s # stage)
  BY <1>2, <1>3 DEF IInv, SpawnInv
<1>5. s \in 1..Closed
  BY <1>1, <1>4 DEF IInv, TypeOK, Closed
<1>6. QED
  BY <1>3, <1>5, ClosedStage

-----------------------------------------------------------------------------
(* The invariant is inductive.                                             *)

\* A fresh run satisfies the invariant.
LEMMA InitInv == Init => IInv
<1> SUFFICES ASSUME Init PROVE IInv
  OBVIOUS
<1>1. TypeOK
  <2>1. log \in Seq(Event) /\ stageResults \in Seq(Statuses)
    BY DEF Init
  <2>2. /\ jobPc \in [Jobs -> JobLabels]
        /\ jobResult \in [Jobs -> {"none"} \cup Verdicts]
        /\ slot \in [Jobs -> {"pending"} \cup Verdicts]
    BY DEF Init, JobLabels
  <2>3. stage \in 1..NumStages
    BY NumStagesAssumption DEF Init
  <2>4. QED
    BY <2>1, <2>2, <2>3 DEF Init, TypeOK, Event
<1>2. \A j \in Jobs : JobInv(j)
  BY DEF Init, JobInv
<1>3. SpawnInv
  BY StageJobs, NumStagesAssumption DEF Init, SpawnInv
<1>4. StageInv
  BY DEF Init, StageInv, Closed
<1>5. ContextInv
  BY DEF Init, ContextInv
<1>6. QED
  BY <1>1, <1>2, <1>3, <1>4, <1>5 DEF IInv

\* A step that leaves the goroutines and the loop alone keeps what relates them.
LEMMA Untouched ==
    ASSUME IInv, UNCHANGED <<mainVars, jobPc, jobResult, slot>>
    PROVE  (\A j \in Jobs : JobInv(j))' /\ SpawnInv' /\ StageInv'
<1>1. (\A j \in Jobs : JobInv(j))'
  BY DEF IInv, JobInv, mainVars
<1>2. SpawnInv'
  BY DEF IInv, SpawnInv, mainVars
<1>3. Closed' = Closed /\ ResultStatus' = ResultStatus
  BY DEF Closed, ResultStatus, mainVars
<1>4. StageInv'
  <2>1. \A s : ClosedInv(s) => ClosedInv(s)'
    BY DEF ClosedInv, mainVars
  <2>2. QED
    BY <1>3, <2>1 DEF IInv, StageInv, mainVars
<1>5. QED
  BY <1>1, <1>2, <1>4

\* A goroutine that moves on disturbs no closed stage: its own is open.
LEMMA JobMoves ==
    ASSUME IInv, NEW j \in Jobs, jobPc[j] \notin {"none", "done"},
           NEW label \in JobLabels \ {"none"}, jobPc' = [jobPc EXCEPT ![j] = label],
           \A i \in Jobs \ {j} : slot'[i] = slot[i],
           UNCHANGED mainVars
    PROVE  SpawnInv' /\ StageInv'
<1>1. \A i \in Jobs : jobPc'[i] = "none" <=> jobPc[i] = "none"
  BY DEF IInv, TypeOK
<1>2. SpawnInv'
  BY <1>1, StageJobs DEF IInv, SpawnInv, mainVars, TypeOK
<1>3. Closed' = Closed /\ ResultStatus' = ResultStatus
  BY DEF Closed, ResultStatus, mainVars
<1>4. ASSUME NEW s \in 1..Closed PROVE ClosedInv(s)'
  <2>1. s \in 1..NumStages /\ ClosedInv(s)
    BY ClosedStage DEF IInv, StageInv
  <2>2. \A i \in JobsOf[s] : i \in Jobs \ {j}
    BY <2>1, StageJobs DEF ClosedInv
  <2>3. \A i \in JobsOf[s] : jobPc'[i] = jobPc[i] /\ slot'[i] = slot[i]
    BY <2>2 DEF IInv, TypeOK
  <2>4. {slot'[i] : i \in JobsOf[s]} = {slot[i] : i \in JobsOf[s]}
    BY <2>3
  <2>5. QED
    BY <2>1, <2>3, <2>4 DEF ClosedInv, mainVars
<1>5. StageInv'
  BY <1>3, <1>4 DEF IInv, StageInv, mainVars
<1>6. QED
  BY <1>2, <1>5

\* The stream stays typed when the types of the other variables are known.
LEMMA LogTyped == TypeOK => log \in Seq(Event)
BY DEF TypeOK, Event

\* The run's start is published, nothing has begun.
LEMMA StartInv == ASSUME IInv, Start PROVE IInv'
<1>1. log' \in Seq(Event)
  BY LogTyped, EmitTyped DEF IInv, Start, Statuses
<1>2. TypeOK'
  BY <1>1 DEF IInv, Start, TypeOK, jobVars, envVars, Event
<1>3. (\A j \in Jobs : JobInv(j))'
  BY DEF IInv, JobInv, Start, jobVars
<1>4. SpawnInv'
  BY DEF IInv, SpawnInv, Start, jobVars
<1>5. StageInv'
  BY DEF IInv, StageInv, ClosedInv, Start, jobVars, Closed
<1>6. ContextInv'
  BY DEF IInv, ContextInv, Start, jobVars, envVars
<1>7. QED
  BY <1>2, <1>3, <1>4, <1>5, <1>6 DEF IInv

\* No job of the stage that opens has a goroutine yet.
LEMMA OpenStageInv == ASSUME IInv, OpenStage PROVE IInv'
<1>1. toSpawn' = JobsOf[stage] /\ JobsOf[stage] \subseteq Jobs
  BY StageJobs DEF OpenStage, IInv, TypeOK
<1>2. TypeOK'
  BY <1>1 DEF IInv, OpenStage, TypeOK, jobVars, envVars
<1>3. (\A j \in Jobs : JobInv(j))'
  BY DEF IInv, JobInv, OpenStage, jobVars
<1>4. SpawnInv'
  BY <1>1 DEF IInv, SpawnInv, OpenStage, jobVars
<1>5. StageInv'
  BY DEF IInv, StageInv, ClosedInv, OpenStage, jobVars, Closed
<1>6. ContextInv'
  BY DEF IInv, ContextInv, OpenStage, jobVars, envVars
<1>7. QED
  BY <1>2, <1>3, <1>4, <1>5, <1>6 DEF IInv

\* A goroutine starts in the open stage.
LEMMA SpawnKeepsInv == ASSUME IInv, NEW j \in Jobs, Spawn(j) PROVE IInv'
<1>1. stage \in 1..NumStages /\ j \in JobsOf[stage] /\ jobPc[j] = "none"
  BY DEF IInv, TypeOK, SpawnInv, Spawn
<1>2. jobPc' = [jobPc EXCEPT ![j] = "started"] /\ jobPc \in [Jobs -> JobLabels]
  BY DEF IInv, TypeOK, Spawn
<1>3. jobPc' \in [Jobs -> JobLabels]
  BY <1>2 DEF JobLabels
<1>4. TypeOK'
  BY <1>3 DEF IInv, Spawn, TypeOK, envVars
<1>5. (\A i \in Jobs : JobInv(i))'
  BY <1>1, <1>2 DEF IInv, JobInv, Spawn
<1>6. \A s \in 1..NumStages : s # stage => j \notin JobsOf[s]
  BY <1>1, JobsOfAssumption
<1>7. SpawnInv'
  <2>1. \A i \in Jobs : jobPc'[i] = IF i = j THEN "started" ELSE jobPc[i]
    BY <1>2
  <2>2. (\A i \in Jobs : jobPc[i] # "none" => \E s \in 1..NumStages : i \in JobsOf[s])'
    BY <1>1, <2>1 DEF IInv, SpawnInv
  <2>3. (\A s \in 1..NumStages : s > stage => \A i \in JobsOf[s] : jobPc[i] = "none")'
    BY <1>1, <1>6, <2>1, StageJobs DEF IInv, SpawnInv, Spawn
  <2>4. (\A i \in JobsOf[stage] : jobPc[i] = "none" <=> i \in toSpawn)'
    BY <1>1, <2>1, StageJobs DEF IInv, SpawnInv, Spawn
  <2>5. QED
    BY <2>2, <2>3, <2>4 DEF IInv, SpawnInv, Spawn
<1>8. ASSUME NEW s \in 1..Closed PROVE ClosedInv(s)'
  <2>1. s \in 1..NumStages /\ ClosedInv(s)
    BY ClosedStage DEF IInv, StageInv
  <2>2. \A i \in JobsOf[s] : i \in Jobs \ {j}
    BY <1>1, <2>1, StageJobs DEF ClosedInv
  <2>3. \A i \in JobsOf[s] : jobPc'[i] = jobPc[i]
    BY <1>2, <2>2
  <2>4. QED
    BY <2>1, <2>3 DEF ClosedInv, Spawn
<1>9. Closed' = Closed /\ ResultStatus' = ResultStatus
  BY DEF Closed, ResultStatus, Spawn
<1>10. StageInv'
  BY <1>8, <1>9 DEF IInv, StageInv, Spawn
<1>11. ContextInv'
  BY DEF IInv, ContextInv, Spawn, envVars
<1>12. QED
  BY <1>4, <1>5, <1>7, <1>10, <1>11 DEF IInv

\* A stage closes with the worst verdict of its jobs, and only a stage
\* without a bad one has a successor.
LEMMA CloseStageInv == ASSUME IInv, CloseStage PROVE IInv'
<1> DEFINE S == {slot[j] : j \in JobsOf[stage]}
<1>1. stage \in 1..NumStages /\ pc = "spawn" /\ Closed = stage - 1
  BY DEF IInv, TypeOK, CloseStage, Closed
<1>2. StageStatus \in Statuses
  BY <1>1, SlotsTyped, AggregateTyped DEF IInv, StageStatus
<1>3. stageResults \in Seq(Statuses) /\ Len(stageResults) = stage - 1
  BY <1>1 DEF IInv, TypeOK, StageInv
<1>4. /\ stageResults' \in Seq(Statuses) /\ Len(stageResults') = stage
      /\ stageResults'[stage] = StageStatus
      /\ \A s \in 1..(stage - 1) : stageResults'[s] = stageResults[s]
  BY <1>1, <1>2, <1>3 DEF CloseStage
<1>5. \/ pc' = "finish" /\ stage' = stage /\ (EndsTheRun(StageStatus) \/ stage = NumStages)
      \/ /\ pc' = "stage" /\ stage' = stage + 1 /\ stage' \in 1..NumStages
         /\ ~EndsTheRun(StageStatus)
  BY <1>1, NumStagesAssumption DEF CloseStage, FailsFast, LastStage, EndsTheRun
<1>6. TypeOK'
  BY <1>4, <1>5 DEF IInv, CloseStage, TypeOK, jobVars, envVars
<1>7. (\A j \in Jobs : JobInv(j))'
  BY DEF IInv, JobInv, CloseStage, jobVars
<1>8. SpawnInv'
  <2>1. (\A j \in Jobs : jobPc[j] # "none" => \E s \in 1..NumStages : j \in JobsOf[s])'
    BY DEF IInv, SpawnInv, CloseStage, jobVars
  <2>2. \A s \in 1..NumStages : s > stage => \A j \in JobsOf[s] : jobPc'[j] = "none"
    BY DEF IInv, SpawnInv, CloseStage, jobVars
  <2>3. CASE pc' = "finish" /\ stage' = stage
    BY <2>1, <2>2, <2>3 DEF SpawnInv
  <2>4. CASE pc' = "stage" /\ stage' = stage + 1 /\ stage' \in 1..NumStages
    <3>1. \A s \in 1..NumStages : s > stage' => s > stage
      BY <1>1, <2>4
    <3>2. stage' > stage
      BY <1>1, <2>4
    <3>3. QED
      BY <2>1, <2>2, <2>4, <3>1, <3>2 DEF SpawnInv
  <2>5. QED
    BY <1>5, <2>3, <2>4
<1>9. Closed' = stage
  BY <1>1, <1>5 DEF Closed
<1>10. ASSUME NEW s \in 1..stage PROVE ClosedInv(s)'
  <2>1. CASE s = stage
    BY <1>4, <2>1 DEF ClosedInv, CloseStage, GroupReturned, StageStatus, jobVars
  <2>2. CASE s \in 1..(stage - 1)
    <3>1. ClosedInv(s)
      BY <1>1, <2>2 DEF IInv, StageInv
    <3>2. QED
      BY <1>4, <2>2, <3>1 DEF ClosedInv, CloseStage, jobVars
  <2>3. QED
    BY <1>1, <2>1, <2>2
<1>11. \A s \in 1..(stage - 1) : ~EndsTheRun(stageResults'[s])
  BY <1>4 DEF IInv, StageInv
<1>12. response' = "none"
  BY <1>1 DEF IInv, StageInv, CloseStage
<1>13. StageInv'
  <2>1. (Len(stageResults) = Closed /\ \A s \in 1..Closed : ClosedInv(s))'
    BY <1>4, <1>9, <1>10
  <2>2. CASE pc' = "finish" /\ stage' = stage /\ (EndsTheRun(StageStatus) \/ stage = NumStages)
    BY <1>4, <1>11, <1>12, <2>1, <2>2 DEF StageInv
  <2>3. CASE pc' = "stage" /\ stage' = stage + 1 /\ ~EndsTheRun(StageStatus)
    <3>1. \A s \in 1..(stage' - 1) : s = stage \/ s \in 1..(stage - 1)
      BY <1>1, <2>3
    <3>2. \A s \in 1..(stage' - 1) : ~EndsTheRun(stageResults'[s])
      BY <1>4, <1>11, <2>3, <3>1
    <3>3. QED
      BY <1>12, <2>1, <2>3, <3>2 DEF StageInv
  <2>4. QED
    BY <1>5, <2>2, <2>3
<1>14. ContextInv'
  BY <1>5 DEF IInv, ContextInv, CloseStage, jobVars, envVars
<1>15. QED
  BY <1>6, <1>7, <1>8, <1>13, <1>14 DEF IInv

\* The response is the worst verdict of the stages.
LEMMA FinishInv == ASSUME IInv, Finish PROVE IInv'
<1>1. ResultStatus \in Statuses
  BY ResultsTyped DEF IInv
<1>2. log' \in Seq(Event)
  BY <1>1, LogTyped, EmitTyped DEF IInv, Finish
<1>3. TypeOK'
  BY <1>1, <1>2 DEF IInv, Finish, TypeOK, jobVars, envVars, Event
<1>4. (\A j \in Jobs : JobInv(j))'
  BY DEF IInv, JobInv, Finish, jobVars
<1>5. SpawnInv'
  BY DEF IInv, SpawnInv, Finish, jobVars
<1>6. ResultStatus' = ResultStatus /\ Closed' = Closed
  BY DEF ResultStatus, Finish, Closed
<1>7. StageInv'
  <2>1. \A s : ClosedInv(s) => ClosedInv(s)'
    BY DEF ClosedInv, Finish, jobVars
  <2>2. Len(stageResults') = Closed' /\ \A s \in 1..Closed' : ClosedInv(s)'
    BY <1>6, <2>1 DEF IInv, StageInv, Finish
  <2>3. QED
    BY <1>6, <2>2 DEF IInv, StageInv, Finish
<1>8. ContextInv'
  BY DEF IInv, ContextInv, Finish, jobVars, envVars
<1>9. QED
  BY <1>3, <1>4, <1>5, <1>7, <1>8 DEF IInv

\* The started event of a job.
LEMMA StartJobInv == ASSUME IInv, NEW j \in Jobs, StartJob(j) PROVE IInv'
<1>1. log' \in Seq(Event)
  BY LogTyped, EmitTyped DEF IInv, StartJob, Statuses
<1>2. jobPc' = [jobPc EXCEPT ![j] = "calling"] /\ jobPc \in [Jobs -> JobLabels]
  BY DEF IInv, TypeOK, StartJob
<1>3. jobPc' \in [Jobs -> JobLabels]
  BY <1>2 DEF JobLabels
<1>4. TypeOK'
  BY <1>1, <1>3 DEF IInv, StartJob, TypeOK, mainVars, envVars, Event
<1>5. (\A i \in Jobs : JobInv(i))'
  BY <1>2 DEF IInv, JobInv, StartJob
<1>6. SpawnInv' /\ StageInv'
  BY JobMoves DEF StartJob, JobLabels
<1>7. ContextInv'
  BY DEF IInv, ContextInv, StartJob, mainVars, envVars
<1>8. QED
  BY <1>4, <1>5, <1>6, <1>7 DEF IInv

\* A runner called late is called on a cancelled run: the group's own context
\* ends only after all its goroutines.
LEMMA CallRunnerInv == ASSUME IInv, NEW j \in Jobs, CallRunner(j) PROVE IInv'
<1>1. jobPc' = [jobPc EXCEPT ![j] = "running"] /\ jobPc \in [Jobs -> JobLabels]
  BY DEF IInv, TypeOK, CallRunner
<1>2. jobPc' \in [Jobs -> JobLabels]
  BY <1>1 DEF JobLabels
<1>3. TypeOK'
  BY <1>2 DEF IInv, CallRunner, TypeOK, mainVars, envVars
<1>4. (\A i \in Jobs : JobInv(i))'
  BY <1>1 DEF IInv, JobInv, CallRunner
<1>5. SpawnInv' /\ StageInv'
  BY JobMoves DEF CallRunner, JobLabels
<1>6. ~groupDone
  <2>1. SUFFICES ASSUME groupDone PROVE FALSE
    OBVIOUS
  <2>2. jobPc[j] = "calling"
    BY DEF CallRunner
  <2>3. jobPc[j] \in {"none", "done"}
    BY <2>1, GroupDoneMeansQuiet
  <2>4. QED
    BY <2>2, <2>3
<1>7. ContextInv'
  BY <1>6 DEF IInv, ContextInv, CallRunner, JobCtxDone, RunCtxDone, mainVars, envVars
<1>8. QED
  BY <1>3, <1>4, <1>5, <1>7 DEF IInv

\* The runner's verdict is kept for the job's slot.
LEMMA RunnerReturnsInv == ASSUME IInv, NEW j \in Jobs, RunnerReturns(j) PROVE IInv'
<1>1. jobPc' = [jobPc EXCEPT ![j] = "reporting"] /\ jobPc \in [Jobs -> JobLabels]
  BY DEF IInv, TypeOK, RunnerReturns
<1>2. jobPc' \in [Jobs -> JobLabels]
  BY <1>1 DEF JobLabels
<1>3. PICK v \in Verdicts : jobResult' = [jobResult EXCEPT ![j] = v]
  BY DEF RunnerReturns
<1>4. jobResult' \in [Jobs -> {"none"} \cup Verdicts]
  BY <1>3 DEF IInv, TypeOK
<1>5. TypeOK'
  BY <1>2, <1>4 DEF IInv, RunnerReturns, TypeOK, mainVars, envVars
<1>6. (\A i \in Jobs : JobInv(i))'
  <2>1. SUFFICES ASSUME NEW i \in Jobs PROVE JobInv(i)'
    OBVIOUS
  <2>2. CASE i = j
    <3>1. jobPc'[j] = "reporting" /\ jobResult'[j] = v
      BY <1>1, <1>3 DEF IInv, TypeOK
    <3>2. QED
      BY <2>2, <3>1 DEF JobInv
  <2>3. CASE i # j
    <3>1. jobPc'[i] = jobPc[i] /\ jobResult'[i] = jobResult[i] /\ slot' = slot
      BY <1>1, <1>3, <2>3 DEF RunnerReturns
    <3>2. QED
      BY <3>1 DEF IInv, JobInv
  <2>4. QED
    BY <2>2, <2>3
<1>7. SpawnInv' /\ StageInv'
  BY JobMoves DEF RunnerReturns, JobLabels
<1>8. ContextInv'
  BY DEF IInv, ContextInv, RunnerReturns, mainVars, envVars
<1>9. QED
  BY <1>5, <1>6, <1>7, <1>8 DEF IInv

\* The finished event of a job.
LEMMA FinishJobInv == ASSUME IInv, NEW j \in Jobs, FinishJob(j) PROVE IInv'
<1>1. jobResult[j] \in Statuses
  BY DEF IInv, JobInv, FinishJob, Verdicts, Statuses
<1>2. log' \in Seq(Event)
  BY <1>1, LogTyped, EmitTyped DEF IInv, FinishJob
<1>3. jobPc' = [jobPc EXCEPT ![j] = "storing"] /\ jobPc \in [Jobs -> JobLabels]
  BY DEF IInv, TypeOK, FinishJob
<1>4. jobPc' \in [Jobs -> JobLabels]
  BY <1>3 DEF JobLabels
<1>5. TypeOK'
  BY <1>2, <1>4 DEF IInv, FinishJob, TypeOK, mainVars, envVars, Event
<1>6. (\A i \in Jobs : JobInv(i))'
  BY <1>3 DEF IInv, JobInv, FinishJob
<1>7. SpawnInv' /\ StageInv'
  BY JobMoves DEF FinishJob, JobLabels
<1>8. ContextInv'
  BY DEF IInv, ContextInv, FinishJob, mainVars, envVars
<1>9. QED
  BY <1>5, <1>6, <1>7, <1>8 DEF IInv

\* The goroutine writes its own slot and returns no error.
LEMMA StoreResultInv == ASSUME IInv, NEW j \in Jobs, StoreResult(j) PROVE IInv'
<1>1. jobPc' = [jobPc EXCEPT ![j] = "done"] /\ jobPc \in [Jobs -> JobLabels]
  BY DEF IInv, TypeOK, StoreResult
<1>2. jobPc' \in [Jobs -> JobLabels]
  BY <1>1 DEF JobLabels
<1>3. jobPc[j] = "storing" /\ jobResult[j] \in Verdicts
  BY DEF IInv, JobInv, StoreResult
<1>4. slot' = [slot EXCEPT ![j] = jobResult[j]] /\ slot \in [Jobs -> {"pending"} \cup Verdicts]
  BY DEF IInv, TypeOK, StoreResult, SlotOf
<1>5. slot' \in [Jobs -> {"pending"} \cup Verdicts]
  BY <1>3, <1>4
<1>6. groupDone' = groupDone
  BY DEF IInv, TypeOK, StoreResult, GoroutineErr
<1>7. TypeOK'
  BY <1>2, <1>5, <1>6 DEF IInv, StoreResult, TypeOK, mainVars, envVars
<1>8. (\A i \in Jobs : JobInv(i))'
  <2>1. SUFFICES ASSUME NEW i \in Jobs PROVE JobInv(i)'
    OBVIOUS
  <2>2. CASE i = j
    <3>1. jobPc'[j] = "done" /\ slot'[j] = jobResult[j] /\ jobResult' = jobResult
      BY <1>1, <1>4 DEF StoreResult
    <3>2. QED
      BY <1>3, <2>2, <3>1 DEF JobInv
  <2>3. CASE i # j
    <3>1. jobPc'[i] = jobPc[i] /\ slot'[i] = slot[i] /\ jobResult' = jobResult
      BY <1>1, <1>4, <2>3 DEF StoreResult
    <3>2. QED
      BY <3>1 DEF IInv, JobInv
  <2>4. QED
    BY <2>2, <2>3
<1>9. SpawnInv' /\ StageInv'
  <2>1. "done" \in JobLabels \ {"none"} /\ jobPc[j] \notin {"none", "done"}
    BY <1>3 DEF JobLabels
  <2>2. \A i \in Jobs \ {j} : slot'[i] = slot[i]
    BY <1>4
  <2>3. UNCHANGED mainVars
    BY DEF StoreResult
  <2>4. QED
    BY <1>1, <2>1, <2>2, <2>3, JobMoves
<1>10. ContextInv'
  BY <1>6 DEF IInv, ContextInv, StoreResult, mainVars, envVars
<1>11. QED
  BY <1>7, <1>8, <1>9, <1>10 DEF IInv

\* The client's cancellation touches nothing else.
LEMMA CancelInv == ASSUME IInv, Cancel PROVE IInv'
<1>1. TypeOK'
  BY DEF IInv, Cancel, TypeOK, mainVars, jobVars
<1>2. (\A j \in Jobs : JobInv(j))' /\ SpawnInv' /\ StageInv'
  BY Untouched DEF Cancel, jobVars
<1>3. ContextInv'
  BY DEF IInv, ContextInv, Cancel, mainVars, jobVars
<1>4. QED
  BY <1>1, <1>2, <1>3 DEF IInv

\* Every step keeps the invariant.
LEMMA StepInv == IInv /\ [Next]_vars => IInv'
<1> SUFFICES ASSUME IInv, [Next]_vars PROVE IInv'
  OBVIOUS
<1>1. CASE UNCHANGED vars
  <2>1. TypeOK'
    BY <1>1 DEF IInv, TypeOK, vars, envVars, mainVars, jobVars
  <2>2. (\A j \in Jobs : JobInv(j))' /\ SpawnInv' /\ StageInv'
    BY <1>1, Untouched DEF vars, jobVars
  <2>3. ContextInv'
    BY <1>1 DEF IInv, ContextInv, vars, envVars, mainVars, jobVars
  <2>4. QED
    BY <2>1, <2>2, <2>3 DEF IInv
<1>2. CASE Cancel
  BY <1>2, CancelInv
<1>3. CASE MainStep
  BY <1>3, StartInv, OpenStageInv, CloseStageInv, FinishInv, SpawnKeepsInv DEF MainStep
<1>4. ASSUME NEW j \in Jobs, JobStep(j) \/ RunnerReturns(j) PROVE IInv'
  BY <1>4, StartJobInv, CallRunnerInv, RunnerReturnsInv, FinishJobInv, StoreResultInv
     DEF JobStep
<1>5. QED
  BY <1>1, <1>2, <1>3, <1>4 DEF Next, Done

-----------------------------------------------------------------------------
(* The properties.                                                         *)

(***************************************************************************)
(* The invariant holds of every run of every pipeline.                     *)
(***************************************************************************)
THEOREM Invariant == Spec => []IInv
<1>1. QED
  BY InitInv, StepInv, PTL DEF Spec

(***************************************************************************)
(* Type correctness.                                                       *)
(***************************************************************************)
THEOREM TypeCorrect == Spec => []TypeOK
<1>1. IInv => TypeOK
  BY DEF IInv
<1>2. QED
  BY <1>1, Invariant, PTL

(***************************************************************************)
(* While the client waits no job, failed or not, ends the context of       *)
(* another (orchestrator.go:135, 164).                                     *)
(***************************************************************************)
THEOREM SiblingsUndisturbedHolds == Spec => []SiblingsUndisturbed
<1>1. ASSUME IInv PROVE SiblingsUndisturbed
  <2>1. ctxErr = "none" => late = {}
    BY <1>1 DEF IInv, ContextInv
  <2>2. groupDone => \A j \in Jobs : jobPc[j] \in {"none", "done"}
    BY <1>1, GroupDoneMeansQuiet
  <2>3. QED
    BY <2>1, <2>2 DEF SiblingsUndisturbed
<1>2. QED
  BY <1>1, Invariant, PTL

(***************************************************************************)
(* A stage that is over passed exactly when each of its jobs did.          *)
(***************************************************************************)
LEMMA StagePassed ==
    ASSUME IInv, NEW s \in 1..Closed
    PROVE  stageResults[s] = "passed" <=> \A j \in JobsOf[s] : jobResult[j] = "passed"
<1>1. s \in 1..NumStages /\ stageResults[s] = WorstOf({slot[j] : j \in JobsOf[s]})
  BY ClosedStage
<1>2. stageResults[s] = "passed" <=> \A v \in {slot[j] : j \in JobsOf[s]} : v = "passed"
  BY <1>1, SlotsTyped, WorstOfPassed DEF IInv
<1>3. \A j \in JobsOf[s] : slot[j] = jobResult[j]
  BY ClosedStage
<1>4. QED
  BY <1>2, <1>3

(***************************************************************************)
(* The response says Passed exactly when every job of every stage ran and  *)
(* passed (orchestrator.go:103-122).                                       *)
(***************************************************************************)
THEOREM PassedMeansEveryJobPassedHolds == Spec => []PassedMeansEveryJobPassed
<1>1. ASSUME IInv, response # "none"
      PROVE  response = "passed" <=>
                \A s \in 1..NumStages : \A j \in JobsOf[s] : jobResult[j] = "passed"
  <2>1. pc = "returned" /\ response = ResultStatus /\ Closed = stage
    BY <1>1 DEF IInv, StageInv, Closed
  <2>2. stage \in 1..NumStages /\ DOMAIN stageResults = 1..stage
    BY <1>1, <2>1 DEF IInv, StageInv, TypeOK
  <2>3. {stageResults[i] : i \in DOMAIN stageResults} # {}
    BY <2>2, NumStagesAssumption
  <2>4. response = WorstOf({stageResults[i] : i \in DOMAIN stageResults})
    BY <2>1, <2>3 DEF ResultStatus, AggregateStatus
  <2>5. response = "passed" <=> \A i \in 1..stage : stageResults[i] = "passed"
    BY <1>1, <2>2, <2>4, ResultsTyped, WorstOfPassed DEF IInv
  <2>6. \A i \in 1..stage :
           stageResults[i] = "passed" <=> \A j \in JobsOf[i] : jobResult[j] = "passed"
    BY <1>1, <2>1, StagePassed
  <2>7. (\A i \in 1..stage : stageResults[i] = "passed") => stage = NumStages
    BY <1>1, <2>1, <2>2, NumStagesAssumption DEF IInv, StageInv, EndsTheRun
  <2>8. 1..stage \subseteq 1..NumStages
    BY <2>2, NumStagesAssumption
  <2>9. ASSUME response = "passed"
        PROVE  \A s \in 1..NumStages : \A j \in JobsOf[s] : jobResult[j] = "passed"
    BY <2>5, <2>6, <2>7, <2>9
  <2>10. ASSUME \A s \in 1..NumStages : \A j \in JobsOf[s] : jobResult[j] = "passed"
         PROVE  response = "passed"
    BY <2>5, <2>6, <2>8, <2>10
  <2>11. QED
    BY <2>9, <2>10
<1>2. IInv => PassedMeansEveryJobPassed
  BY <1>1 DEF PassedMeansEveryJobPassed
<1>3. QED
  BY <1>2, Invariant, PTL

-----------------------------------------------------------------------------
(* The event stream.                                                       *)

\* What a job has published, by the call its goroutine makes next.
JobLogInv(j) ==
    /\ jobPc[j] \in {"none", "started"} => At("job.started", j) = {}
    /\ jobPc[j] \notin {"storing", "done"} => At("job.finished", j) = {}
    /\ jobPc[j] \in {"storing", "done"} /\ ~busFaulty =>
          \E i \in DOMAIN log :
             At("job.finished", j) = {i} /\ log[i].status = jobResult[j]

\* What the run itself has published.
RunLogInv ==
    /\ pc = "start" => log = <<>>
    /\ pc # "returned" => At("pipeline.finished", NoJob) = {}
    /\ pc = "returned" /\ ~busFaulty =>
          At("pipeline.finished", NoJob) = {Len(log)} /\ log[Len(log)].status = response

LogInv == (\A j \in Jobs : JobLogInv(j)) /\ RunLogInv /\ StreamNested

\* An event lands at the end of the stream.
Lands(type, job, status) ==
    /\ Len(log') = Len(log) + 1 /\ DOMAIN log' = DOMAIN log \cup {Len(log) + 1}
    /\ \A i \in DOMAIN log : log'[i] = log[i] /\ i < Len(log) + 1 /\ i \in Nat
    /\ Len(log) \in Nat
    /\ log'[Len(log) + 1].status = status
    /\ At(type, job)' = At(type, job) \cup {Len(log) + 1}
    /\ \A t, j : t # type \/ j # job => At(t, j)' = At(t, j)

\* A publication that lands does so at the end; one that does not had a done
\* context or a faulty bus.
LEMMA EmitLands ==
    ASSUME TypeOK, NEW done \in BOOLEAN, NEW type, NEW job, NEW status,
           emit(done, type, job, status)
    PROVE  Lands(type, job, status) \/ (UNCHANGED log /\ (done \/ busFaulty))
<1>1. CASE UNCHANGED log /\ (done \/ busFaulty)
  BY <1>1
<1>2. CASE log' = Append(log, [type |-> type, job |-> job, status |-> status])
  <2> DEFINE e == [type |-> type, job |-> job, status |-> status]
             n == Len(log) + 1
  <2>1. log \in Seq(Event) /\ Len(log) \in Nat /\ DOMAIN log = 1..Len(log)
    BY LogTyped
  <2>2. /\ Len(log') = n /\ DOMAIN log' = DOMAIN log \cup {n}
        /\ \A i \in DOMAIN log : log'[i] = log[i] /\ i < n /\ i \in Nat
        /\ log'[n] = e
    BY <1>2, <2>1
  <2>3. ASSUME NEW t, NEW j, NEW i
        PROVE  i \in At(t, j)' <=> i \in At(t, j) \/ (i = n /\ t = type /\ j = job)
    <3>1. i \in At(t, j)' <=> i \in DOMAIN log' /\ log'[i].type = t /\ log'[i].job = j
      BY DEF At
    <3>2. i \in At(t, j) <=> i \in DOMAIN log /\ log[i].type = t /\ log[i].job = j
      BY DEF At
    <3>3. e.type = type /\ e.job = job
      OBVIOUS
    <3>4. n \notin DOMAIN log
      BY <2>1
    <3> HIDE DEF e, n
    <3>5. QED
      BY <2>2, <3>1, <3>2, <3>3, <3>4
  <2>4. e.status = status
    OBVIOUS
  <2>5. At(type, job)' = At(type, job) \cup {n}
    BY <2>3
  <2>6. ASSUME NEW t, NEW j, t # type \/ j # job PROVE At(t, j)' = At(t, j)
    <3>1. \A i : i \in At(t, j)' <=> i \in At(t, j)
      BY <2>3, <2>6
    <3>2. QED
      BY <3>1
  <2> HIDE DEF e
  <2>7. QED
    BY <2>1, <2>2, <2>4, <2>5, <2>6 DEF Lands
<1>3. QED
  BY <1>1, <1>2 DEF emit

\* Events are in the stream.
LEMMA AtIn == \A t, j : At(t, j) \subseteq DOMAIN log
BY DEF At

\* When the loop is over, every goroutine is.
LEMMA LoopOverMeansQuiet ==
    ASSUME IInv, pc \in {"finish", "returned"}, NEW j \in Jobs
    PROVE  jobPc[j] \in {"none", "done"}
<1>1. SUFFICES ASSUME jobPc[j] # "none" PROVE jobPc[j] = "done"
  OBVIOUS
<1>2. PICK s \in 1..NumStages : j \in JobsOf[s]
  BY <1>1 DEF IInv, SpawnInv
<1>3. ~(s > stage)
  BY <1>1, <1>2 DEF IInv, SpawnInv
<1>4. s \in 1..Closed
  BY <1>3 DEF IInv, TypeOK, Closed
<1>5. QED
  BY <1>2, <1>4, ClosedStage

\* A goroutine at work belongs to the open stage: earlier ones are done, later
\* ones have not begun.
LEMMA AtWork ==
    ASSUME IInv, NEW j \in Jobs, jobPc[j] \notin {"none", "done"}
    PROVE  /\ pc = "spawn" /\ j \in JobsOf[stage]
           /\ \A t \in 1..NumStages : t > stage => \A i \in JobsOf[t] : jobPc[i] = "none"
<1>1. pc \notin {"finish", "returned"}
  BY LoopOverMeansQuiet
<1>2. PICK s \in 1..NumStages : j \in JobsOf[s]
  BY DEF IInv, SpawnInv
<1>3. ~(s > stage) /\ (pc \in {"start", "stage"} => s # stage)
  BY <1>2 DEF IInv, SpawnInv
<1>4. s \notin 1..Closed
  BY <1>2, ClosedStage
<1>5. s = stage /\ pc = "spawn"
  BY <1>1, <1>3, <1>4 DEF IInv, TypeOK, Closed
<1>6. QED
  BY <1>2, <1>5 DEF IInv, SpawnInv

\* A step that publishes nothing.
LEMMA SilentLog ==
    ASSUME IInv, LogInv, UNCHANGED <<log, busFaulty, response>>,
           pc' = "start" => pc = "start", pc' = "returned" <=> pc = "returned",
           \A j \in Jobs :
              /\ jobPc'[j] \in {"none", "started"} => jobPc[j] \in {"none", "started"}
              /\ jobPc'[j] \in {"storing", "done"} <=> jobPc[j] \in {"storing", "done"}
              /\ jobPc[j] \in {"storing", "done"} => jobResult'[j] = jobResult[j]
    PROVE  LogInv'
<1>1. \A t, j : At(t, j)' = At(t, j)
  BY DEF At
<1>2. ASSUME NEW j \in Jobs PROVE JobLogInv(j)'
  BY <1>1 DEF LogInv, JobLogInv
<1>3. RunLogInv'
  BY <1>1 DEF LogInv, RunLogInv
<1>4. StreamNested'
  BY <1>1 DEF LogInv, StreamNested, Precedes
<1>5. QED
  BY <1>2, <1>3, <1>4 DEF LogInv

\* The order of the stream, when a job's event lands.
LEMMA JobLandsNested ==
    ASSUME IInv, LogInv, NEW j \in Jobs, jobPc[j] \notin {"none", "done"},
           NEW type \in {"job.started", "job.finished"}, NEW status, Lands(type, j, status),
           type = "job.started" => At("job.finished", j) = {}
    PROVE  StreamNested'
<1> DEFINE n == Len(log) + 1
<1>0. /\ n \in Nat /\ \A t, i : At(t, i) \subseteq DOMAIN log
      /\ \A i \in DOMAIN log : i < n /\ i \in Nat
      /\ Len(log') = n /\ DOMAIN log' = DOMAIN log \cup {n}
  BY AtIn DEF Lands
<1>1. /\ pc = "spawn" /\ j \in JobsOf[stage] /\ stage \in 1..NumStages
      /\ \A t \in 1..NumStages : t > stage => \A i \in JobsOf[t] : jobPc[i] = "none"
  BY AtWork DEF IInv, TypeOK
<1>2. /\ At(type, j)' = At(type, j) \cup {n}
      /\ \A t, i : t # type \/ i # j => At(t, i)' = At(t, i)
  BY DEF Lands
<1>3. /\ At("pipeline.started", NoJob)' = At("pipeline.started", NoJob)
      /\ At("pipeline.finished", NoJob)' = {}
  BY <1>1, <1>2 DEF LogInv, RunLogInv
<1>4. Precedes(At("pipeline.started", NoJob), DOMAIN log \ {1})
  BY DEF LogInv, StreamNested
<1> HIDE DEF n
<1>5. Precedes(At("pipeline.started", NoJob), DOMAIN log \ {1})'
  BY <1>0, <1>3, <1>4 DEF Precedes
<1>6. Precedes(DOMAIN log \ {Len(log)}, At("pipeline.finished", NoJob))'
  BY <1>3 DEF Precedes
<1>7. ASSUME NEW i \in Jobs PROVE Precedes(At("job.started", i), At("job.finished", i))'
  <2>1. Precedes(At("job.started", i), At("job.finished", i))
    BY DEF LogInv, StreamNested
  <2>2. QED
    BY <1>0, <1>2, <2>1 DEF Precedes
<1>8. ASSUME NEW s \in 1..NumStages, NEW t \in 1..NumStages, s < t,
             NEW i \in JobsOf[s], NEW k \in JobsOf[t]
      PROVE  Precedes(At("job.started", i) \cup At("job.finished", i),
                      At("job.started", k) \cup At("job.finished", k))'
  <2>1. Precedes(At("job.started", i) \cup At("job.finished", i),
                 At("job.started", k) \cup At("job.finished", k))
    BY <1>8 DEF LogInv, StreamNested
  <2>2. i \in Jobs /\ k \in Jobs /\ i # k
    BY <1>8, StageJobs, JobsOfAssumption
  <2>3. CASE j # i
    <3>1. At("job.started", i)' = At("job.started", i) /\ At("job.finished", i)' = At("job.finished", i)
      BY <1>2, <2>3
    <3>2. \A m \in At("job.started", k)' \cup At("job.finished", k)' :
             m = n \/ m \in At("job.started", k) \cup At("job.finished", k)
      BY <1>2
    <3>3. QED
      BY <1>0, <2>1, <3>1, <3>2 DEF Precedes
  <2>4. CASE j = i
    <3>1. s = stage
      BY <1>1, <1>8, <2>4, JobsOfAssumption
    <3>2. jobPc[k] = "none"
      BY <1>1, <1>8, <3>1
    <3>3. At("job.started", k) = {} /\ At("job.finished", k) = {}
      BY <2>2, <3>2 DEF LogInv, JobLogInv
    <3>4. At("job.started", k)' = {} /\ At("job.finished", k)' = {}
      BY <1>2, <2>2, <2>4, <3>3
    <3>5. QED
      BY <3>4 DEF Precedes
  <2>5. QED
    BY <2>3, <2>4
<1>9. QED
  BY <1>5, <1>6, <1>7, <1>8 DEF StreamNested

\* What the jobs have published, when an event of one of them lands.
LEMMA JobLandsLogged ==
    ASSUME IInv, LogInv, NEW j \in Jobs, UNCHANGED <<busFaulty, jobResult>>,
           NEW type \in {"job.started", "job.finished"}, NEW status, Lands(type, j, status),
           \A i \in Jobs \ {j} : jobPc'[i] = jobPc[i]
    PROVE  \A i \in Jobs \ {j} : JobLogInv(i)'
<1>1. /\ \A m \in DOMAIN log : log'[m] = log[m]
      /\ DOMAIN log \subseteq DOMAIN log'
      /\ \A t, i : i # j => At(t, i)' = At(t, i)
  BY DEF Lands
<1>2. ASSUME NEW i \in Jobs \ {j} PROVE JobLogInv(i)'
  <2>1. JobLogInv(i) /\ jobPc'[i] = jobPc[i] /\ jobResult'[i] = jobResult[i]
    BY DEF LogInv
  <2>2. /\ At("job.started", i)' = At("job.started", i)
        /\ At("job.finished", i)' = At("job.finished", i)
    BY <1>1
  <2>3. QED
    BY <1>1, <2>1, <2>2 DEF JobLogInv
<1>3. QED
  BY <1>2

\* The run's own events, when an event of a job lands.
LEMMA JobLandsRun ==
    ASSUME IInv, LogInv, NEW j \in Jobs, jobPc[j] \notin {"none", "done"},
           NEW type \in {"job.started", "job.finished"}, NEW status, Lands(type, j, status),
           UNCHANGED pc
    PROVE  RunLogInv'
<1>1. pc = "spawn"
  BY AtWork
<1>2. At("pipeline.finished", NoJob)' = At("pipeline.finished", NoJob)
  BY DEF Lands
<1>3. QED
  BY <1>1, <1>2 DEF LogInv, RunLogInv

\* The stream is empty at first.
LEMMA InitLog == Init => LogInv
<1> SUFFICES ASSUME Init PROVE LogInv
  OBVIOUS
<1>1. DOMAIN log = {} /\ log = <<>>
  BY DEF Init
<1>2. \A t, j : At(t, j) = {}
  BY <1>1 DEF At
<1>3. \A j \in Jobs : JobLogInv(j)
  BY <1>2 DEF JobLogInv, Init
<1>4. RunLogInv
  BY <1>1, <1>2 DEF RunLogInv, Init
<1>5. StreamNested
  BY <1>2 DEF StreamNested, Precedes
<1>6. QED
  BY <1>3, <1>4, <1>5 DEF LogInv

\* The run's start: the first event, or none.
LEMMA StartLog == IInv /\ LogInv /\ Start => LogInv'
<1> SUFFICES ASSUME IInv, LogInv, Start PROVE LogInv'
  OBVIOUS
<1>1. /\ emit(RunCtxDone, "pipeline.started", NoJob, "unknown")
      /\ pc = "start" /\ pc' = "stage"
      /\ UNCHANGED <<jobPc, jobResult, busFaulty, response>>
  BY DEF Start, jobVars, envVars
<1>2. CASE UNCHANGED log
  <2>1. \A j \in Jobs : jobPc'[j] = jobPc[j] /\ jobResult'[j] = jobResult[j]
    BY <1>1
  <2>2. QED
    BY <1>1, <1>2, <2>1, SilentLog
<1>3. CASE Lands("pipeline.started", NoJob, "unknown")
  <2>1. log = <<>> /\ DOMAIN log = {} /\ Len(log) = 0
    BY <1>1 DEF LogInv, RunLogInv
  <2>2. \A t, j : At(t, j) = {}
    BY <2>1 DEF At
  <2>3. /\ DOMAIN log' = {1} /\ Len(log') = 1
        /\ \A t, j : t # "pipeline.started" => At(t, j)' = {}
    BY <1>3, <2>1, <2>2 DEF Lands
  <2>4. ASSUME NEW j \in Jobs PROVE JobLogInv(j)'
    <3>1. At("job.started", j)' = {} /\ At("job.finished", j)' = {}
      BY <2>3
    <3>2. jobPc[j] = "none"
      <4>1. \A s \in 1..NumStages : j \in JobsOf[s] => s = stage \/ s > stage
        BY <1>1 DEF IInv, StageInv
      <4>2. QED
        BY <1>1, <4>1 DEF IInv, SpawnInv
    <3>3. QED
      BY <1>1, <3>1, <3>2 DEF JobLogInv
  <2>5. RunLogInv'
    BY <1>1, <2>3 DEF RunLogInv
  <2>6. StreamNested'
    <3>1. \A j \in Jobs : At("job.started", j)' = {} /\ At("job.finished", j)' = {}
      BY <2>3
    <3>2. At("pipeline.finished", NoJob)' = {} /\ DOMAIN log' \ {1} = {}
      BY <2>3
    <3>3. \A s \in 1..NumStages : JobsOf[s] \subseteq Jobs
      BY StageJobs
    <3>4. Precedes(At("pipeline.started", NoJob), DOMAIN log \ {1})'
      BY <3>2 DEF Precedes
    <3>5. Precedes(DOMAIN log \ {Len(log)}, At("pipeline.finished", NoJob))'
      BY <3>2 DEF Precedes
    <3>6. \A j \in Jobs : Precedes(At("job.started", j), At("job.finished", j))'
      BY <3>1 DEF Precedes
    <3>7. ASSUME NEW s \in 1..NumStages, NEW t \in 1..NumStages, s < t,
                 NEW i \in JobsOf[s], NEW k \in JobsOf[t]
          PROVE  Precedes(At("job.started", i) \cup At("job.finished", i),
                          At("job.started", k) \cup At("job.finished", k))'
      BY <3>1, <3>3 DEF Precedes
    <3>8. QED
      BY <3>4, <3>5, <3>6, <3>7 DEF StreamNested
  <2>7. QED
    BY <2>4, <2>5, <2>6 DEF LogInv
<1>4. TypeOK /\ RunCtxDone \in BOOLEAN
  BY DEF IInv, RunCtxDone
<1>5. QED
  BY <1>1, <1>2, <1>3, <1>4, EmitLands

\* A job's start and its end, in the open stage.
LEMMA StartJobLog == ASSUME IInv, LogInv, NEW j \in Jobs, StartJob(j) PROVE LogInv'
<1>1. /\ emit(JobCtxDone, "job.started", j, "unknown")
      /\ jobPc[j] = "started" /\ jobPc' = [jobPc EXCEPT ![j] = "calling"]
      /\ UNCHANGED <<pc, jobResult, busFaulty, response>>
  BY DEF StartJob, mainVars, envVars
<1>2. TypeOK /\ JobCtxDone \in BOOLEAN
  BY DEF IInv, JobCtxDone, RunCtxDone, TypeOK
<1>3. jobPc'[j] = "calling" /\ \A i \in Jobs \ {j} : jobPc'[i] = jobPc[i]
  BY <1>1, <1>2 DEF TypeOK
<1>4. CASE UNCHANGED log
  <2>1. \A i \in Jobs : jobResult'[i] = jobResult[i]
    BY <1>1
  <2>2. QED
    BY <1>1, <1>3, <1>4, <2>1, SilentLog
<1>5. CASE Lands("job.started", j, "unknown")
  <2>1. At("job.finished", j) = {}
    BY <1>1 DEF LogInv, JobLogInv
  <2>2. StreamNested'
    BY <1>1, <1>5, <2>1, JobLandsNested
  <2>3. RunLogInv'
    BY <1>1, <1>5, JobLandsRun
  <2>4. \A i \in Jobs \ {j} : JobLogInv(i)'
    BY <1>1, <1>3, <1>5, JobLandsLogged
  <2>5. At("job.finished", j)' = At("job.finished", j)
    BY <1>5 DEF Lands
  <2>6. JobLogInv(j)'
    BY <1>3, <2>1, <2>5 DEF JobLogInv
  <2>7. QED
    BY <2>2, <2>3, <2>4, <2>6 DEF LogInv
<1>6. QED
  BY <1>1, <1>2, <1>4, <1>5, EmitLands

LEMMA FinishJobLog == ASSUME IInv, LogInv, NEW j \in Jobs, FinishJob(j) PROVE LogInv'
<1>1. /\ emit(FALSE, "job.finished", j, jobResult[j])
      /\ jobPc[j] = "reporting" /\ jobPc' = [jobPc EXCEPT ![j] = "storing"]
      /\ UNCHANGED <<pc, jobResult, busFaulty, response>>
  BY DEF FinishJob, DetachedCtxDone, mainVars, envVars
<1>2. TypeOK
  BY DEF IInv
<1>3. jobPc'[j] = "storing" /\ \A i \in Jobs \ {j} : jobPc'[i] = jobPc[i]
  BY <1>1, <1>2 DEF TypeOK
<1>4. At("job.finished", j) = {}
  BY <1>1 DEF LogInv, JobLogInv
<1>5. CASE UNCHANGED log /\ busFaulty
  <2>1. \A t, i : At(t, i)' = At(t, i)
    BY <1>5 DEF At
  <2>2. \A i \in Jobs \ {j} : JobLogInv(i)'
    BY <1>1, <1>3, <1>5, <2>1 DEF LogInv, JobLogInv
  <2>3. JobLogInv(j)'
    BY <1>1, <1>3, <1>5 DEF JobLogInv
  <2>4. RunLogInv'
    BY <1>1, <1>5, <2>1 DEF LogInv, RunLogInv
  <2>5. StreamNested'
    BY <1>5, <2>1 DEF LogInv, StreamNested, Precedes
  <2>6. QED
    BY <2>2, <2>3, <2>4, <2>5 DEF LogInv
<1>6. CASE Lands("job.finished", j, jobResult[j])
  <2>1. StreamNested'
    BY <1>1, <1>6, JobLandsNested
  <2>2. RunLogInv'
    BY <1>1, <1>6, JobLandsRun
  <2>3. \A i \in Jobs \ {j} : JobLogInv(i)'
    BY <1>1, <1>3, <1>6, JobLandsLogged
  <2>4. /\ At("job.finished", j)' = {Len(log) + 1} /\ Len(log) + 1 \in DOMAIN log'
        /\ log'[Len(log) + 1].status = jobResult'[j]
    BY <1>1, <1>4, <1>6 DEF Lands
  <2>5. JobLogInv(j)'
    BY <1>3, <2>4 DEF JobLogInv
  <2>6. QED
    BY <2>1, <2>2, <2>3, <2>5 DEF LogInv
<1>7. QED
  BY <1>1, <1>2, <1>5, <1>6, EmitLands

\* The run's end: the last event.
LEMMA FinishLog == IInv /\ LogInv /\ Finish => LogInv'
<1> SUFFICES ASSUME IInv, LogInv, Finish PROVE LogInv'
  OBVIOUS
<1> DEFINE r == ResultStatus
<1>1. /\ emit(FALSE, "pipeline.finished", NoJob, r)
      /\ pc = "finish" /\ pc' = "returned" /\ response' = r
      /\ UNCHANGED <<jobPc, jobResult, busFaulty>>
  BY DEF Finish, DetachedCtxDone, jobVars, envVars
<1> HIDE DEF r
<1>2. At("pipeline.finished", NoJob) = {}
  BY <1>1 DEF LogInv, RunLogInv
<1>3. CASE UNCHANGED log /\ busFaulty
  <2>1. \A t, i : At(t, i)' = At(t, i)
    BY <1>3 DEF At
  <2>2. \A i \in Jobs : JobLogInv(i)'
    BY <1>1, <1>3, <2>1 DEF LogInv, JobLogInv
  <2>3. RunLogInv'
    BY <1>1, <1>3 DEF RunLogInv
  <2>4. StreamNested'
    BY <1>3, <2>1 DEF LogInv, StreamNested, Precedes
  <2>5. QED
    BY <2>2, <2>3, <2>4 DEF LogInv
<1>4. CASE Lands("pipeline.finished", NoJob, r)
  <2> DEFINE n == Len(log) + 1
  <2>1. /\ n \in Nat /\ \A t, i : At(t, i) \subseteq DOMAIN log
        /\ \A i \in DOMAIN log : log'[i] = log[i] /\ i < n /\ i \in Nat
        /\ Len(log') = n /\ DOMAIN log' = DOMAIN log \cup {n}
        /\ log'[n].status = r
        /\ At("pipeline.finished", NoJob)' = {n}
        /\ \A t, i : t # "pipeline.finished" => At(t, i)' = At(t, i)
    BY <1>2, <1>4, AtIn DEF Lands
  <2> HIDE DEF n
  <2>2. \A i \in Jobs : /\ At("job.started", i)' = At("job.started", i)
                        /\ At("job.finished", i)' = At("job.finished", i)
    BY <2>1
  <2>3. ASSUME NEW i \in Jobs PROVE JobLogInv(i)'
    <3>1. JobLogInv(i) /\ jobPc'[i] = jobPc[i] /\ jobResult'[i] = jobResult[i]
      BY <1>1 DEF LogInv
    <3>2. QED
      BY <1>1, <2>1, <2>2, <3>1 DEF JobLogInv
  <2>4. RunLogInv'
    BY <1>1, <2>1 DEF RunLogInv
  <2>5. At("pipeline.started", NoJob)' = At("pipeline.started", NoJob)
    BY <2>1
  <2>6. Precedes(At("pipeline.started", NoJob), DOMAIN log \ {1})'
    <3>1. Precedes(At("pipeline.started", NoJob), DOMAIN log \ {1})
      BY DEF LogInv, StreamNested
    <3>2. QED
      BY <2>1, <2>5, <3>1 DEF Precedes
  <2>7. Precedes(DOMAIN log \ {Len(log)}, At("pipeline.finished", NoJob))'
    BY <2>1 DEF Precedes
  <2>8. \A i \in Jobs : Precedes(At("job.started", i), At("job.finished", i))'
    BY <2>2 DEF LogInv, StreamNested, Precedes
  <2>9. ASSUME NEW s \in 1..NumStages, NEW t \in 1..NumStages, s < t,
               NEW i \in JobsOf[s], NEW k \in JobsOf[t]
        PROVE  Precedes(At("job.started", i) \cup At("job.finished", i),
                        At("job.started", k) \cup At("job.finished", k))'
    <3>1. i \in Jobs /\ k \in Jobs
      BY StageJobs
    <3>2. Precedes(At("job.started", i) \cup At("job.finished", i),
                   At("job.started", k) \cup At("job.finished", k))
      BY <2>9 DEF LogInv, StreamNested
    <3>3. QED
      BY <2>2, <3>1, <3>2 DEF Precedes
  <2>10. StreamNested'
    BY <2>6, <2>7, <2>8, <2>9 DEF StreamNested
  <2>11. QED
    BY <2>3, <2>4, <2>10 DEF LogInv
<1>5. TypeOK
  BY DEF IInv
<1>6. QED
  BY <1>1, <1>3, <1>4, <1>5, EmitLands

\* The steps of a goroutine that publish nothing.
LEMMA JobSilentLog ==
    ASSUME IInv, LogInv, NEW j \in Jobs,
           CallRunner(j) \/ RunnerReturns(j) \/ StoreResult(j) \/ Spawn(j)
    PROVE  LogInv'
<1>0. /\ UNCHANGED <<log, busFaulty, response, pc>>
      /\ jobPc \in [Jobs -> JobLabels] /\ jobResult \in [Jobs -> {"none"} \cup Verdicts]
  BY DEF CallRunner, RunnerReturns, StoreResult, Spawn, mainVars, envVars, IInv, TypeOK
<1>1. CASE CallRunner(j)
  BY <1>0, <1>1, SilentLog DEF CallRunner
<1>2. CASE RunnerReturns(j)
  BY <1>0, <1>2, SilentLog DEF RunnerReturns
<1>3. CASE StoreResult(j)
  BY <1>0, <1>3, SilentLog DEF StoreResult
<1>4. CASE Spawn(j)
  <2>1. jobPc[j] = "none"
    BY <1>4 DEF Spawn, IInv, SpawnInv
  <2>2. QED
    BY <1>0, <1>4, <2>1, SilentLog DEF Spawn, jobVars
<1>5. QED
  BY <1>1, <1>2, <1>3, <1>4

\* Every step keeps the stream's invariant.
LEMMA LogStep == IInv /\ LogInv /\ [Next]_vars => LogInv'
<1> SUFFICES ASSUME IInv, LogInv, [Next]_vars PROVE LogInv'
  OBVIOUS
<1>1. CASE UNCHANGED vars
  BY <1>1, SilentLog DEF vars, envVars, mainVars, jobVars
<1>2. CASE Cancel
  BY <1>2, SilentLog DEF Cancel, mainVars, jobVars
<1>3. CASE OpenStage \/ CloseStage
  BY <1>3, SilentLog DEF OpenStage, CloseStage, envVars, mainVars, jobVars
<1>4. CASE MainStep
  BY <1>3, <1>4, StartLog, FinishLog, JobSilentLog DEF MainStep
<1>5. ASSUME NEW j \in Jobs, JobStep(j) \/ RunnerReturns(j) PROVE LogInv'
  BY <1>5, StartJobLog, FinishJobLog, JobSilentLog DEF JobStep
<1>6. QED
  BY <1>1, <1>2, <1>4, <1>5 DEF Next, Done

\* The stream's invariant holds of every run.
LEMMA LogInvariant == Spec => []LogInv
<1>1. QED
  BY Invariant, InitLog, LogStep, PTL DEF Spec

(***************************************************************************)
(* Whatever was lost, what landed is in order (orchestrator.go:101, 142).  *)
(***************************************************************************)
THEOREM StreamNestedHolds == Spec => []StreamNested
<1>1. LogInv => StreamNested
  BY DEF LogInv
<1>2. QED
  BY <1>1, LogInvariant, PTL

(***************************************************************************)
(* With the bus up the stream records every end, cancelled or not          *)
(* (orchestrator.go:112-121, 144-153).                                     *)
(***************************************************************************)
THEOREM EveryEndRecordedHolds == Spec => []EveryEndRecorded
<1>1. ASSUME IInv, LogInv, response # "none", ~busFaulty
      PROVE  /\ \A j \in Jobs :
                    IF jobPc[j] = "none" THEN At("job.finished", j) = {}
                    ELSE \E i \in DOMAIN log :
                            At("job.finished", j) = {i} /\ log[i].status = slot[j]
             /\ At("pipeline.finished", NoJob) = {Len(log)}
             /\ log[Len(log)].status = response
  <2>1. pc = "returned"
    BY <1>1 DEF IInv, StageInv
  <2>2. \A j \in Jobs : jobPc[j] \in {"none", "done"} /\ JobLogInv(j)
    BY <1>1, <2>1, LoopOverMeansQuiet DEF LogInv
  <2>3. \A j \in Jobs : jobPc[j] = "done" => slot[j] = jobResult[j]
    BY <1>1 DEF IInv, JobInv
  <2>4. QED
    BY <1>1, <2>1, <2>2, <2>3 DEF LogInv, RunLogInv, JobLogInv
<1>2. IInv /\ LogInv => EveryEndRecorded
  BY <1>1 DEF EveryEndRecorded
<1>3. QED
  BY <1>2, Invariant, LogInvariant, PTL

-----------------------------------------------------------------------------
(* The refinement of StagedRun.                                            *)

\* The refinement mapping, by name.
Begun == {j \in Jobs : jobPc[j] # "none"}
Verdict == [j \in Jobs |-> IF jobPc[j] = "done" THEN slot[j] ELSE "none"]

\* The mapped stages before the loop's are over, and none was bad.
LEMMA MappedStageOpen ==
    ASSUME IInv
    PROVE  /\ Promise!StageOpen(stage)
           /\ pc \in {"finish", "returned"} =>
                 /\ Promise!StageDone(stage)
                 /\ stage = NumStages \/ Promise!StageBad(stage)
<1>1. stage \in 1..NumStages
  BY DEF IInv, TypeOK
<1>2. \A s \in 1..Closed : \A j \in JobsOf[s] :
         j \in Jobs /\ Verdict[j] = slot[j] /\ slot[j] \in Verdicts
  BY ClosedStage, StageJobs DEF Verdict
<1>3. ASSUME NEW s \in 1..Closed
      PROVE  EndsTheRun(stageResults[s]) <=> \E j \in JobsOf[s] : EndsTheRun(Verdict[j])
  <2>1. s \in 1..NumStages /\ stageResults[s] = WorstOf({slot[j] : j \in JobsOf[s]})
    BY ClosedStage
  <2>2. EndsTheRun(stageResults[s]) <=>
           \E v \in {slot[j] : j \in JobsOf[s]} : EndsTheRun(v)
    BY <2>1, SlotsTyped, WorstOfBad DEF IInv
  <2>3. QED
    BY <1>2, <2>2
<1>4. ASSUME NEW s \in 1..Closed
      PROVE  /\ Promise!StageDone(s)
             /\ Promise!StageBad(s) <=> EndsTheRun(stageResults[s])
  <2>1. Promise!StageDone(s)
    BY <1>2 DEF Promise!StageDone, Verdict, Verdicts
  <2>2. Promise!StageBad(s) <=> \E j \in JobsOf[s] : EndsTheRun(Verdict[j])
    BY DEF Promise!StageBad, Promise!EndsTheRun, EndsTheRun, Verdict
  <2>3. QED
    BY <1>3, <2>1, <2>2
<1>5. 1..(stage - 1) \subseteq 1..Closed
  BY <1>1 DEF Closed
<1>6. Promise!StageOpen(stage)
  BY <1>4, <1>5 DEF Promise!StageOpen, IInv, StageInv
<1>7. pc \in {"finish", "returned"} =>
         Promise!StageDone(stage) /\ (stage = NumStages \/ Promise!StageBad(stage))
  <2>1. pc \in {"finish", "returned"} => stage \in 1..Closed
    BY <1>1 DEF Closed
  <2>2. QED
    BY <1>4, <2>1 DEF IInv, StageInv
<1>8. QED
  BY <1>6, <1>7

\* The worst of the stages is the worst of the jobs that have begun.
LEMMA WorstOfAll ==
    ASSUME IInv, pc = "finish"
    PROVE  ResultStatus = WorstOf({Verdict[j] : j \in Begun})
<1> DEFINE P == {stageResults[i] : i \in DOMAIN stageResults}
           V == {Verdict[j] : j \in Begun}
<1>1. Closed = stage /\ stage \in 1..NumStages /\ DOMAIN stageResults = 1..stage
  BY DEF IInv, StageInv, TypeOK, Closed
<1>2. P \in SUBSET Statuses /\ P # {}
  <2>1. 1 \in DOMAIN stageResults
    BY <1>1, NumStagesAssumption
  <2>2. P # {}
    BY <2>1
  <2>3. P \in SUBSET Statuses
    BY ResultsTyped DEF IInv
  <2>4. QED
    BY <2>2, <2>3
<1>3. ResultStatus = WorstOf(P)
  BY <1>2 DEF ResultStatus, AggregateStatus
<1>4. \A s \in 1..stage : \A j \in JobsOf[s] :
         j \in Begun /\ Verdict[j] = slot[j] /\ slot[j] \in Verdicts
  BY <1>1, ClosedStage, StageJobs DEF Verdict, Begun
<1>5. \A j \in Begun : \E s \in 1..stage : j \in JobsOf[s]
  <2>1. TAKE j \in Begun
  <2>2. PICK s \in 1..NumStages : j \in JobsOf[s]
    BY DEF Begun, IInv, SpawnInv
  <2>3. ~(s > stage)
    BY <2>2 DEF Begun, IInv, SpawnInv
  <2>4. QED
    BY <1>1, <2>2, <2>3
<1>6. V \in SUBSET Statuses
  BY <1>4, <1>5 DEF Verdicts, Statuses
<1>7. ResultStatus \in V \cup {"passed"}
  <2>1. CASE ResultStatus = "passed"
    BY <2>1
  <2>2. CASE ResultStatus # "passed"
    <3>1. PICK i \in 1..stage : ResultStatus = stageResults[i]
      BY <1>1, <1>2, <1>3, <2>2, WorstOfIsWorst
    <3>2. stageResults[i] \in {slot[j] : j \in JobsOf[i]} \cup {"passed"}
      BY <1>1, ClosedStage, SlotsTyped, WorstOfIsWorst DEF IInv
    <3>3. PICK j \in JobsOf[i] : ResultStatus = slot[j]
      BY <2>2, <3>1, <3>2
    <3>4. QED
      BY <1>4, <3>3
  <2>3. QED
    BY <2>1, <2>2
<1>8. \A v \in V : statusRank(v) <= statusRank(ResultStatus)
  <2>1. SUFFICES ASSUME NEW j \in Begun
                 PROVE  statusRank(Verdict[j]) <= statusRank(ResultStatus)
    OBVIOUS
  <2>2. PICK s \in 1..stage : j \in JobsOf[s]
    BY <1>5
  <2>3. Verdict[j] = slot[j] /\ slot[j] \in Statuses
    BY <1>4, <2>2 DEF Verdicts, Statuses
  <2>4. statusRank(slot[j]) <= statusRank(stageResults[s])
    BY <1>1, <2>2, ClosedStage, SlotsTyped, WorstOfIsWorst DEF IInv
  <2>5. stageResults[s] \in P
    BY <1>1
  <2>6. statusRank(stageResults[s]) <= statusRank(ResultStatus)
    BY <1>2, <1>3, <2>5, WorstOfIsWorst
  <2>7. stageResults[s] \in Statuses /\ ResultStatus \in Statuses
    BY <1>2, <2>5, ResultsTyped DEF IInv
  <2>8. QED
    BY <2>3, <2>4, <2>6, <2>7, RankNat
<1>9. statusRank("passed") <= statusRank(ResultStatus)
  BY <1>2, <1>3, WorstOfIsWorst
<1>10. \A v \in V \cup {"passed"} : statusRank(v) <= statusRank(ResultStatus)
  BY <1>8, <1>9
<1>11. QED
  BY <1>6, <1>7, <1>10, WorstOfUnique

\* A goroutine that starts is a job that begins.
LEMMA SpawnBegins ==
    ASSUME IInv, NEW j \in Jobs, Spawn(j)
    PROVE  Promise!BeginJob
<1>1. stage \in 1..NumStages /\ j \in JobsOf[stage] /\ j \notin Begun
  BY DEF IInv, TypeOK, SpawnInv, Spawn, Begun
<1>2. Begun' = Begun \cup {j}
  BY <1>1 DEF IInv, TypeOK, Spawn, Begun
<1>3. Verdict' = Verdict
  <2>1. \A i \in Jobs : jobPc'[i] = "done" <=> jobPc[i] = "done"
    BY <1>1 DEF IInv, TypeOK, Spawn, Begun
  <2>2. QED
    BY <2>1 DEF Verdict, Spawn
<1>4. response = "none" /\ response' = response
  BY DEF IInv, StageInv, Spawn
<1>5. Promise!StageOpen(stage)
  BY MappedStageOpen
<1>6. QED
  BY <1>1, <1>2, <1>3, <1>4, <1>5 DEF Promise!BeginJob, Begun, Verdict

\* A result that is stored is a job that ends.
LEMMA StoreEnds ==
    ASSUME IInv, NEW j \in Jobs, StoreResult(j)
    PROVE  Promise!EndJob
<1>1. jobPc[j] = "storing" /\ jobResult[j] \in Verdicts
  BY DEF IInv, JobInv, StoreResult
<1>2. jobPc' = [jobPc EXCEPT ![j] = "done"] /\ slot' = [slot EXCEPT ![j] = jobResult[j]]
  BY DEF StoreResult, SlotOf
<1>3. j \in Begun /\ Verdict[j] = "none"
  BY <1>1 DEF Begun, Verdict
<1>4. Begun' = Begun
  BY <1>1, <1>2 DEF IInv, TypeOK, Begun
<1>5. Verdict' = [Verdict EXCEPT ![j] = jobResult[j]]
  BY <1>2 DEF IInv, TypeOK, Verdict
<1>6. response' = response
  BY DEF StoreResult, mainVars
<1>7. QED
  BY <1>1, <1>3, <1>4, <1>5, <1>6 DEF Promise!EndJob, Promise!Verdicts, Verdicts, Begun, Verdict

\* The response is the run's end.
LEMMA FinishEnds ==
    ASSUME IInv, Finish
    PROVE  Promise!EndRun
<1>1. stage \in 1..NumStages /\ pc = "finish" /\ response = "none"
  BY DEF IInv, TypeOK, StageInv, Finish
<1>2. /\ Promise!StageOpen(stage) /\ Promise!StageDone(stage)
      /\ stage = NumStages \/ Promise!StageBad(stage)
  BY <1>1, MappedStageOpen
<1>3. response' = Promise!WorstOf({Verdict[j] : j \in Begun})
  BY <1>1, WorstOfAll DEF Finish, Promise!WorstOf, WorstOf, Promise!statusRank, statusRank
<1>4. Begun' = Begun /\ Verdict' = Verdict
  BY DEF Finish, jobVars, Begun, Verdict
<1>5. QED
  BY <1>1, <1>2, <1>3, <1>4 DEF Promise!EndRun, Begun, Verdict

(***************************************************************************)
(* Every step of the orchestrator is a step of StagedRun or none at all:   *)
(* stages in order, no stage after a bad one, every job to its own verdict *)
(* and the worst of them for the run (orchestrator.go:88-175).  That it    *)
(* also makes progress is checked by TLC only.                             *)
(***************************************************************************)
THEOREM RefinesStagedRun == Spec => Promise!Init /\ [][Promise!Next]_(Promise!vars)
<1>1. Init => Promise!Init
  BY DEF Init, Promise!Init
<1>2. IInv /\ [Next]_vars => [Promise!Next]_(Promise!vars)
  <2> SUFFICES ASSUME IInv, [Next]_vars PROVE [Promise!Next]_(Promise!vars)
    OBVIOUS
  <2>1. ASSUME Begun' = Begun, Verdict' = Verdict, response' = response
        PROVE  UNCHANGED Promise!vars
    BY <2>1 DEF Promise!vars, Begun, Verdict
  <2>2. CASE UNCHANGED vars
    BY <2>1, <2>2 DEF vars, mainVars, jobVars, Begun, Verdict
  <2>3. CASE Cancel \/ Start \/ OpenStage \/ CloseStage
    BY <2>1, <2>3 DEF Cancel, Start, OpenStage, CloseStage, mainVars, jobVars, Begun, Verdict
  <2>4. CASE Finish
    BY <2>4, FinishEnds DEF Promise!Next
  <2>5. ASSUME NEW j \in Jobs, Spawn(j) PROVE Promise!Next
    BY <2>5, SpawnBegins DEF Promise!Next
  <2>6. ASSUME NEW j \in Jobs,
               StartJob(j) \/ CallRunner(j) \/ RunnerReturns(j) \/ FinishJob(j)
        PROVE  UNCHANGED Promise!vars
    <3>1. \A i \in Jobs : /\ jobPc'[i] = "none" <=> jobPc[i] = "none"
                          /\ jobPc'[i] = "done" <=> jobPc[i] = "done"
      BY <2>6 DEF IInv, TypeOK, StartJob, CallRunner, RunnerReturns, FinishJob
    <3>2. slot' = slot /\ response' = response
      BY <2>6 DEF StartJob, CallRunner, RunnerReturns, FinishJob, mainVars
    <3>3. Begun' = Begun /\ Verdict' = Verdict
      BY <3>1, <3>2 DEF Begun, Verdict
    <3>4. QED
      BY <2>1, <3>2, <3>3
  <2>7. ASSUME NEW j \in Jobs, StoreResult(j) PROVE Promise!Next
    BY <2>7, StoreEnds DEF Promise!Next
  <2>8. QED
    BY <2>2, <2>3, <2>4, <2>5, <2>6, <2>7 DEF Next, MainStep, JobStep, Done
<1>3. QED
  BY <1>1, <1>2, Invariant, PTL DEF Spec
=============================================================================
