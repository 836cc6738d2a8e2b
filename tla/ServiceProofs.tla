---------------------------- MODULE ServiceProofs ----------------------------
(***************************************************************************)
(* The server process, for any number of runs, jobs and steps, any stream  *)
(* and any amount of trouble: its recorder is a consumer and keeps what    *)
(* the consumer promises, the tables follow the runs, and a final row      *)
(* stays.                                                                  *)
(***************************************************************************)
EXTENDS Service, ConsumerProofs, StatusLemmas

-----------------------------------------------------------------------------
(* The recorder is a consumer.                                             *)

\* The process's one instance is the recorder.
LEMMA RecorderIn == recorder \in Instances /\ \A i \in Instances : i = recorder
BY ServiceAssumption

\* A step that shows in no variable of the consumer but in the trouble.
LEMMA ElsewhereIsStep ==
    ASSUME TypeOK, trouble' \in 0..MaxTrouble,
           UNCHANGED <<streamVars, groupVars, dead, pc, localVars, historyVars, interrupted>>,
           ctxDone' \in [Instances -> BOOLEAN]
    PROVE  Step
BY DEF Step, Signals

\* What a run does to the consumer is at most to publish.
LEMMA EmitIsStep ==
    ASSUME TypeOK, NEW e, emit(e)
    PROVE  Step
<1>1. CASE Land(e)
  <2>1. Publish
    BY <1>1 DEF Land
  <2>2. QED
    BY <2>1, NextIsStep DEF Next
<1>2. CASE Lose(e)
  <2>1. trouble' \in 0..MaxTrouble
    BY <1>2, TroubleTyped DEF Lose
  <2>2. QED
    BY <1>2, <2>1, ElsewhereIsStep DEF Lose, TypeOK
<1>3. QED
  BY <1>1, <1>2 DEF emit

\* Every step of the process is a step of the consumer, or hidden from it.
LEMMA ServiceIsStep ==
    ASSUME TypeOK, [ServiceNext]_allVars
    PROVE  Step
<1> USE TroubleTyped, RecorderIn
<1>1. CASE UNCHANGED vars
  BY <1>1, NextIsStep
<1>2. ASSUME NEW r \in Runs, RunSteps(r) PROVE Step
  <2>1. CASE Cancel(r)
    BY <2>1, ElsewhereIsStep DEF Cancel, TypeOK
  <2>2. CASE \E e : emit(e)
    BY <2>2, EmitIsStep
  <2>3. QED
    BY <1>2, <2>1, <2>2
       DEF RunSteps, PipelineStarted, PipelineFinished, JobStarted, JobFinished, StepStarted,
           StepFinished, emitInJob
<1>3. ASSUME NEW e \in ForeignEvents, Foreign(e) PROVE Step
  <2>1. trimmed' \in trimmed..added
    BY <1>3, Numbers DEF Foreign
  <2>2. Grows /\ trouble' \in 0..MaxTrouble
    BY <1>3, <2>1 DEF Foreign, Grows
  <2>3. QED
    BY <2>2 DEF Step
<1>4. CASE RecorderStep
  <2>1. CASE consume
    <3>1. CASE ensureGroup(recorder) \/ loopHead(recorder) \/ backoff(recorder)
               \/ parseFails(recorder)
      <4>1. trouble' \in 0..MaxTrouble
        BY <3>1 DEF ensureGroup, loopHead, backoff, parseFails
      <4>2. QED
        BY <3>1, <4>1 DEF Step, Moves, OnCurrent
    <3>2. CASE readNew(recorder) \/ recoverStuck(recorder)
      <4>1. trouble' \in 0..MaxTrouble
        BY <3>2 DEF readNew, recoverStuck
      <4>2. QED
        BY <3>2, <4>1 DEF Step
    <3>3. CASE recoverOne(recorder) \/ acknowledge(recorder) \/ deadLetter(recorder)
               \/ deadLetterEntry(recorder)
      <4>1. trouble' \in 0..MaxTrouble
        BY <3>3 DEF recoverOne, acknowledge, deadLetter, deadLetterEntry
      <4>2. QED
        BY <3>3, <4>1 DEF Step, OnCurrent
    <3>4. QED
      BY <2>1, <3>1, <3>2, <3>3 DEF consume
  <2>2. CASE record
    <3>1. \E ok \in BOOLEAN : handlerReturns(recorder, ok)
      BY <2>2 DEF record
    <3>2. trouble' \in 0..MaxTrouble
      BY <2>2 DEF record
    <3>3. QED
      BY <3>1, <3>2 DEF Step, OnCurrent
  <2>3. QED
    BY <1>4, <2>1, <2>2 DEF RecorderStep
<1>5. ASSUME NEW e \in Entries, Idle(e) PROVE Step
  BY <1>5 DEF Idle, Step, Idles, TypeOK
<1>6. CASE Notify
  BY <1>6, <1>1 DEF Notify
<1>7. CASE Terminate
  <2>1. trouble' \in 0..MaxTrouble
    BY <1>7 DEF Terminate
  <2>2. QED
    BY <1>7, <2>1, ElsewhereIsStep DEF Terminate, TypeOK
<1>8. CASE Exit \/ ProcessCrash
  <2>1. trouble' \in 0..MaxTrouble /\ Die(recorder)
    BY <1>8 DEF Exit, ProcessCrash, ProcessEnds
  <2>2. QED
    BY <2>1 DEF Step
<1>9. CASE Start
  <2>1. Restart(recorder) /\ trouble' \in 0..MaxTrouble
    BY <1>9 DEF Start, Restart
  <2>2. QED
    BY <2>1 DEF Step, Moves
<1>10. QED
  BY <1>1, <1>2, <1>3, <1>4, <1>5, <1>6, <1>7, <1>8, <1>9 DEF ServiceNext, allVars

\* So the consumer's invariant holds of the recorder.
LEMMA RecorderInvariant == ServiceSpec => []IInv
<1>1. ServiceInit => IInv
  BY InitHolds DEF ServiceInit
<1>2. IInv /\ [ServiceNext]_allVars => IInv'
  BY ServiceIsStep, StepKeeps DEF IInv
<1>3. QED
  BY <1>1, <1>2, PTL DEF ServiceSpec

(***************************************************************************)
(* The recorder keeps the consumer's promise within the process: however   *)
(* the process ends, drains or starts, an event is closed only when Record *)
(* has accepted it, or it is dead-lettered or trimmed (main.go:81-86).     *)
(***************************************************************************)
THEOREM RecorderKeepsThePromise == ServiceSpec => ImplementsAtLeastOnce
<1>1. ServiceInit => Promise!Init
  BY InitPromised DEF ServiceInit
<1>2. IInv /\ [ServiceNext]_allVars => [Promise!Next]_promiseVars
  BY ServiceIsStep, StepPromised DEF IInv
<1>3. QED
  BY <1>1, <1>2, RecorderInvariant, PTL DEF ServiceSpec, ImplementsAtLeastOnce, Promise!Spec, promiseVars

-----------------------------------------------------------------------------
(* The invariant of the runs, the stream and the tables.                   *)

\* A job's last event is its own, and its end has a status.
LastInv ==
    \A r \in Runs, j \in Jobs : Job(r, j) # None =>
        /\ Job(r, j) \in Events /\ Job(r, j).run = r /\ Job(r, j).job = j
        /\ Job(r, j).type \in {"job.started", "step.started", "step.finished", "job.finished"}
        /\ Job(r, j).type \in {"step.started", "step.finished"} => begun[<<r, j>>] # 0
        /\ Job(r, j).type = "job.finished" => Job(r, j).status \in Ended

\* What an event reports has happened.
Reported(e) ==
    /\ e.type = "pipeline.finished" =>
          e.run \in Runs /\ rpc[e.run] = "over" /\ e.status = RunVerdict(e.run) /\ e.status \in Ended
    /\ e.type = "job.finished" =>
          e.run \in Runs /\ e.job \in Jobs /\ Over(e.run, e.job)
          /\ e.status = Job(e.run, e.job).status /\ e.status \in Ended
    /\ e.type = "step.finished" =>
          e.run \in Runs /\ e.job \in Jobs /\ e.status \in Ended
          /\ [step |-> e.step, status |-> e.status] \in results[<<e.run, e.job>>]

StreamInv ==
    \A e \in Events \cup ForeignEvents :
        (\E n \in 1..added : stream[n] = e) => e \in ForeignEvents \/ Reported(e)

RunTypeOK ==
    /\ stream \in Seq(Events \cup ForeignEvents) /\ Len(stream) = added
    /\ rpc \in [Runs -> {"new", "running", "over"}]
    /\ cancelled \subseteq Runs
    /\ last \in [JobKeys -> Events \cup {None}]
    /\ begun \in [JobKeys -> Nat] /\ \A k \in JobKeys : begun[k] <= Len(StepsOf[k[2]])
    /\ results \in [JobKeys -> SUBSET [step : Steps, status : Ended]]

TableTypeOK ==
    /\ runs \in [Runs -> RowStatuses]
    /\ jobs \in [JobKeys -> RowStatuses]
    /\ steps \in [StepKeys -> RowStatuses]

ProcessOK ==
    /\ process \in {"down", "startup", "serving", "draining"}
    /\ process = "down" <=> pc[recorder] = "down"

SInv ==
    IInv /\ RunTypeOK /\ TableTypeOK /\ ProcessOK /\ LastInv /\ StreamInv /\ TablesFollowRuns

-----------------------------------------------------------------------------
(* The runs.                                                               *)

\* The keys of a run's jobs are all different.
LEMMA LastAt ==
    ASSUME RunTypeOK, NEW r \in Runs, NEW j \in Jobs, NEW e,
           last' = [last EXCEPT ![<<r, j>>] = e]
    PROVE  /\ Job(r, j)' = e
           /\ \A q \in Runs, i \in Jobs : q # r \/ i # j => Job(q, i)' = Job(q, i)
BY DEF RunTypeOK, Job, JobKeys

\* The events of a job.
JobStep(r, j) ==
    \/ JobStarted(r, j) \/ JobFinished(r, j)
    \/ StepStarted(r, j)
    \/ \E status \in Ended : StepFinished(r, j, status)

\* An event of a run is one of its events.
LEMMA EventIn ==
    ASSUME NEW type \in EventTypes, NEW r \in Runs, NEW j \in Jobs \cup {None},
           NEW s \in Steps \cup {None}, NEW status \in Ended \cup {None}
    PROVE  /\ Event(type, r, j, s, status) \in Events
           /\ Event(type, r, j, s, status).type = type /\ Event(type, r, j, s, status).run = r
           /\ Event(type, r, j, s, status).job = j /\ Event(type, r, j, s, status).step = s
           /\ Event(type, r, j, s, status).status = status
           /\ Event(type, r, j, s, status).numbers
BY DEF Event, Events, Ended, Statuses

\* What fits a job as its next event.
Fits(r, j, e) ==
    /\ e \in Events /\ e.run = r /\ e.job = j /\ e.numbers
    /\ e.type \in {"job.started", "step.started", "step.finished", "job.finished"}
    /\ e.type \in {"job.started", "job.finished"} => e.step = None
    /\ e.type \in {"step.started", "step.finished"} => e.step \in Steps
    /\ e.type \in {"step.finished", "job.finished"} => e.status \in Ended

\* What an event starts had not begun; two steps may share a name.
Fresh(e) ==
    /\ e.type = "pipeline.started" => rpc[e.run] = "new"
    /\ e.type = "job.started" => Job(e.run, e.job) = None

\* A job's steps and results after its event e.
Logs(r, j, e) ==
    /\ begun' \in [JobKeys -> Nat] /\ \A k \in JobKeys : begun'[k] <= Len(StepsOf[k[2]])
    /\ results' \in [JobKeys -> SUBSET [step : Steps, status : Ended]]
    /\ \A k \in JobKeys : results[k] \subseteq results'[k] /\ (begun[k] # 0 => begun'[k] # 0)
    /\ e.type \in {"step.started", "step.finished"} => begun'[<<r, j>>] # 0
    /\ e.type = "step.finished" => [step |-> e.step, status |-> e.status] \in results'[<<r, j>>]

\* Names of steps are what they should be.
LEMMA StepName ==
    ASSUME NEW j \in Jobs, NEW s \in Nat, s # 0, s <= Len(StepsOf[j])
    PROVE  StepsOf[j][s] \in Steps
BY ServiceAssumption

\* One more element for one key of a table of sets.
LEMMA SetsGrow ==
    ASSUME NEW K, NEW X, NEW f \in [K -> SUBSET X], NEW k \in K, NEW x \in X,
           NEW g, g = [f EXCEPT ![k] = f[k] \cup {x}]
    PROVE  /\ g \in [K -> SUBSET X] /\ g[k] = f[k] \cup {x}
           /\ \A i \in K : i # k => g[i] = f[i]
<1>1. f[k] \cup {x} \in SUBSET X
  OBVIOUS
<1>2. QED
  BY <1>1

\* A job ends with a status.
LEMMA JobVerdictEnded ==
    ASSUME RunTypeOK, NEW k \in JobKeys
    PROVE  JobVerdict(k) \in Ended
<1> DEFINE S == {res.status : res \in results[k]}
<1>1. CASE results[k] = {}
  BY <1>1 DEF JobVerdict, Ended
<1>2. CASE results[k] # {}
  <2>1. S # {} /\ S \in SUBSET Ended
    BY <1>2 DEF RunTypeOK
  <2>2. S \in SUBSET Statuses /\ "passed" \in Ended
    BY <2>1 DEF Ended, Statuses
  <2>3. JobVerdict(k) = AggregateStatus(S)
    BY <1>2 DEF JobVerdict
  <2> HIDE DEF S
  <2>4. WorstOf(S) \in Ended
    BY <2>1, <2>2, WorstOfIsWorst
  <2>5. QED
    BY <2>1, <2>3, <2>4 DEF AggregateStatus
<1>3. QED
  BY <1>1, <1>2

\* What a job does next fits its run.
LEMMA JobGoesOn ==
    ASSUME RunTypeOK, LastInv, NEW r \in Runs, NEW j \in Jobs, JobStep(r, j)
    PROVE  \E e \in Events :
              /\ emit(e) /\ rpc[r] = "running" /\ rpc' = rpc
              /\ last' = [last EXCEPT ![<<r, j>>] = e]
              /\ ~Over(r, j) /\ Fits(r, j, e) /\ Logs(r, j, e) /\ Fresh(e)
<1> DEFINE Goal(e) ==
              /\ emit(e) /\ rpc[r] = "running" /\ rpc' = rpc
              /\ last' = [last EXCEPT ![<<r, j>>] = e]
              /\ ~Over(r, j) /\ Fits(r, j, e) /\ Logs(r, j, e) /\ Fresh(e)
<1>0. EventTypes = {"pipeline.started", "pipeline.finished", "job.started",
                    "job.finished", "step.started", "step.finished"}
  BY DEF EventTypes
<1>k. PICK k : k = <<r, j>>
  OBVIOUS
<1>a. /\ k \in JobKeys /\ k[2] = j
      /\ begun \in [JobKeys -> Nat] /\ \A i \in JobKeys : begun[i] <= Len(StepsOf[i[2]])
      /\ results \in [JobKeys -> SUBSET [step : Steps, status : Ended]]
      /\ Len(StepsOf[j]) \in Nat
  BY <1>k, ServiceAssumption DEF RunTypeOK, JobKeys
<1>1. CASE JobStarted(r, j)
  <2>1. PICK e : e = Event("job.started", r, j, None, None)
    OBVIOUS
  <2>2. Fits(r, j, e) /\ e.type = "job.started"
    BY <1>0, <2>1, EventIn DEF Fits
  <2>3. /\ emitInJob(e) /\ rpc[r] = "running" /\ Job(r, j) = None
        /\ begun' = begun /\ results' = results
    BY <1>1, <2>1 DEF JobStarted
  <2>4. Logs(r, j, e)
    BY <1>a, <2>2, <2>3 DEF Logs
  <2>5. Goal(e)
    BY <2>2, <2>3, <2>4 DEF emitInJob, Fits, Over, Fresh
  <2>6. QED
    BY <2>2, <2>5 DEF Fits
<1>2. CASE StepStarted(r, j)
  <2>1. PICK name : name = StepsOf[j][begun[k] + 1]
    OBVIOUS
  <2>2. PICK e : e = Event("step.started", r, j, name, None)
    OBVIOUS
  <2>3. /\ emitInJob(e) /\ rpc[r] = "running" /\ begun[k] < Len(StepsOf[j])
        /\ begun' = [begun EXCEPT ![k] = begun[k] + 1] /\ results' = results
    BY <1>2, <1>k, <2>1, <2>2 DEF StepStarted, InJob
  <2>4. Job(r, j) # None /\ Job(r, j).type # "job.finished"
    BY <1>2 DEF StepStarted, InJob, StepDone
  <2>5. name \in Steps
    BY <1>a, <2>1, <2>3, StepName
  <2>6. Fits(r, j, e) /\ e.type = "step.started"
    BY <1>0, <2>2, <2>5, EventIn DEF Fits
  <2>7. Logs(r, j, e)
    <3>1. begun' \in [JobKeys -> Nat] /\ begun'[k] = begun[k] + 1
          /\ \A i \in JobKeys : i # k => begun'[i] = begun[i]
      BY <1>a, <2>3
    <3>2. \A i \in JobKeys : begun'[i] <= Len(StepsOf[i[2]])
      <4>1. begun'[k] <= Len(StepsOf[k[2]])
        BY <1>a, <2>3, <3>1
      <4>2. QED
        BY <1>a, <3>1, <4>1
    <3>3. \A i \in JobKeys : begun[i] # 0 => begun'[i] # 0
      BY <1>a, <3>1
    <3>4. begun'[k] # 0
      BY <1>a, <3>1
    <3>5. QED
      BY <1>k, <1>a, <2>3, <2>6, <3>1, <3>2, <3>3, <3>4 DEF Logs
  <2>8. Goal(e)
    BY <2>3, <2>4, <2>6, <2>7 DEF emitInJob, Fits, Over, Fresh
  <2>9. QED
    BY <2>6, <2>8 DEF Fits
<1>3. ASSUME NEW status \in Ended, StepFinished(r, j, status)
      PROVE  \E e \in Events : Goal(e)
  <2>1. PICK name : name = StepsOf[j][begun[k]]
    OBVIOUS
  <2>2. PICK e : e = Event("step.finished", r, j, name, status)
    OBVIOUS
  <2>3. PICK res : res = [step |-> name, status |-> status]
    OBVIOUS
  <2>4. /\ emitInJob(e) /\ rpc[r] = "running" /\ Job(r, j) # None
        /\ results' = [results EXCEPT ![k] = results[k] \cup {res}] /\ begun' = begun
    BY <1>3, <1>k, <2>1, <2>2, <2>3 DEF StepFinished, InJob
  <2>5. Job(r, j).type \in {"step.started", "step.finished"}
    BY <1>3 DEF StepFinished, StepDone
  <2>6. begun[k] # 0
    BY <1>k, <2>4, <2>5 DEF LastInv
  <2>7. name \in Steps
    BY <1>a, <2>1, <2>6, StepName
  <2>8. /\ Fits(r, j, e) /\ e.type = "step.finished" /\ e.step = name /\ e.status = status
    BY <1>0, <2>2, <2>7, EventIn DEF Fits
  <2>9. Logs(r, j, e)
    <3>1. res \in [step : Steps, status : Ended]
      BY <2>3, <2>7
    <3>2. /\ results'[k] = results[k] \cup {res}
          /\ \A i \in JobKeys : i # k => results'[i] = results[i]
          /\ results' \in [JobKeys -> SUBSET [step : Steps, status : Ended]]
      BY <1>a, <2>4, <3>1, SetsGrow
    <3>3. \A i \in JobKeys : results[i] \subseteq results'[i]
      BY <3>2
    <3>4. [step |-> e.step, status |-> e.status] \in results'[k]
      BY <2>3, <2>8, <3>2
    <3>5. QED
      BY <1>k, <1>a, <2>4, <2>6, <3>2, <3>3, <3>4 DEF Logs
  <2>10. Goal(e)
    BY <2>4, <2>5, <2>8, <2>9 DEF emitInJob, Fits, Over, Fresh
  <2>11. QED
    BY <2>8, <2>10 DEF Fits
<1>4. CASE JobFinished(r, j)
  <2>1. PICK status : status = JobVerdict(<<r, j>>)
    OBVIOUS
  <2>2. PICK e : e = Event("job.finished", r, j, None, status)
    OBVIOUS
  <2>3. /\ emitInJob(e) /\ rpc[r] = "running" /\ begun' = begun /\ results' = results
        /\ Job(r, j).type \in {"job.started", "step.finished"}
    BY <1>4, <2>1, <2>2 DEF JobFinished, InJob, StepDone
  <2>4. status \in Ended
    BY <1>k, <1>a, <2>1, JobVerdictEnded
  <2>5. Fits(r, j, e) /\ e.type = "job.finished"
    BY <1>0, <2>2, <2>4, EventIn DEF Fits
  <2>6. Logs(r, j, e)
    BY <1>a, <2>3, <2>5 DEF Logs
  <2>7. Goal(e)
    BY <2>3, <2>5, <2>6 DEF emitInJob, Fits, Over, Fresh
  <2>8. QED
    BY <2>5, <2>7 DEF Fits
<1>5. QED
  BY <1>1, <1>2, <1>3, <1>4 DEF JobStep

\* What is over, or was published, stays so.
Lasting ==
    /\ \A r \in Runs : rpc[r] = "over" =>
          rpc'[r] = "over" /\ \A j \in Jobs : Job(r, j)' = Job(r, j)
    /\ \A r \in Runs, j \in Jobs : Over(r, j) => Job(r, j)' = Job(r, j)
    /\ \A k \in JobKeys : results[k] \subseteq results'[k]

\* Nothing lasts less where no run publishes.
LEMMA SameRunsLast ==
    ASSUME UNCHANGED jobVars, \A r \in Runs : rpc[r] = "over" => rpc'[r] = "over"
    PROVE  Lasting /\ (LastInv => LastInv')
BY DEF Lasting, LastInv, Job, Over, jobVars

\* A job that goes on leaves what is over, and its last event stays its own.
LEMMA JobStepLasts ==
    ASSUME RunTypeOK, LastInv, NEW r \in Runs, NEW j \in Jobs, NEW e \in Events,
           rpc[r] = "running", rpc' = rpc, last' = [last EXCEPT ![<<r, j>>] = e],
           ~Over(r, j), Fits(r, j, e), Logs(r, j, e)
    PROVE  Lasting /\ LastInv' /\ last' \in [JobKeys -> Events \cup {None}]
<1>1. /\ Job(r, j)' = e
      /\ \A q \in Runs, i \in Jobs : q # r \/ i # j => Job(q, i)' = Job(q, i)
  BY LastAt
<1>2. ASSUME NEW q \in Runs, rpc[q] = "over"
      PROVE  rpc'[q] = "over" /\ \A i \in Jobs : Job(q, i)' = Job(q, i)
  BY <1>1, <1>2
<1>3. ASSUME NEW q \in Runs, NEW i \in Jobs, Over(q, i) PROVE Job(q, i)' = Job(q, i)
  BY <1>1, <1>3
<1>4. \A k \in JobKeys : results[k] \subseteq results'[k] /\ (begun[k] # 0 => begun'[k] # 0)
  BY DEF Logs
<1>5. ASSUME NEW q \in Runs, NEW i \in Jobs, Job(q, i)' # None
      PROVE  /\ Job(q, i)' \in Events /\ (Job(q, i).run)' = q /\ (Job(q, i).job)' = i
             /\ (Job(q, i).type)' \in {"job.started", "step.started", "step.finished", "job.finished"}
             /\ (Job(q, i).type)' \in {"step.started", "step.finished"} => begun'[<<q, i>>] # 0
             /\ (Job(q, i).type)' = "job.finished" => (Job(q, i).status)' \in Ended
  <2>1. CASE q = r /\ i = j
    BY <1>1, <2>1 DEF Fits, Logs
  <2>2. CASE q # r \/ i # j
    <3>1. Job(q, i)' = Job(q, i) /\ Job(q, i) # None /\ <<q, i>> \in JobKeys
      BY <1>1, <1>5, <2>2 DEF JobKeys
    <3>2. QED
      BY <1>4, <3>1 DEF LastInv
  <2>3. QED
    BY <2>1, <2>2
<1>6. LastInv'
  BY <1>5 DEF LastInv
<1>7. last' \in [JobKeys -> Events \cup {None}]
  BY DEF RunTypeOK
<1>8. QED
  BY <1>2, <1>3, <1>4, <1>6, <1>7 DEF Lasting

\* The verdict of a run all of whose jobs have finished.
LEMMA VerdictEnded ==
    ASSUME RunTypeOK, LastInv, NEW r \in Runs,
           \A j \in Jobs : Job(r, j) # None => Job(r, j).type = "job.finished",
           \E j \in Jobs : Job(r, j) # None
    PROVE  RunVerdict(r) \in Ended
<1> DEFINE S == {Job(r, j).status : j \in {i \in Jobs : Job(r, i) # None}}
<1>1. S # {} /\ S \in SUBSET Ended
  <2>1. \A j \in Jobs : Job(r, j) # None => Job(r, j).status \in Ended
    BY DEF LastInv
  <2>2. QED
    BY <2>1
<1>2. S \in SUBSET Statuses /\ "passed" \in Ended
  BY <1>1 DEF Ended, Statuses
<1> HIDE DEF S
<1>3. WorstOf(S) \in Ended
  BY <1>1, <1>2, WorstOfIsWorst
<1>4. QED
  BY <1>1, <1>3 DEF S, RunVerdict, AggregateStatus

\* A verdict depends on the run's jobs alone.
LEMMA VerdictSame ==
    ASSUME NEW r \in Runs, \A j \in Jobs : Job(r, j)' = Job(r, j)
    PROVE  RunVerdict(r)' = RunVerdict(r)
BY DEF RunVerdict

\* What was reported goes on being so.
LEMMA ReportedLasts ==
    ASSUME NEW e, Reported(e), Lasting
    PROVE  Reported(e)'
<1>1. ASSUME e.type = "pipeline.finished"
      PROVE  /\ e.run \in Runs /\ rpc'[e.run] = "over"
             /\ e.status = RunVerdict(e.run)' /\ e.status \in Ended
  BY <1>1, VerdictSame DEF Reported, Lasting
<1>2. ASSUME e.type = "job.finished"
      PROVE  /\ e.run \in Runs /\ e.job \in Jobs /\ Over(e.run, e.job)'
             /\ e.status = (Job(e.run, e.job).status)' /\ e.status \in Ended
  BY <1>2 DEF Reported, Lasting, Over
<1>3. ASSUME e.type = "step.finished"
      PROVE  /\ e.run \in Runs /\ e.job \in Jobs /\ e.status \in Ended
             /\ [step |-> e.step, status |-> e.status] \in results'[<<e.run, e.job>>]
  BY <1>3 DEF Reported, Lasting, JobKeys
<1>4. QED
  BY <1>1, <1>2, <1>3 DEF Reported

\* An event is put on the stream, or lost.
Puts(e) ==
    \/ UNCHANGED <<stream, added>>
    \/ added' = added + 1 /\ stream' = Append(stream, e)

\* What emit does of an event.
LEMMA EmitForm ==
    ASSUME NEW e, emit(e)
    PROVE  Puts(e) /\ UNCHANGED <<tables, cancelled, process>>
BY DEF emit, Land, Lose, Puts, Publish, stamp, streamVars

\* The ways a step of the process shows in the stream and the tables.
Quiet == UNCHANGED <<stream, added, tables>>
Reports == UNCHANGED tables /\ \E e \in Events : Puts(e) /\ Reported(e)'
Foreigns == UNCHANGED tables /\ \E e \in ForeignEvents : Puts(e)
Records == record /\ UNCHANGED <<stream, added>>

RunsGoOn ==
    /\ Lasting /\ LastInv'
    /\ rpc' \in [Runs -> {"new", "running", "over"}]
    /\ cancelled' \subseteq Runs
    /\ last' \in [JobKeys -> Events \cup {None}]
    /\ begun' \in [JobKeys -> Nat] /\ \A k \in JobKeys : begun'[k] <= Len(StepsOf[k[2]])
    /\ results' \in [JobKeys -> SUBSET [step : Steps, status : Ended]]

\* A job's step reports what it has done.
LEMMA JobReports ==
    ASSUME RunTypeOK, LastInv, NEW r \in Runs, NEW j \in Jobs, JobStep(r, j)
    PROVE  RunsGoOn /\ Reports
<1>1. PICK e \in Events :
          /\ emit(e) /\ rpc[r] = "running" /\ rpc' = rpc
          /\ last' = [last EXCEPT ![<<r, j>>] = e]
          /\ ~Over(r, j) /\ Fits(r, j, e) /\ Logs(r, j, e) /\ Fresh(e)
  BY JobGoesOn
<1>2. Lasting /\ LastInv' /\ last' \in [JobKeys -> Events \cup {None}]
  BY <1>1, JobStepLasts
<1>3. RunsGoOn
  BY <1>1, <1>2, EmitForm DEF RunsGoOn, RunTypeOK, Logs
<1>4. Job(r, j)' = e /\ e # None
  <2>1. Job(r, j)' = e
    BY <1>1, LastAt
  <2>2. e # None
    BY ServiceAssumption
  <2>3. QED
    BY <2>1, <2>2
<1>5. Reported(e)'
  <2>1. e.type # "pipeline.finished" /\ e.run = r /\ e.job = j
    BY <1>1 DEF Fits
  <2>2. e.type = "job.finished" => Over(r, j)' /\ e.status = (Job(r, j).status)' /\ e.status \in Ended
    BY <1>1, <1>4 DEF Fits, Over
  <2>3. e.type = "step.finished" =>
          /\ e.status \in Ended
          /\ [step |-> e.step, status |-> e.status] \in results'[<<r, j>>]
    BY <1>1 DEF Fits, Logs
  <2>4. QED
    BY <2>1, <2>2, <2>3 DEF Reported
<1>6. QED
  BY <1>1, <1>3, <1>5, EmitForm DEF Reports

\* So does a run that begins or ends.
LEMMA RunReports ==
    ASSUME RunTypeOK, LastInv, NEW r \in Runs, PipelineStarted(r) \/ PipelineFinished(r)
    PROVE  RunsGoOn /\ Reports
<1>1. UNCHANGED jobVars
  BY DEF PipelineStarted, PipelineFinished
<1>2. /\ rpc' \in [Runs -> {"new", "running", "over"}]
      /\ \A q \in Runs : rpc[q] = "over" => rpc'[q] = "over"
  BY DEF PipelineStarted, PipelineFinished, RunTypeOK
<1>3. CASE PipelineStarted(r)
  <2>1. PICK e : e = Event("pipeline.started", r, None, None, None)
    OBVIOUS
  <2>2. e \in Events /\ e.type = "pipeline.started"
    BY <2>1, EventIn DEF EventTypes
  <2>3. emit(e) /\ Reported(e)'
    BY <1>3, <2>1, <2>2 DEF PipelineStarted, Reported
  <2>4. RunsGoOn
    BY <1>1, <1>2, <2>3, EmitForm, SameRunsLast DEF RunsGoOn, RunTypeOK, jobVars
  <2>5. QED
    BY <2>2, <2>3, <2>4, EmitForm DEF Reports
<1>4. CASE PipelineFinished(r)
  <2>1. PICK verdict : verdict = RunVerdict(r)
    OBVIOUS
  <2>2. verdict \in Ended
    BY <1>4, <2>1, VerdictEnded DEF PipelineFinished
  <2>3. PICK e : e = Event("pipeline.finished", r, None, None, verdict)
    OBVIOUS
  <2>4. /\ e \in Events /\ e.type = "pipeline.finished" /\ e.run = r /\ e.status = verdict
    BY <2>2, <2>3, EventIn DEF EventTypes
  <2>5. emit(e) /\ rpc'[r] = "over"
    BY <1>4, <2>1, <2>3 DEF PipelineFinished, RunTypeOK
  <2>6. RunVerdict(r)' = verdict
    BY <1>1, <2>1, VerdictSame DEF Job, jobVars
  <2>7. Reported(e)'
    BY <2>2, <2>4, <2>5, <2>6 DEF Reported
  <2>8. RunsGoOn
    BY <1>1, <1>2, <2>5, EmitForm, SameRunsLast DEF RunsGoOn, RunTypeOK, jobVars
  <2>9. QED
    BY <2>4, <2>5, <2>7, <2>8, EmitForm DEF Reports
<1>5. QED
  BY <1>3, <1>4

\* Every step keeps to one of these ways, and the runs go on.
LEMMA StepWays ==
    ASSUME SInv, [ServiceNext]_allVars
    PROVE  RunsGoOn /\ (Quiet \/ Reports \/ Foreigns \/ Records)
<1>0. RunTypeOK /\ LastInv
  BY DEF SInv
<1>1. UNCHANGED runVars => RunsGoOn
  BY <1>0, SameRunsLast DEF RunsGoOn, RunTypeOK, runVars, jobVars
<1>2. ASSUME NEW r \in Runs, RunSteps(r) PROVE RunsGoOn /\ (Quiet \/ Reports)
  <2>1. CASE Cancel(r)
    <3>1. RunsGoOn
      BY <1>0, <2>1, SameRunsLast DEF Cancel, RunsGoOn, RunTypeOK, jobVars
    <3>2. QED
      BY <2>1, <3>1 DEF Cancel, Quiet, streamVars
  <2>2. CASE PipelineStarted(r) \/ PipelineFinished(r)
    BY <1>0, <2>2, RunReports
  <2>3. ASSUME NEW j \in Jobs, JobStep(r, j) PROVE RunsGoOn /\ Reports
    BY <1>0, <2>3, JobReports
  <2>4. QED
    BY <1>2, <2>1, <2>2, <2>3 DEF RunSteps, JobStep
<1>3. CASE Exit \/ ProcessCrash
  <2>1. /\ UNCHANGED jobVars /\ cancelled' = cancelled
        /\ rpc' = [r \in Runs |-> IF rpc[r] = "running" THEN "over" ELSE rpc[r]]
        /\ Quiet
    BY <1>3 DEF Exit, ProcessCrash, ProcessEnds, Die, Quiet, streamVars
  <2>2. /\ rpc' \in [Runs -> {"new", "running", "over"}]
        /\ \A r \in Runs : rpc[r] = "over" => rpc'[r] = "over"
    BY <1>0, <2>1 DEF RunTypeOK
  <2>3. QED
    BY <1>0, <2>1, <2>2, SameRunsLast DEF RunsGoOn, RunTypeOK, jobVars
<1>4. CASE UNCHANGED allVars
  <2>1. UNCHANGED runVars /\ Quiet
    BY <1>4 DEF allVars, vars, streamVars, Quiet
  <2>2. QED
    BY <1>1, <2>1
<1>5. ASSUME NEW e \in ForeignEvents, Foreign(e) PROVE RunsGoOn /\ Foreigns
  <2>1. UNCHANGED runVars /\ Foreigns
    BY <1>5 DEF Foreign, Foreigns, Puts
  <2>2. QED
    BY <1>1, <2>1
<1>6. CASE RecorderStep
  <2>1. UNCHANGED <<stream, added>>
    BY <1>6 DEF RecorderStep, consume, record, handlerReturns, ensureGroup, loopHead, readNew,
                backoff, recoverStuck, recoverOne, parseFails, acknowledge, deadLetter,
                deadLetterEntry, streamVars
  <2>2. UNCHANGED runVars
    BY <1>6 DEF RecorderStep
  <2>3. CASE consume
    <3>1. Quiet
      BY <2>1, <2>3 DEF consume, Quiet
    <3>2. QED
      BY <1>1, <2>2, <3>1
  <2>4. CASE record
    BY <1>1, <2>1, <2>2, <2>4 DEF Records
  <2>5. QED
    BY <1>6, <2>3, <2>4 DEF RecorderStep
<1>7. ASSUME NEW e \in Entries, Idle(e) PROVE RunsGoOn /\ Quiet
  <2>1. UNCHANGED runVars /\ Quiet
    BY <1>7 DEF Idle, Quiet, streamVars
  <2>2. QED
    BY <1>1, <2>1
<1>8. CASE Notify \/ Terminate \/ Start
  <2>1. UNCHANGED runVars /\ Quiet
    BY <1>8 DEF Notify, Terminate, Start, Restart, Quiet, vars, streamVars
  <2>2. QED
    BY <1>1, <2>1
<1>9. QED
  BY <1>2, <1>3, <1>4, <1>5, <1>6, <1>7, <1>8 DEF ServiceNext

-----------------------------------------------------------------------------
(* The stream.                                                             *)

\* The stream grows at its end.
LEMMA PutsForm ==
    ASSUME RunTypeOK, added \in Nat, NEW e \in Events \cup ForeignEvents, Puts(e)
    PROVE  /\ stream' \in Seq(Events \cup ForeignEvents) /\ Len(stream') = added'
           /\ \A n \in 1..added' : stream'[n] = e \/ (n \in 1..added /\ stream'[n] = stream[n])
<1>1. CASE UNCHANGED <<stream, added>>
  BY <1>1 DEF RunTypeOK
<1>2. CASE added' = added + 1 /\ stream' = Append(stream, e)
  <2>1. stream' \in Seq(Events \cup ForeignEvents) /\ Len(stream') = added'
    BY <1>2 DEF RunTypeOK
  <2>2. ASSUME NEW n \in 1..added'
        PROVE  stream'[n] = e \/ (n \in 1..added /\ stream'[n] = stream[n])
    BY <1>2, <2>2 DEF RunTypeOK
  <2>3. QED
    BY <2>1, <2>2
<1>3. QED
  BY <1>1, <1>2 DEF Puts

\* The stream keeps its type, and what it reports has happened.
LEMMA StreamKeeps ==
    ASSUME SInv, [ServiceNext]_allVars
    PROVE  RunTypeOK' /\ StreamInv'
<1>0. RunTypeOK /\ StreamInv /\ added \in Nat
  BY Numbers DEF SInv, IInv
<1>1. RunsGoOn /\ (Quiet \/ Reports \/ Foreigns \/ Records)
  BY StepWays
<1>2. ASSUME NEW e \in Events \cup ForeignEvents, NEW n \in 1..added, stream[n] = e
      PROVE  e \in ForeignEvents \/ Reported(e)'
  <2>1. e \in ForeignEvents \/ Reported(e)
    BY <1>0, <1>2 DEF StreamInv
  <2>2. QED
    BY <1>1, <2>1, ReportedLasts DEF RunsGoOn
<1>3. CASE Quiet \/ Records
  <2>1. stream' = stream /\ added' = added
    BY <1>3 DEF Quiet, Records
  <2>2. StreamInv'
    BY <1>2, <2>1 DEF StreamInv
  <2>3. QED
    BY <1>0, <1>1, <2>1, <2>2 DEF RunsGoOn, RunTypeOK
<1>4. CASE Reports \/ Foreigns
  <2>1. PICK e \in Events \cup ForeignEvents : Puts(e) /\ (e \in ForeignEvents \/ Reported(e)')
    BY <1>4 DEF Reports, Foreigns
  <2>2. /\ stream' \in Seq(Events \cup ForeignEvents) /\ Len(stream') = added'
        /\ \A n \in 1..added' : stream'[n] = e \/ (n \in 1..added /\ stream'[n] = stream[n])
    BY <1>0, <2>1, PutsForm
  <2>3. StreamInv'
    BY <1>2, <2>1, <2>2 DEF StreamInv
  <2>4. QED
    BY <1>1, <2>2, <2>3 DEF RunsGoOn, RunTypeOK
<1>5. QED
  BY <1>1, <1>3, <1>4

\* What is delivered has happened, or ends nothing.
LEMMA DeliveredForm ==
    ASSUME SInv, pc[recorder] = "handle", NEW e, e = stream[Current(recorder)]
    PROVE  /\ e \in Events \cup ForeignEvents
           /\ e.type \in Ends => Reported(e) \/ (e.type = "step.finished" /\ ~e.numbers)
<1>1. PICK n : n = Current(recorder)
  OBVIOUS
<1>2. n \in 1..added
  <2>1. n \in 1..delivered
    BY <1>1, CurrentIn, RecorderIn DEF SInv, IInv, BatchInv, Working
  <2>2. QED
    BY <2>1, Numbers DEF SInv, IInv
<1>3. e \in Events \cup ForeignEvents /\ stream[n] = e
  BY <1>1, <1>2 DEF SInv, RunTypeOK
<1>4. e \in ForeignEvents \/ Reported(e)
  BY <1>2, <1>3 DEF SInv, StreamInv
<1>5. QED
  BY <1>3, <1>4, ServiceAssumption

-----------------------------------------------------------------------------
(* The tables.                                                             *)

\* An INSERT adds at most a pending row.
LEMMA InsertForm ==
    ASSUME NEW K, NEW table \in [K -> RowStatuses], NEW key
    PROVE  /\ InsertPending(table, key) \in [K -> RowStatuses]
           /\ \A k \in K : \/ InsertPending(table, key)[k] = table[k]
                           \/ table[k] = None /\ InsertPending(table, key)[k] = "pending"
BY DEF InsertPending, Has, RowStatuses

\* An UPDATE writes at most the row it names.
LEMMA UpdateForm ==
    ASSUME NEW K, NEW table \in [K -> RowStatuses], NEW key, NEW status \in RowStatuses
    PROVE  /\ Update(table, key, status) \in [K -> RowStatuses]
           /\ \A k \in K : \/ Update(table, key, status)[k] = table[k]
                           \/ k = key /\ Update(table, key, status)[k] = status
BY DEF Update, Has

\* A step's key.
LEMMA StepKeyForm ==
    ASSUME NEW e
    PROVE  stepKey(e) = <<e.run, e.job, e.step>>
BY DEF stepKey, jobKey

\* How a row may change: it appears, or the event it was waiting for ends it.
Keeps(old, new) == new = old \/ (old = None /\ new = "pending")

\* Record changes rows only as the event says.
LEMMA RecordForm ==
    ASSUME TableTypeOK, NEW e, NEW ok \in BOOLEAN, Record(e, ok),
           e.type \in Ends => e.status \in RowStatuses \/ (e.type = "step.finished" /\ ~e.numbers)
    PROVE  /\ TableTypeOK'
           /\ \A r \in Runs : \/ Keeps(runs[r], runs'[r])
                              \/ e.type = "pipeline.finished" /\ e.run = r /\ runs'[r] = e.status
           /\ \A k \in JobKeys : \/ Keeps(jobs[k], jobs'[k])
                                 \/ e.type = "job.finished" /\ <<e.run, e.job>> = k /\ jobs'[k] = e.status
           /\ \A k \in StepKeys : \/ Keeps(steps[k], steps'[k])
                                  \/ /\ e.type = "step.finished" /\ e.numbers
                                     /\ <<e.run, e.job, e.step>> = k /\ steps'[k] = e.status
<1> USE DEF TableTypeOK, Keeps
<1>1. CASE UNCHANGED tables
  BY <1>1 DEF tables
<1>2. CASE e.type = "pipeline.started" /\ runs' = InsertPending(runs, e.run) /\ UNCHANGED <<jobs, steps>>
  BY <1>2, InsertForm
<1>3. CASE recordPipelineFinished(e, ok)
  <2>1. e.status \in RowStatuses
    BY <1>3 DEF recordPipelineFinished, Ends
  <2>2. QED
    BY <1>3, <2>1, UpdateForm DEF recordPipelineFinished
<1>4. CASE jobs' = InsertPending(jobs, jobKey(e)) /\ UNCHANGED <<runs, steps>>
  BY <1>4, InsertForm
<1>5. CASE e.type = "job.finished" /\ jobs' = Update(jobs, jobKey(e), e.status) /\ UNCHANGED <<runs, steps>>
  <2>1. e.status \in RowStatuses
    BY <1>5 DEF Ends
  <2>2. QED
    BY <1>5, <2>1, UpdateForm DEF jobKey
<1>6. CASE steps' = InsertPending(steps, stepKey(e)) /\ UNCHANGED <<runs, jobs>>
  BY <1>6, InsertForm
<1>7. CASE /\ e.type = "step.finished" /\ e.numbers
           /\ steps' = Update(steps, stepKey(e), e.status) /\ UNCHANGED <<runs, jobs>>
  <2>1. e.status \in RowStatuses
    BY <1>7 DEF Ends
  <2>2. QED
    BY <1>7, <2>1, UpdateForm, StepKeyForm
<1>8. CASE recordPipelineStarted(e, ok)
  BY <1>1, <1>2, <1>8 DEF recordPipelineStarted, tables
<1>9. CASE recordJobStarted(e, ok) \/ recordJobFinished(e, ok)
  BY <1>1, <1>4, <1>5, <1>9 DEF recordJobStarted, recordJobFinished, tables
<1>10. CASE recordStepStarted(e, ok) \/ recordStepFinished(e, ok)
  BY <1>1, <1>6, <1>7, <1>10 DEF recordStepStarted, recordStepFinished, tables
<1>11. QED
  BY <1>1, <1>3, <1>8, <1>9, <1>10 DEF Record

\* No row changes but as the run, the job or the step has ended.
RowsChange ==
    /\ \A r \in Runs : \/ Keeps(runs[r], runs'[r])
                       \/ rpc[r] = "over" /\ runs'[r] = RunVerdict(r) /\ runs'[r] \in Ended
    /\ \A r \in Runs, j \in Jobs :
          \/ Keeps(jobs[<<r, j>>], jobs'[<<r, j>>])
          \/ Over(r, j) /\ jobs'[<<r, j>>] = Job(r, j).status /\ jobs'[<<r, j>>] \in Ended
    /\ \A r \in Runs, j \in Jobs, s \in Steps :
          \/ Keeps(steps[<<r, j, s>>], steps'[<<r, j, s>>])
          \/ [step |-> s, status |-> steps'[<<r, j, s>>]] \in results[<<r, j>>]

\* The recorder writes nothing a run has not reported.
LEMMA RowsChangeByReports ==
    ASSUME SInv, [ServiceNext]_allVars
    PROVE  RowsChange /\ TableTypeOK'
<1>1. CASE UNCHANGED tables
  BY <1>1 DEF tables, RowsChange, Keeps, SInv, TableTypeOK
<1>2. CASE Records
  <2>1. PICK e : e = stream[Current(recorder)]
    OBVIOUS
  <2>2. CASE UNCHANGED tables
    BY <1>1, <2>2
  <2>3. CASE \E ok \in BOOLEAN : Record(e, ok)
    <3>1. PICK ok \in BOOLEAN : Record(e, ok)
      BY <2>3
    <3>2. pc[recorder] = "handle"
      BY <1>2 DEF Records, record
    <3>3. e.type \in Ends => Reported(e) \/ (e.type = "step.finished" /\ ~e.numbers)
      BY <2>1, <3>2, DeliveredForm
    <3>4. Reported(e) /\ e.type \in Ends => e.status \in RowStatuses
      BY DEF Reported, Ends, Ended, RowStatuses
    <3>5. /\ TableTypeOK'
          /\ \A r \in Runs : \/ Keeps(runs[r], runs'[r])
                             \/ e.type = "pipeline.finished" /\ e.run = r /\ runs'[r] = e.status
          /\ \A k \in JobKeys : \/ Keeps(jobs[k], jobs'[k])
                                \/ e.type = "job.finished" /\ <<e.run, e.job>> = k /\ jobs'[k] = e.status
          /\ \A k \in StepKeys : \/ Keeps(steps[k], steps'[k])
                                 \/ /\ e.type = "step.finished" /\ e.numbers
                                    /\ <<e.run, e.job, e.step>> = k /\ steps'[k] = e.status
      BY <3>1, <3>3, <3>4, RecordForm DEF SInv
    <3>6. ASSUME NEW r \in Runs, ~Keeps(runs[r], runs'[r])
          PROVE  rpc[r] = "over" /\ runs'[r] = RunVerdict(r) /\ runs'[r] \in Ended
      <4>1. e.type = "pipeline.finished" /\ e.run = r /\ runs'[r] = e.status
        BY <3>5, <3>6
      <4>2. QED
        BY <3>3, <4>1 DEF Ends, Reported
    <3>7. ASSUME NEW r \in Runs, NEW j \in Jobs, ~Keeps(jobs[<<r, j>>], jobs'[<<r, j>>])
          PROVE  Over(r, j) /\ jobs'[<<r, j>>] = Job(r, j).status /\ jobs'[<<r, j>>] \in Ended
      <4>1. /\ e.type = "job.finished" /\ e.run = r /\ e.job = j
            /\ jobs'[<<r, j>>] = e.status
        BY <3>5, <3>7 DEF JobKeys
      <4>2. QED
        BY <3>3, <4>1 DEF Ends, Reported
    <3>8. ASSUME NEW r \in Runs, NEW j \in Jobs, NEW s \in Steps,
                 ~Keeps(steps[<<r, j, s>>], steps'[<<r, j, s>>])
          PROVE  [step |-> s, status |-> steps'[<<r, j, s>>]] \in results[<<r, j>>]
      <4>1. /\ e.type = "step.finished" /\ e.numbers /\ e.run = r /\ e.job = j /\ e.step = s
            /\ steps'[<<r, j, s>>] = e.status
        BY <3>5, <3>8 DEF StepKeys
      <4>2. QED
        BY <3>3, <4>1 DEF Ends, Reported
    <3>9. QED
      BY <3>5, <3>6, <3>7, <3>8 DEF RowsChange
  <2>4. QED
    BY <1>2, <2>1, <2>2, <2>3 DEF Records, record, recordFails
<1>3. QED
  BY <1>1, <1>2, StepWays DEF Quiet, Reports, Foreigns

\* The final statuses.
LEMMA EndedIsFinal ==
    /\ None \notin Final /\ "pending" \notin Final
    /\ Ended \subseteq Final /\ Final \subseteq Ended
<1>1. None \notin Statuses
  BY ServiceAssumption
<1>2. None \notin Ended
  BY <1>1 DEF Statuses, Ended
<1>3. QED
  BY <1>2 DEF Final, Ended, RowStatuses

\* The tables do not run ahead of the runs.
LEMMA TablesKeep ==
    ASSUME SInv, [ServiceNext]_allVars
    PROVE  TablesFollowRuns'
<1>0. RowsChange /\ Lasting /\ TablesFollowRuns
  BY RowsChangeByReports, StepWays DEF RunsGoOn, SInv
<1>1. /\ None \notin Final /\ "pending" \notin Final /\ Ended \subseteq Final
      /\ Final \subseteq Ended
  BY EndedIsFinal
<1>2. ASSUME NEW r \in Runs, runs'[r] \in Final
      PROVE  rpc'[r] = "over" /\ runs'[r] = RunVerdict(r)'
  <2>1. rpc[r] = "over" /\ runs'[r] = RunVerdict(r)
    BY <1>0, <1>1, <1>2 DEF RowsChange, Keeps, TablesFollowRuns
  <2>2. rpc'[r] = "over" /\ \A j \in Jobs : Job(r, j)' = Job(r, j)
    BY <1>0, <2>1 DEF Lasting
  <2>3. QED
    BY <2>1, <2>2, VerdictSame
<1>3. ASSUME NEW r \in Runs, NEW j \in Jobs, jobs'[<<r, j>>] \in Final
      PROVE  Over(r, j)' /\ jobs'[<<r, j>>] = (Job(r, j).status)'
  <2>1. Over(r, j) /\ jobs'[<<r, j>>] = Job(r, j).status
    BY <1>0, <1>1, <1>3 DEF RowsChange, Keeps, TablesFollowRuns
  <2>2. Job(r, j)' = Job(r, j)
    BY <1>0, <2>1 DEF Lasting
  <2>3. QED
    BY <2>1, <2>2 DEF Over
<1>4. ASSUME NEW r \in Runs, NEW j \in Jobs, NEW s \in Steps, steps'[<<r, j, s>>] \in Final
      PROVE  [step |-> s, status |-> steps'[<<r, j, s>>]] \in results'[<<r, j>>]
  <2>1. [step |-> s, status |-> steps'[<<r, j, s>>]] \in results[<<r, j>>]
    BY <1>0, <1>1, <1>4 DEF RowsChange, Keeps, TablesFollowRuns
  <2>2. <<r, j>> \in JobKeys
    BY DEF JobKeys
  <2>3. QED
    BY <1>0, <2>1, <2>2 DEF Lasting
<1>5. QED
  BY <1>2, <1>3, <1>4 DEF TablesFollowRuns

\* The final row of a run or a job is only written again with what it holds.
LEMMA FinalRowsKeep ==
    ASSUME SInv, [ServiceNext]_allVars
    PROVE  /\ \A r \in Runs : runs[r] \in Final => runs'[r] = runs[r]
           /\ \A k \in JobKeys : jobs[k] \in Final => jobs'[k] = jobs[k]
<1>0. RowsChange /\ TablesFollowRuns
  BY RowsChangeByReports DEF SInv
<1>1. None \notin Final /\ Ended \subseteq Final
  BY EndedIsFinal
<1>2. ASSUME NEW r \in Runs, runs[r] \in Final PROVE runs'[r] = runs[r]
  BY <1>0, <1>1, <1>2 DEF RowsChange, Keeps, TablesFollowRuns
<1>3. ASSUME NEW r \in Runs, NEW j \in Jobs, jobs[<<r, j>>] \in Final
      PROVE  jobs'[<<r, j>>] = jobs[<<r, j>>]
  BY <1>0, <1>1, <1>3 DEF RowsChange, Keeps, TablesFollowRuns
<1>4. QED
  BY <1>2, <1>3 DEF JobKeys

-----------------------------------------------------------------------------
(* The process.                                                            *)

\* A step of Run does not end the process.
LEMMA RunStaysUp ==
    ASSUME TypeOK, RunStep(recorder) \/ (\E ok \in BOOLEAN : handlerReturns(recorder, ok))
                   \/ parseFails(recorder)
    PROVE  pc[recorder] # "down" /\ pc'[recorder] # "down"
<1> USE RecorderIn
<1>1. ASSUME NextEntry(recorder) PROVE pc'[recorder] # "down"
  BY <1>1, ToNext
<1>2. ASSUME NEW label \in Labels \ {"down"}, Goto(recorder, label) PROVE pc'[recorder] # "down"
  BY <1>2 DEF Goto, TypeOK
<1>3. {"group", "loop", "claim", "check", "read", "backoff", "handle", "ack", "range", "copy",
       "returned"} \subseteq Labels \ {"down"}
  BY DEF Labels
<1>4. CASE ensureGroup(recorder) \/ loopHead(recorder) \/ readNew(recorder) \/ backoff(recorder)
  BY <1>2, <1>3, <1>4 DEF ensureGroup, loopHead, readNew, backoff
<1>5. CASE recoverStuck(recorder) \/ recoverOne(recorder)
  BY <1>1, <1>2, <1>3, <1>5 DEF recoverStuck, recoverOne
<1>6. CASE parseFails(recorder) \/ (\E ok \in BOOLEAN : handlerReturns(recorder, ok))
  BY <1>1, <1>2, <1>3, <1>6 DEF parseFails, handlerReturns, Succeed, HandlerFailed
<1>7. CASE acknowledge(recorder) \/ deadLetter(recorder) \/ deadLetterEntry(recorder)
  BY <1>1, <1>2, <1>3, <1>7 DEF acknowledge, deadLetter, deadLetterEntry, CopyFailed
<1>8. QED
  BY <1>4, <1>5, <1>6, <1>7 DEF RunStep, handle

\* The recorder is down exactly when its process is.
LEMMA ProcessKeeps ==
    ASSUME SInv, [ServiceNext]_allVars
    PROVE  ProcessOK'
<1>0. TypeOK /\ ProcessOK
  BY DEF SInv, IInv
<1>1. CASE UNCHANGED <<pc, process>>
  BY <1>0, <1>1 DEF ProcessOK
<1>2. ASSUME NEW r \in Runs, RunSteps(r) PROVE UNCHANGED <<pc, process>>
  <2>1. ASSUME NEW e, emit(e) PROVE UNCHANGED <<pc, process>>
    BY <2>1 DEF emit, Land, Lose, Publish
  <2>2. QED
    BY <1>2, <2>1
       DEF RunSteps, PipelineStarted, PipelineFinished, JobStarted, JobFinished, StepStarted,
           StepFinished, emitInJob, Cancel
<1>3. CASE RecorderStep
  <2>1. pc[recorder] # "down" /\ pc'[recorder] # "down"
    BY <1>0, <1>3, RunStaysUp DEF RecorderStep, consume, record, RunStep
  <2>2. QED
    BY <1>0, <1>3, <2>1 DEF RecorderStep, ProcessOK
<1>4. CASE Notify \/ Terminate
  BY <1>0, <1>4 DEF Notify, Terminate, ProcessOK, vars
<1>5. CASE Exit \/ ProcessCrash
  <2>1. process' = "down" /\ pc'[recorder] = "down"
    BY <1>0, <1>5, RecorderIn DEF Exit, ProcessCrash, ProcessEnds, Die, Goto, TypeOK
  <2>2. QED
    BY <2>1 DEF ProcessOK
<1>6. CASE Start
  <2>1. process' = "startup" /\ pc'[recorder] = "group"
    BY <1>0, <1>6, RecorderIn DEF Start, Restart, Goto, TypeOK
  <2>2. QED
    BY <2>1 DEF ProcessOK
<1>7. CASE (\E e \in ForeignEvents : Foreign(e)) \/ (\E e \in Entries : Idle(e)) \/ UNCHANGED allVars
  BY <1>1, <1>7 DEF Foreign, Idle, allVars, vars
<1>8. QED
  BY <1>1, <1>2, <1>3, <1>4, <1>5, <1>6, <1>7 DEF ServiceNext

-----------------------------------------------------------------------------
(* The theorems.                                                           *)

\* The invariant holds when the process starts.
LEMMA ServiceInitHolds ==
    ASSUME ServiceInit
    PROVE  SInv
<1>1. IInv
  BY InitHolds DEF ServiceInit
<1>2. RunTypeOK /\ TableTypeOK
  <2>1. \A k \in JobKeys : 0 <= Len(StepsOf[k[2]])
    BY ServiceAssumption DEF JobKeys
  <2>2. QED
    BY <2>1 DEF ServiceInit, Init, StoreInit, RunTypeOK, TableTypeOK, RowStatuses
<1>3. ProcessOK
  BY RecorderIn DEF ServiceInit, Init, ProcessOK
<1>4. LastInv
  BY DEF ServiceInit, LastInv, Job, JobKeys
<1>5. StreamInv
  BY DEF ServiceInit, Init, StreamInv
<1>6. TablesFollowRuns
  <2>1. None \notin Final
    BY DEF Final
  <2>2. QED
    BY <2>1 DEF ServiceInit, StoreInit, TablesFollowRuns, JobKeys, StepKeys
<1>7. QED
  BY <1>1, <1>2, <1>3, <1>4, <1>5, <1>6 DEF SInv

\* And every step keeps it.
LEMMA ServiceInvariant == ServiceSpec => []SInv
<1>1. SInv /\ [ServiceNext]_allVars => SInv'
  <2>1. SUFFICES ASSUME SInv, [ServiceNext]_allVars PROVE SInv'
    OBVIOUS
  <2>2. IInv'
    BY <2>1, ServiceIsStep, StepKeeps DEF SInv, IInv
  <2>3. RunTypeOK' /\ StreamInv' /\ LastInv'
    BY <2>1, StreamKeeps, StepWays DEF RunsGoOn
  <2>4. TableTypeOK' /\ TablesFollowRuns' /\ ProcessOK'
    BY <2>1, RowsChangeByReports, TablesKeep, ProcessKeeps
  <2>5. QED
    BY <2>2, <2>3, <2>4 DEF SInv
<1>2. QED
  BY ServiceInitHolds, <1>1, PTL DEF ServiceSpec

(***************************************************************************)
(* Every variable of the service keeps its type, the stream knows each     *)
(* entry's event, and the recorder is down exactly with its process.       *)
(***************************************************************************)
THEOREM ServiceTypeCorrect == ServiceSpec => []ServiceTypeOK
<1>1. SInv => ServiceTypeOK
  BY DEF SInv, IInv, RunTypeOK, TableTypeOK, ProcessOK, ServiceTypeOK
<1>2. QED
  BY <1>1, ServiceInvariant, PTL

(***************************************************************************)
(* The row of a run or a job is final only when that run, that job of that *)
(* run is over, and with its status; the row of a step only with the       *)
(* status of a result that a step of that name of that job has had: for    *)
(* any number of runs that share the stream and steps that share a name,   *)
(* whatever is delivered late, twice, out of order or to a restarted       *)
(* process (store.go:198-222).                                             *)
(***************************************************************************)
THEOREM TablesNeverRunAhead == ServiceSpec => []TablesFollowRuns
<1>1. SInv => TablesFollowRuns
  BY DEF SInv
<1>2. QED
  BY <1>1, ServiceInvariant, PTL

(***************************************************************************)
(* The final row of a run or a job is not reopened and not altered: a      *)
(* redelivered event writes what is there (store.go:73-74, 104-106,        *)
(* 129-131).  Of steps the code does not keep that.                        *)
(***************************************************************************)
THEOREM FinalRowsStay == ServiceSpec => FinishedRowsStay
<1>1. SInv /\ [ServiceNext]_allVars =>
        [/\ \A r \in Runs : runs[r] \in Final => runs'[r] = runs[r]
         /\ \A k \in JobKeys : jobs[k] \in Final => jobs'[k] = jobs[k]]_allVars
  BY FinalRowsKeep
<1>2. QED
  BY <1>1, ServiceInvariant, PTL DEF ServiceSpec, FinishedRowsStay
=============================================================================
