------------------------------ MODULE Service ------------------------------
(***************************************************************************)
(* The server process (cmd/server/main.go) with what runs in it: pipeline  *)
(* runs that publish their events (orchestrator.go, docker.go), and the    *)
(* results recorder, a Consumer whose handler is the store's Record.       *)
(*                                                                         *)
(* Runs, jobs and the recorder share the process: a crash ends them all, a *)
(* SIGTERM cancels the recorder at once and lets the runs end first.  What *)
(* outlives the process is in Redis and in the tables.                     *)
(***************************************************************************)
EXTENDS Consumer, ResultsStore, Status

CONSTANTS
    NumRuns,        \* bound: runs ever begun, named in that order
    recorder,       \* the process's consumer (ADR 0002: one writer)
    StepsOf,        \* the names of a job's steps, in order
    ForeignEvents   \* events other producers may put on the stream

Ends == {"pipeline.finished", "job.finished", "step.finished"}

\* The statuses of what has ended.
Ended == {"passed", "failed", "errored"}

\* The envelopes of this process's runs.
Events ==
    [type : EventTypes, run : Runs, job : Jobs \cup {None}, step : Steps \cup {None},
     status : Statuses \cup {None}, numbers : BOOLEAN]

\* Other producers may put anything on the stream but the end of something.
\* Validate asks no more of a job's steps than to be there: two may share a name.
ASSUME ServiceAssumption ==
    /\ Instances = {recorder}
    /\ NumRuns \in Nat \ {0} /\ Runs = 1..NumRuns
    /\ \A j \in Jobs : StepsOf[j] \in Seq(Steps) /\ StepsOf[j] # <<>>
    /\ None \notin Events /\ None \notin Statuses
    /\ \A e \in ForeignEvents : e.type \in Ends => e.type = "step.finished" /\ ~e.numbers

\* A run's id is a fresh uuid of this process: no other producer's start event
\* carries one.
ASSUME ForeignAssumption ==
    \A e \in ForeignEvents :
        e.type \in {"pipeline.started", "job.started", "step.started"} => e.run \notin Runs

VARIABLES
    stream,     \* the event of each entry
    rpc,        \* a run's request: new, running, over
    cancelled,  \* runs whose context is done: the client went away
    last,       \* the last event a job has published, or tried to
    begun,      \* how many of its steps a job has begun
    results,    \* the names and statuses in a job's stepResults
    process     \* down, startup, serving or draining

jobVars == <<last, begun, results>>
runVars == <<rpc, cancelled, jobVars>>
allVars == <<vars, tables, stream, runVars, process>>

ServiceInit ==
    /\ Init
    /\ StoreInit
    /\ stream = <<>>
    /\ rpc = [r \in Runs |-> "new"]
    /\ cancelled = {}
    /\ last = [k \in JobKeys |-> None]
    /\ begun = [k \in JobKeys |-> 0]
    /\ results = [k \in JobKeys |-> {}]
    /\ process = "startup"

-----------------------------------------------------------------------------
(* The runs.                                                               *)

Event(type, r, j, s, status) ==
    [type |-> type, run |-> r, job |-> j, step |-> s, status |-> status,
     numbers |-> TRUE]

\* Published on a context that does not end with the request's.
Detached == {"job.finished", "pipeline.finished"}

\* Seeded fault: one sink for all runs, with the first one's id.
stamp_Shared(e) ==
    IF e.step = None THEN e ELSE [e EXCEPT !.run = 1]

\* The envelope carries the id of the run it comes from.
stamp(e) == e

\* What this process publishes parses.
Land(e) ==
    /\ added + 1 \notin Malformed
    /\ Publish
    /\ stream' = Append(stream, stamp(e))

\* The event is lost, with the run's context or with Redis.
Lose(e) ==
    /\ IF e.run \in cancelled /\ e.type \notin Detached THEN UNCHANGED trouble ELSE Trouble
    /\ UNCHANGED <<streamVars, groupVars, dead, pc, ctxDone, localVars,
                   historyVars, interrupted, stream>>

emit(e) ==
    /\ \/ (e.run \notin cancelled \/ e.type \in Detached) /\ Land(e)
       \/ Lose(e)
    /\ UNCHANGED <<tables, cancelled, process>>

Job(r, j) == last[<<r, j>>]

InJob(r, j) == rpc[r] = "running" /\ Job(r, j) # None

emitInJob(e) ==
    /\ emit(e)
    /\ last' = [last EXCEPT ![<<e.run, e.job>>] = e]
    /\ UNCHANGED rpc

\* The step the job's loop is at has had its result.
StepDone(r, j) == Job(r, j).type = "step.finished"

\* RunPipeline calls Run; a server that drains accepts no request.
PipelineStarted(r) ==
    /\ rpc[r] = "new" /\ \A q \in 1..(r - 1) : rpc[q] # "new"
    /\ process \in {"startup", "serving"}
    /\ emit(Event("pipeline.started", r, None, None, None))
    /\ rpc' = [rpc EXCEPT ![r] = "running"]
    /\ UNCHANGED jobVars

JobStarted(r, j) ==
    /\ rpc[r] = "running" /\ Job(r, j) = None
    /\ emitInJob(Event("job.started", r, j, None, None))
    /\ UNCHANGED <<begun, results>>

\* The first step, or the one after a step whose command ended, with whatever
\* exit code.
StepStarted(r, j) ==
    LET k == <<r, j>> IN
    /\ InJob(r, j) /\ begun[k] < Len(StepsOf[j])
    /\ Job(r, j).type = "job.started" \/ (StepDone(r, j) /\ Job(r, j).status # "errored")
    /\ emitInJob(Event("step.started", r, j, StepsOf[j][begun[k] + 1], None))
    /\ begun' = [begun EXCEPT ![k] = @ + 1]
    /\ UNCHANGED results

\* The step's result; a second one when the env file cannot be read after it.
StepFinished(r, j, status) ==
    LET k == <<r, j>>
        name == StepsOf[j][begun[k]]
    IN  /\ InJob(r, j)
        /\ \/ Job(r, j).type = "step.started"
           \/ StepDone(r, j) /\ Job(r, j).status # "errored" /\ status = "errored"
        /\ emitInJob(Event("step.finished", r, j, name, status))
        /\ results' = [results EXCEPT ![k] = @ \cup {[step |-> name, status |-> status]}]
        /\ UNCHANGED begun

\* JobResult.Status; a job without a result is one whose set-up failed.
JobVerdict(k) ==
    IF results[k] = {} THEN "errored" ELSE AggregateStatus({res.status : res \in results[k]})

\* After all steps, a time-out (failed), a fault (errored) or a failed set-up.
JobFinished(r, j) ==
    /\ InJob(r, j)
    /\ \/ Job(r, j).type = "job.started"
       \/ StepDone(r, j) /\ (Job(r, j).status # "passed" \/ begun[<<r, j>>] = Len(StepsOf[j]))
    /\ emitInJob(Event("job.finished", r, j, None, JobVerdict(<<r, j>>)))
    /\ UNCHANGED <<begun, results>>

RunVerdict(r) == AggregateStatus({Job(r, j).status : j \in {i \in Jobs : Job(r, i) # None}})

PipelineFinished(r) ==
    /\ rpc[r] = "running"
    /\ \E j \in Jobs : Job(r, j) # None
    /\ \A j \in Jobs : Job(r, j) # None => Job(r, j).type = "job.finished"
    /\ emit(Event("pipeline.finished", r, None, None, RunVerdict(r)))
    /\ rpc' = [rpc EXCEPT ![r] = "over"]
    /\ UNCHANGED jobVars

\* The client goes away, or its deadline passes.
Cancel(r) ==
    /\ rpc[r] # "over" /\ \A q \in 1..(r - 1) : rpc[q] # "new"
    /\ r \notin cancelled /\ process # "down"
    /\ Trouble
    /\ cancelled' = cancelled \cup {r}
    /\ UNCHANGED <<streamVars, groupVars, dead, pc, ctxDone, localVars, historyVars,
                   interrupted, tables, stream, rpc, jobVars, process>>

RunSteps(r) ==
    \/ PipelineStarted(r) \/ PipelineFinished(r) \/ Cancel(r)
    \/ \E j \in Jobs :
          \/ JobStarted(r, j) \/ StepStarted(r, j) \/ JobFinished(r, j)
          \/ \E status \in Ended : StepFinished(r, j, status)

\* Another producer's event; counted as trouble to bound them.
Foreign(e) ==
    /\ added < NumEntries /\ added' = added + 1
    /\ stream' = Append(stream, e)
    /\ Trouble
    /\ UNCHANGED <<trimmed, groupVars, dead, pc, ctxDone, localVars, historyVars,
                   interrupted, tables, runVars, process>>

-----------------------------------------------------------------------------
(* The recorder: a Consumer that calls Record.                             *)

\* Record fails without an effect, or with one: only its answer is lost.
recordFails(e) ==
    \/ \E ok \in BOOLEAN : Record(e, ok)
    \/ UNCHANGED tables

record ==
    LET e == stream[Current(recorder)] IN
    /\ pc[recorder] = "handle"
    /\ \/ \E ok \in BOOLEAN :
             Works(recorder) /\ Record(e, ok) /\ handlerReturns(recorder, ok)
       \/ Fails(recorder) /\ recordFails(e) /\ handlerReturns(recorder, FALSE)

\* The steps of Run that do not call the handler.
consume ==
    /\ \/ ensureGroup(recorder) \/ loopHead(recorder) \/ readNew(recorder)
       \/ backoff(recorder) \/ recoverStuck(recorder) \/ recoverOne(recorder)
       \/ parseFails(recorder) \/ acknowledge(recorder)
       \/ deadLetter(recorder) \/ deadLetterEntry(recorder)
    /\ UNCHANGED tables

RecorderStep ==
    /\ consume \/ record
    /\ UNCHANGED <<stream, runVars, process>>

\* MinIdle passes since a pending entry was last delivered.  Of two delivered
\* equally often the older was so no later, if a scan takes one page (as with
\* ClaimCount >= NumEntries); one claimed again may be behind.
Idle(e) ==
    /\ pc[recorder] = "claim"
    /\ e \in pending \ stale
    /\ stale' = stale \cup {f \in pending : f <= e /\ attempts[f] = attempts[e]}
    /\ UNCHANGED <<streamVars, delivered, pending, attempts, dead, pc, ctxDone, localVars,
                   trouble, historyVars, interrupted, tables, stream, runVars, process>>

-----------------------------------------------------------------------------
(* The process.                                                            *)

\* main's goroutine asks for the signals too, once main is about to serve.
Notify ==
    /\ process = "startup"
    /\ process' = "serving"
    /\ UNCHANGED <<vars, tables, stream, runVars>>

(***************************************************************************)
(* SIGTERM.  The recorder's context takes it from the start, main only     *)
(* from Notify on: before that, the server goes on without its recorder.   *)
(***************************************************************************)
Terminate ==
    /\ process # "down" /\ ~(process = "draining" /\ ctxDone[recorder])
    /\ IF pc[recorder] = "returned" THEN UNCHANGED trouble ELSE Trouble
    /\ ctxDone' = [ctxDone EXCEPT ![recorder] = TRUE]
    /\ process' = IF process = "serving" THEN "draining" ELSE process
    /\ UNCHANGED <<streamVars, groupVars, dead, pc, localVars, historyVars,
                   interrupted, tables, stream, runVars>>

ProcessEnds ==
    /\ Die(recorder)
    /\ process' = "down"
    /\ rpc' = [r \in Runs |-> IF rpc[r] = "running" THEN "over" ELSE rpc[r]]
    /\ UNCHANGED <<tables, stream, cancelled, jobVars>>

Drained == \A r \in Runs : rpc[r] # "running"

\* GracefulStop returns when the requests are done; nobody waits for Run.
Exit == process = "draining" /\ Drained /\ UNCHANGED trouble /\ ProcessEnds

ProcessCrash == Trouble /\ ProcessEnds

Start ==
    /\ process = "down"
    /\ Restart(recorder)
    /\ process' = "startup"
    /\ UNCHANGED <<tables, stream, runVars>>

ServiceNext ==
    \/ \E r \in Runs : RunSteps(r)
    \/ \E e \in ForeignEvents : Foreign(e)
    \/ RecorderStep
    \/ \E e \in Entries : Idle(e)
    \/ Notify \/ Terminate \/ Exit \/ ProcessCrash \/ Start

(***************************************************************************)
(* The recorder's goroutine and main go on.  Nothing is assumed of the     *)
(* runs, which may hang, nor of signals and restarts.                      *)
(***************************************************************************)
ServiceFairness ==
    /\ WF_allVars(RecorderStep)
    /\ SF_allVars(\E e \in Entries : Idle(e))
    /\ WF_allVars(Notify) /\ WF_allVars(Exit)

ServiceSpec == ServiceInit /\ [][ServiceNext]_allVars /\ ServiceFairness

-----------------------------------------------------------------------------
(* Properties.                                                             *)

RowStatuses == {None, "pending", "passed", "failed", "errored"}

(***************************************************************************)
(* Every variable has its type, and the stream knows each entry's event.   *)
(***************************************************************************)
ServiceTypeOK ==
    /\ TypeOK
    /\ stream \in Seq(Events \cup ForeignEvents) /\ Len(stream) = added
    /\ runs \in [Runs -> RowStatuses]
    /\ jobs \in [JobKeys -> RowStatuses]
    /\ steps \in [StepKeys -> RowStatuses]
    /\ rpc \in [Runs -> {"new", "running", "over"}]
    /\ cancelled \subseteq Runs
    /\ last \in [JobKeys -> Events \cup {None}]
    /\ begun \in [JobKeys -> Nat] /\ \A k \in JobKeys : begun[k] <= Len(StepsOf[k[2]])
    /\ results \in [JobKeys -> SUBSET [step : Steps, status : Ended]]
    /\ process \in {"down", "startup", "serving", "draining"}
    /\ process = "down" <=> pc[recorder] = "down"

Final == RowStatuses \ {None, "pending"}

Over(r, j) == Job(r, j) # None /\ Job(r, j).type = "job.finished"

(***************************************************************************)
(* The tables never run ahead of the runs nor mix them up: a run's or a    *)
(* job's row is final only when that run, that job of that run is over,    *)
(* and with its status; a step's row only when a step of that name of that *)
(* job has had a result, and with the status of such a result, whatever is *)
(* delivered late, twice or to a restarted process (orchestrator.go:70-76, *)
(* store.go:198-222).                                                      *)
(***************************************************************************)
TablesFollowRuns ==
    /\ \A r \in Runs : runs[r] \in Final => rpc[r] = "over" /\ runs[r] = RunVerdict(r)
    /\ \A r \in Runs, j \in Jobs :
          jobs[<<r, j>>] \in Final => Over(r, j) /\ jobs[<<r, j>>] = Job(r, j).status
    /\ \A r \in Runs, j \in Jobs, s \in Steps :
          steps[<<r, j, s>>] \in Final =>
              [step |-> s, status |-> steps[<<r, j, s>>]] \in results[<<r, j>>]

(***************************************************************************)
(* The final row of a run or a job stays as it is: it is not reopened by a *)
(* start delivered again nor altered by an end (store.go:73-74, 104-106,   *)
(* 129-131).  The rows of steps do not: see RedeliveredEventsAreNoOps.     *)
(***************************************************************************)
FinishedRowsStay ==
    [][/\ \A r \in Runs : runs[r] \in Final => runs'[r] = runs[r]
       /\ \A k \in JobKeys : jobs[k] \in Final => jobs'[k] = jobs[k]]_allVars

-----------------------------------------------------------------------------
(* The rows an event needs.                                                *)

Level(e) ==
    CASE e.type \in {"pipeline.started", "pipeline.finished"} -> "pipeline"
      [] e.type \in {"job.started", "job.finished"} -> "job"
      [] e.type \in {"step.started", "step.finished"} -> "step"
      [] OTHER -> "none"

IsStart(e) == e.type \in {"pipeline.started", "job.started", "step.started"}
IsEnd(e) == e.type \in Ends

Parents(e) ==
    CASE Level(e) = "job" -> {"pipeline"}
      [] Level(e) = "step" -> {"pipeline", "job"}
      [] OTHER -> {}

\* The levels of the rows that must be there for the event to be recorded.
Needs(e) == Parents(e) \cup (IF IsEnd(e) THEN {Level(e)} ELSE {})

Row(level, e) ==
    CASE level = "pipeline" -> runs[e.run]
      [] level = "job" -> jobs[<<e.run, e.job>>]
      [] level = "step" -> steps[<<e.run, e.job, e.step>>]

\* The entries about the same row of that level as e.
About(level, e) ==
    {n \in 1..added :
        /\ Level(stream[n]) = level /\ stream[n].run = e.run
        /\ level # "pipeline" => stream[n].job = e.job
        /\ level = "step" => stream[n].step = e.step}

Starts(level, e) == {n \in About(level, e) : IsStart(stream[n])}

\* No delivery of the entry has failed or been cut short so far.
Smooth(n) == n \notin interrupted /\ failures[n] = 0

(***************************************************************************)
(* The recorder misses a row only if the event that creates it was lost on *)
(* the way to the stream or trimmed from it, or a delivery of that event   *)
(* has failed or been cut short: runs that publish at once, batches,       *)
(* retries of other events and restarts do not bring it about              *)
(* (store.go:198-200).  A start further on can only be that of a later     *)
(* step of the same name.                                                  *)
(***************************************************************************)
RowsMissOnlyAfterTrouble ==
    pc[recorder] = "handle" =>
        LET e == stream[Current(recorder)] IN
        e \notin ForeignEvents =>
            \A level \in Needs(e) :
                Row(level, e) = None =>
                    \A n \in Starts(level, e) :
                        \/ ~Smooth(n) \/ n <= trimmed
                        \/ level = "step" /\ n > Current(recorder)

(***************************************************************************)
(* A row whose own events were all handled at their first delivery holds   *)
(* the last of them, whatever happened to other rows and in between: of    *)
(* two results of a step, or of two steps of one name, the later one wins  *)
(* (docker.go:284-293, store.go:189).  An end before the row's first start *)
(* is one whose own start was lost; it leaves no trace.                    *)
(***************************************************************************)
SmoothRowsAreExact ==
    \A n \in 1..added : stream[n] \notin ForeignEvents =>
        LET e == stream[n]
            own == About(Level(e), e)
            starts == Starts(Level(e), e)
            ends == {m \in own : IsEnd(stream[m]) /\ \E s \in starts : s < m}
        IN  (/\ starts # {}
             /\ \A m \in own : Smooth(m) /\ successes[m] = 1)
            => Row(Level(e), e) = IF ends = {} THEN "pending" ELSE stream[Last(ends)].status

\* The entry is the end of a run, a job or a step.
EndLanded(n) ==
    n <= added /\ IsEnd(stream[n]) /\ stream[n] \notin ForeignEvents

EndSettled(n) ==
    /\ EndLanded(n)
    /\ LET e == stream[n] IN
       \/ n \in dead
       \/ Row(Level(e), e) \in Final
       \/ \A m \in Starts(Level(e), e) : ~Smooth(m) \/ n < m

RecorderStaysUp ==
    <>[](pc[recorder] \notin {"down", "returned"} /\ ~ctxDone[recorder])

(***************************************************************************)
(* Once a process stays up with its recorder, the end of every run, job    *)
(* and step that reached the stream reaches its row, or the dead-letter    *)
(* stream: also what was published while the last process drained without  *)
(* its recorder, and what failed with it.  The exception is a row whose    *)
(* own start event was lost or ran into trouble: its end may be handled    *)
(* first, and is then dropped without an error (store.go:113-121).         *)
(***************************************************************************)
EveryEndReachesItsRow ==
    RecorderStaysUp => []<>(\A n \in Entries : EndLanded(n) => EndSettled(n))

-----------------------------------------------------------------------------
(* What a comment says beyond that.                                        *)

(***************************************************************************)
(* store.go:199: "stream order (ADR 0002) guarantees pipeline.started      *)
(* arrives first, so a missing row means corruption, not a race".          *)
(***************************************************************************)
MissingRowMeansCorruption ==
    pc[recorder] = "handle" =>
        LET e == stream[Current(recorder)] IN
        e \notin ForeignEvents /\ "pipeline" \in Needs(e) /\ Row("pipeline", e) = None =>
            Starts("pipeline", e) = {}

(***************************************************************************)
(* store.go:72: "Redelivered events are no-ops": Record changes nothing    *)
(* for an event it has accepted before.                                    *)
(***************************************************************************)
RedeliveredEventsAreNoOps ==
    [][pc[recorder] = "handle" /\ successes[Current(recorder)] > 0 => UNCHANGED tables]_allVars
=============================================================================
