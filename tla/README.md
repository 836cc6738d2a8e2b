# TLA+ models and proofs of odyssey-core-agent

The agent runs CI pipelines. A client sends a project over gRPC; the server
loads its configuration, runs the stages one after the other and the jobs of
a stage at once, each job in a Docker container of its own, and returns the
verdicts. On the way it publishes life-cycle events to a Redis stream, from
which a recorder in the same process fills a results database.

This directory holds the models of that system, what TLC checks of them and
what TLAPS proves of them. Line numbers refer to the files under `src/`.

## 1. The system

| component | state | operations | talks to |
|---|---|---|---|
| statuses and results (`internal/domain`) | none: values | step status, rank, aggregation of a job's, a stage's and a run's status | everybody |
| Docker runner (`internal/runner/docker.go`) | a job's results so far; the container, its processes, its env file | `Run`: pull, create, copy, start, set up, run the steps, tear down | Docker daemon, event bus |
| orchestrator (`internal/orchestrator`) | the stage loop, one goroutine and one result slot per job, an errgroup context per stage | `Run`, `runStage` | runner, event bus |
| event bus (`internal/bus`, `internal/domain/event.go`) | the Redis stream | `Publish` (XADD with retention) | Redis |
| stream consumer (`internal/consumer`) | in Redis: the group's position and pending entries; in memory: the batch, the claim scan | `Run`: create the group, recover stuck entries, read, handle, acknowledge, dead-letter | Redis, a handler |
| results store (`internal/results`) | tables of runs, jobs, steps | `Record`, one handler per event type | SQLite |
| configuration (`internal/config`) | none | `Load`, `Validate`, `translate`, `mergeEnv` | file system |
| gRPC server (`internal/server`) | none | `RunPipeline`: check the path, load, run, map the result | orchestrator |
| server process (`cmd/server`) | life cycle of the gRPC server and the recorder | start, SIGTERM, drain, exit | all |
| env file parsing (`internal/runner/envfile.go`) | none | `NAME=value` lines to a map | runner |
| command-line clients (`cmd/client`, `cmd/events-logger`) | none | one request; a consumer that prints | server; consumer |
| utilities (`internal/common`) | none | loggers, TOML, tar | everybody |

How they interact. The request's context reaches from the gRPC handler through
the orchestrator and the runner into every Docker call and most publications:
when the client goes away or its deadline passes, any of them may fail between
any two steps. The goroutines of a stage share the context of an errgroup, the
slice of results and the stream. The runner shares the container with
processes it can only watch. The stream decouples the run from the recorder:
an event may be lost on the way in, and is delivered at least once on the way
out.

What is hard there, and what would be wrong:

* **Docker runner.** Cancellation and two deadlines with the same error; a step
  that goes on after its timeout, or closes its output and goes on; answers lost
  with the context; a second result for a step whose env file is gone. It must
  blame the right cause, start no command beside one it should wait for, not leave
  containers behind, announce what it returns, and end when its context does.
* **Orchestrator.** The barrier between stages, fail-fast without disturbing the
  siblings, finished events that outlive the cancellation, and a verdict that no
  unset slot can turn into a pass.
* **Consumer.** Crashes and failures between delivery, handling and
  acknowledgement; two instances claiming from each other; retention under a
  pending entry. No event may be closed without having been handled or kept
  aside, and none may hold up the others.
* **Results store.** Events again, late and out of order, of several runs with
  the same job and step names, and of a job whose steps share a name. A table may miss what happened, but it must not
  claim what did not, nor reopen what is over; and the end of a run must get to
  its row in the end.
* **Server process.** One signal stops the recorder at once and the server only
  after its requests: the events of draining runs wait for the next process.
* **Request.** What `Validate` lets through must run as declared, each job once;
  a textual path check must agree with the directories it is about; a variable
  exported twice must have its latest value; and the statuses of the response
  must be those of a run that ended.
* **Aggregation.** A verdict that depends on the order of its parts.

The hazards are listed one by one, at their lines, in `PROJECT.json`.

## 2. The modules

| module | what it is | code |
|---|---|---|
| `Status` | statuses, step status, ranks, `worstStatus`, the aggregated statuses as operators | `domain/status.go`, `domain/result.go` |
| `VerdictLoop` | the loop the three `Status` methods share, turn by turn | `domain/result.go` 49-54, 86-90, 111-115 |
| `Pipeline` | a validated pipeline: stages and their jobs, as constants with assumptions | `domain/pipeline.go`, what `config` guarantees |
| `StagedRun` | the abstract specification of a run | what `orchestrator.Run` promises |
| `Orchestrator` | the main goroutine and the jobs' goroutines | `orchestrator.go` |
| `DockerRunner` | `Run` and all it calls, container and processes included | `docker.go` |
| `AtLeastOnce` | the abstract specification of a subscription | what `consumer.Run` promises |
| `Consumer` | the instances of a service over one stream and one group | `consumer.go`, `bus.go` |
| `ResultsStore` | the three tables and `Record` | `results/store.go` |
| `Service` | the server process: several runs, the recorder (a `Consumer` that calls `ResultsStore`'s `Record`), signals, crashes | `cmd/server/main.go`, `orchestrator.go`, `docker.go` |
| `Config` | `Validate`, `mergeEnv`, `translate` as operators | `config/loader.go`, `config/models.go` |
| `EnvFile` | the env-file parser as an operator | `runner/envfile.go` |
| `Request` | one `RunPipeline` call, from path to response | `internal/server`, and the two above |
| `MC...` | constants for TLC | |
| `StatusLemmas`, `VerdictLoopProofs`, `DockerRunnerProofs`, `OrchestratorProofs`, `ConsumerProofs`, `ServiceProofs`, `ServiceRowsProofs`, `RequestProofs` | lemmas, theorems and their proofs | |

`Service` composes: it EXTENDS `Consumer` and `ResultsStore`, its stream is the
consumer's, and the handler of the consumer is `Record`. `Request` composes
`Config`, `EnvFile` and `Status`. `Orchestrator` and `DockerRunner` meet in an
interface, not in a composition:
`DockerRunner` shows what verdict a run returns if it returns, Errored if its
context was done from the start (`VerdictHonest`); `Orchestrator` takes any such
verdict, at any time. Of the runner's liveness it assumes that a run *begun* on a
done context returns, which is a case of `CancelledRunReturns`: no command has
been started then that could hold the job.
Operators named `X_Something` under the comment "Seeded fault" are plausible
bugs: each, put in the place of `X`, makes the property it is listed with in
`PROJECT.json` fail.

### DockerRunner

All state is a function of the job, because the jobs of a stage share nothing
but the context and the bus. `pc[j]` names the call `Run` is about to make or
waits in; there is one action per Docker call and per publication, so that
`Cancel` and what the commands do (`ClosesOutput`, `ProcessExits`) come between
any two of them:

    pull -> create -> copy -> start -> setup <-> setupExec
                        |        \        \
                     abandon      `-------- `-> teardown -> returned
    step -> readBefore -> launch -> exec -> classify -> publish -> readAfter -> step
                 \                               \                     \
                  `------------------------------ `-> publishLast <-----'
                                                          `-> teardown

A call succeeds only on a live context; it fails on a done one or, when the
constant-valued variable `dockerFaulty` says so, at any time, and a call that
fails may have had its effect. `mountArchive` also fails for reasons of its own
(no tar, or an empty one) on a live context.

Each command has a state (`proc`), whatever the runner thinks of it. A command may
close its output while it runs (`quiet`). The code reads the output to its end and
then asks for the exit code without looking at whether the command still runs, so a
quiet command counts as ended with 0 (`OutputEnded`, `ExitCode`) and the next one
may start beside it. StdCopy takes no context: whether a done context ends it
depends on whether the Docker client closes the stream, which is not in this
repository. `streamFollows`, chosen once, says so, and all properties hold either
way. `overran` and `mishaps` record what really happened, for the properties only.
Exit codes are reduced to zero and non-zero, output, durations and environment
values are left out; the env file is there or not. `cat` and `:` on the env file
are single steps. `Begin` is the orchestrator's call.

### Orchestrator

`pc` is the main goroutine: `Start`, then per stage `OpenStage`, `Spawn` of each
job and `CloseStage` (`g.Wait()` to the end of the loop's turn), then `Finish`.
`jobPc[j]` is the goroutine of a job: publish started, call the runner, publish
finished, store the result in its slot. Publications carry the context the code
gives them (the run's, the group's, or a detached one).

### Consumer

An entry is its position in the stream. The Redis side (`added`, `trimmed`,
`delivered`, `pending`, `attempts`, `stale`, `dead`) follows the commands the
code sends, with Redis 7's rules for XAUTOCLAIM; `stale` is "idle for MinIdle",
set by the passing of time (`Age`). Each instance has a `pc`, the batch in its
hands and the position of its claim scan. A batch is a set: Redis returns
entries in the order of their ids and the code goes through them in that order,
so `Current`, the oldest, is the one it is at. `Works` and `Fails` are a call's
answer: failing calls, crashes and shutdowns share the bound `MaxTrouble`; on a
cancelled context calls fail for free. A failing XREADGROUP, XAUTOCLAIM, XACK or
XADD may have been carried out. The handler succeeds or fails as it likes.
`successes`, `failures` and `interrupted` record what happened, for the
properties only. The delivery count is kept up to `MaxAttempts + 1`, which is
exact: the code only asks whether it exceeds `MaxAttempts`.

### ResultsStore and Service

`ResultsStore` has the three tables as functions from the key of their UNIQUE
constraint to the row's status, or `None` where there is no row; one operator
per SQL statement form and one per handler of `Record`. `InsertPending` is
INSERT ... ON CONFLICT DO NOTHING, `Update` is UPDATE, which says nothing about
a missing row; `runRow` and `jobRow` are the lookups that do.

In `Service`, `stream[n]` is the event of entry n. The runs publish through
`emit`, on the context the code gives each event: `last[<<r, j>>]` is the last
event job j of run r has published or tried to, `begun` counts the steps it has
begun and `results` keeps the names and statuses in its stepResults; they determine
what it may publish next. `StepsOf` gives a job's step names in order; `Validate`
does not require them to differ, and steps of one name share a row. Stages are left out here (jobs of one run may always overlap, so
more orders happen than in the code); `Orchestrator` has them. `RecorderStep` is
a step of the consumer, with `record` in the place of `handle`. `Idle` replaces
the consumer's `Age`: since only XAUTOCLAIM looks at the idle time, it passes when
the recorder is about to claim. Of two entries delivered equally often the older was
delivered no later, for the group's position and each pass of the claim scan go up
the stream; so the older becomes idle no later. Of entries delivered differently
often nothing follows: one that was claimed again may be behind a younger one. This
is exact as long as a claim scan takes one page (64 entries in the code, all of them
in the instance); an entry that becomes idle between two pages of one scan, behind
the scan, is left out here and belongs to `Consumer`, whose `Age` knows no order. The
process is starting (`startup`: the recorder already listens to SIGTERM, main
does not yet), `serving`, `draining` or `down`; `Terminate`, `Exit`,
`ProcessCrash` and `Start` are its life. A crash ends the runs, and the tables
and the stream survive it.

### Request

A path is the sequence of its components, so that `filepath.Abs`, `Clean` and
`Rel` are what they do to components. `pc` follows the handler: check the path,
read and validate `pipeline.toml`, read `env.toml` and translate, then the steps
of one job of the pipeline (what each is given from the env file), then the
stages' results, any that the runner and the orchestrator may return, and the
response. `Validate` is one operator per check of the code. The two loops, over
the components of a path (`Walked`) and the lines of the env file (`envAfter`),
are functions from a turn to what the loop holds after it.

## 3. What the runs check

| run | instance | states | shows |
|---|---|---|---|
| `verdict_loop` | all statuses | 128 | the aggregation loop computes the worst status, in any order; the fail-fast gate misses no bad part |
| `docker_runner` | 1 job, 2 steps (2nd timed), 1 setup command, 1 command that closes its output early | 390 thousand | verdicts tell the truth, nil error means completion, no command overtakes one that keeps its output open, containers, events match results, termination |
| `orchestrator` | stages {j1, j2}, {j3} | 48 thousand | siblings undisturbed, Passed means all passed, every end recorded, nested stream, refinement of `StagedRun`, cancelled runs end |
| `consumer` | 2 instances, 2 entries (2nd malformed), MaxAttempts 2, one failure | 268 thousand | refinement of `AtLeastOnce`, exact attempts, one outcome, every entry settles |
| `service` | 2 runs of 1 job with 2 steps of one name, 5 entries, MaxAttempts 2, batches of 2, one trouble | 1.04 million | the tables never run ahead of the runs, final rows stay, a row is missing only after trouble and exact without it, every end reaches its row |
| `request` | 8 paths, 3 roots, 15 pipeline files, env files and exports | 5 thousand | the path check is about directories, every job runs once, a step sees the latest values, final statuses, Passed means all passed |
| `abandoned_container`, `two_finished_events`, `lost_finished_event`, `early_dead_letter`, `missing_row`, `redelivered_step` | the same instances (`MaxQuiet` 0 in the first three) | | where the code does not do what its comments and documents say, see section 6 |

Why the bounds are enough. *DockerRunner*: jobs share no state, so one is as
good as many (the proofs do not need the bound); two steps give a step before
and one after every event of a step, one timed and one not; a second setup
command repeats the first. `MaxQuiet` 1 lets any one of the three commands close its
output and go on, next to later ones that do not. *Orchestrator*: two jobs interleave in all ways, and
the second stage shows the barrier and the gate from both sides. *Consumer*:
two instances overtake each other; pages of one entry and two entries make the
claim scan go over several pages; `MaxLen` 1 trims the first entry at any moment
of its life; two attempts make the first delivery, the retry and the exhausted
claim different; one failure at any point breaks every atomicity the code could
have relied on. With more than one failure (MaxTrouble 2, MaxAttempts 1) the
properties hold too, in a run too long to repeat each time. *Service*: two runs
share job and step names, so that a row of the wrong run would show; two steps
of one name are the smallest job whose steps share a row, and a step has two results
when its env file is gone; five entries hold one run up to its first step's second
result or its second step's start, a whole run whose job's set-up fails, or the
beginnings of both runs; a batch of two leaves one entry behind the one that fails. One trouble is
a failing call (with or without its effect), a lost event, a crash, a SIGTERM, a
cancelled run, or an event of another producer: an unknown type, one without a
run id, one with a payload that is no number. Runs begin in the order of their
ids, which are interchangeable. *Request*: the paths are the root, inside, above
and beside it, relative and with dots, a name that begins like the root's and
one that begins with two dots; the pipeline files are one for every check of
`Validate` and three that pass it (two jobs in a stage, two stages declared
against the order of the jobs' names, a step with a timeout); a step exports
nothing, one variable twice, or another after a line without "=".

`service` runs with CHECK_DEADLOCK FALSE as the bounds may use up all that can
happen, and `request` because a request ends.

### Fairness

* DockerRunner: once the context is done, a call to the daemon is given up with it,
  which is the Docker client's side of a context. The wait for a command's output is
  *not* assumed to end so: StdCopy (docker.go:370) has no context, resp.Close is
  deferred until it returns, and the comment at docker.go:241 ("honors its context")
  can only rest on the client library closing the connection. If it does
  (`streamFollows`), the wait ends with the context or the step's deadline; if not,
  only with the output. `CancelledRunReturns` and `TimedStepGetsResult` say what is
  true of both: the run returns, the step gets its result, unless the client does not
  close the stream *and* a command holds its output open for ever. A step's own
  deadline fires. Publications and the removal have deadlines of their own, `cat` and
  `:` end. Nothing is assumed of the commands nor of a call on a live context: both
  may hang, and a job without timeouts may never end.
* Orchestrator: goroutines are scheduled, and a runner called on a context that is
  already done returns. Nothing is assumed of runners that were at work when the
  context ended: `CancelledRunEnds` says that a cancelled run returns once they have.
* Consumer: a goroutine goes on while its process is up (XREADGROUP blocks for
  one second at most), time passes, the handler returns. Nobody has to restart
  anything; `EveryEntrySettles` is stated for as long as one instance stays up.
* Service: the recorder's goroutine and main go on. `Idle` is strongly fair: time
  passes always, but the model lets it pass only at a claim, which the recorder
  comes back to again and again. Nothing is assumed of the runs, of signals or of
  restarts: `EveryEndReachesItsRow` is stated for a recorder that stays up from
  some moment on.

## 4. What is proved

Proofs hold for every value of the constants, under the assumptions the modules
name: a pipeline has at least one stage, a stage at least one job, no job is in
two stages, a job has at least one step (all four from `config`), timed steps
are steps, and the number of setup commands is a number; `MaxAttempts`, the
counts of XREADGROUP and XAUTOCLAIM and MAXLEN are positive; the process has one
recorder, runs are numbered, a job has a non-empty sequence of step names (which
may repeat), `None` is not an event or a status, no other producer reports the end of a run, a job or a step
in a form that `Record` accepts, and none starts one under a run's id, which is a
fresh uuid of this process. `Request` assumes of its inputs what the TOML decoder,
the shell and the file system give: stages are a list of names, jobs a finite map
with lists of steps, a line of the env file is one that does or does not assign,
and the working directory has no "." or "..".

* `StatusLemmas`: the ranks order the statuses linearly, so the worst status
  exists, is unique, can be folded in any order, is bad exactly if a part is bad
  and Passed exactly if all parts are.
* `VerdictLoopProofs`: `LoopCorrect` and `GateCorrect`. The invariant says that
  the accumulator is the worst of what the loop has seen.
* `DockerRunnerProofs`: `TypeCorrect`, `NoOverlapHolds`, `VerdictHonestHolds`,
  `NilErrorHolds`, `LeaksHolds`, `EventsMatchResultsHolds`, for any number of jobs,
  steps and setup commands. None of these is inductive: what `Run` returns at its
  end depends on what it recorded many steps before. `IInv` therefore says of each
  `pc` how the results so far relate to the truth in the container. `Clean(j, n)`: the first n
  results are those of processes that ran to their end, or 0 of quiet ones. `InStep`: all steps
  before the k-th are clean. `OutcomeTrue`: an error of `execCommand` has the
  cause it names, in particular a step deadline really fired. `StepBroken`: all
  but the last result are clean and the last has a cause. `SetupBroken`: no
  result, and a cause. A finished `Run` is in one of three situations
  (SetupBroken, StepBroken, all clean), each of which gives its verdict.
  The proof goes job by job: `UntouchedInv` and `OthersUntouched` dispose of the
  steps of other jobs and of `Cancel` (a context that is done stays done), and
  one lemma per action (`pullImageInv`, ..., `teardownInv`) does the job's own
  steps. `StepInv` puts them together. `SetupGoesOn` and `SetupBreaks` are the
  two ways a part of the set-up can end. For the events, `EventInv` says at each `pc`
  of how many results the stream has been told (`ToldResults`: all but the one that
  is yet to be published) and where their events are in it; `EmitAppends` says what
  a publication does that is not lost.
* `OrchestratorProofs`: `TypeCorrect`, `PassedMeansEveryJobPassedHolds`,
  `SiblingsUndisturbedHolds` and `RefinesStagedRun`, for any number of stages and
  any jobs in them. The response is computed from the stages' results, and each
  of those from slots its goroutines wrote long before; so `IInv` keeps, for every
  closed stage, that all its jobs are done and that its result is the worst of
  their slots (`ClosedInv`), for every goroutine that its slot is what its runner
  returned (`JobInv`), and which jobs have a goroutine at all (`SpawnInv`). A
  goroutine that moves is in the open stage, hence disturbs no closed one
  (`JobMoves`). For the refinement `WorstOfAll` shows that the worst of the
  stages' verdicts is the worst of the jobs', and `SpawnBegins`, `StoreEnds` and
  `FinishEnds` map the three steps that are not stutters.

  `EveryEndRecordedHolds` and `StreamNestedHolds` are about the stream, which the
  verdicts do not depend on, and rest on a second invariant: `LogInv` says of each
  goroutine, by its `jobPc`, which of its two events may be in the stream, and of
  the run that its own come first and last. `EmitLands` says what a publication
  does: an event lands behind all others, or its context was done or the bus is
  faulty. A job whose event lands is in the open stage (`AtWork`), so jobs of
  later stages have published nothing; and when the run publishes its end every
  goroutine has returned (`LoopOverMeansQuiet`).
* `ConsumerProofs`: `TypeCorrect`, `AttemptsAreExact`, `EveryEntryOneOutcome` and
  `RefinesAtLeastOnce`, for any number of instances, entries, attempts and
  failures. `IInv` has four parts beside the types: an instance has a batch
  exactly while it works on it (`BatchInv`); nothing is known of an entry that was
  not delivered (`UnreadInv`); what is about to be acknowledged is settled or
  trimmed (`AckInv`), which is all the refinement needs; and what is true of an
  entry as long as no delivery of it was cut short (`UndisturbedInv`): one
  instance has it at most (`HolderInv`), its number of attempts decides where it
  goes (`RouteInv`) and is the number of its failures, plus one while it is being
  handled (`CountInv`). The last part must except the interrupted entries at every
  step, since an interruption is exactly what breaks it. `Step` is the
  next-state relation without the accounting of failures, and the invariant is
  shown for its steps (`StepKeeps`): the composition below reuses it.
* `ServiceProofs`: `RecorderKeepsThePromise`, `ServiceTypeCorrect`,
  `TablesNeverRunAhead` and `FinalRowsStay`, for any number of runs, jobs and steps
  and any amount of trouble. Each step of the process is a `Step` of its consumer
  (`ServiceIsStep`), which carries `IInv` and the refinement of `AtLeastOnce` over
  to the composition. The tables depend on the runs only through the stream: `SInv`
  therefore adds that an event of the stream reports what has happened
  (`StreamInv`, `Reported`; of a step, that its name and status are among the job's
  results), which stays true because a run does not take back what it has published
  (`ReportedLasts`, on `LastInv`), and a row changes only to
  what an event of the stream reports (`RowsChangeByReports`). In which order and
  how often events are delivered does not enter the argument; that is the point.

* `ServiceRowsProofs`: `NoRowMissesUntroubled` and `UntroubledRowsAreExact`, for any
  number of runs, jobs and steps, any batch size and any trouble elsewhere. Here the
  order matters, of the stream and of the recorder. `OwnInv` and `OrderInv`: what a
  run has in the stream reports things it has begun, and the start of a run's or a
  job's row comes before all that needs the row (a step's row may be started again by
  a later step of its name). `BatchOrder`: the recorder hands an entry that never
  ran into trouble over at its first delivery only, and when it does, no younger entry
  has been handled. `ClosedInv`, which is the promise of `AtLeastOnce`, then says that
  every older such entry has been handled as well (`OlderHandled`): an entry the group
  is done with was settled, and trouble is the only other way to settle. `RowInv` and
  `ForeignInv` follow the rows: a start that was handled has its row, rows are never
  removed, and no event of another producer touches them. `ExactInv` says what each
  row holds as long as none of its entries ran into trouble: nothing, pending, or the
  status of the last end that was handled (`ExactHandled` for the row that is written,
  `ExactElsewhere` for the others).
* `RequestProofs`: `AllowedAlwaysIffUnderRoot`, `EveryJobIsRunOnce`,
  `StepAlwaysSeesLatest`, `ResponseIsAlwaysFinal`, `PassedResponseIsPassedRun` and
  `RequestTypesHold`, for any roots, paths, working directory, pipeline and env
  files, exports and results. `IInv` carries along what the answer was computed from:
  the check's verdict on the path (`PathInv`), that the pipeline is the translation of
  a file `Validate` accepted (`PipelineInv`), that the followed job is one of it and
  its step was given the parsed file (`JobInv`), and that the results are those of the
  pipeline's first stages (`ResultInv`). The rest is about the operators. `ClimbsOutIff`:
  between clean paths, `filepath.Rel` begins with ".." exactly if the one is no prefix
  of the other, and `Abs` returns clean paths (`WalkedClean`). `SortedEnumerates`: a
  finite set of keys has an increasing enumeration. `ParsedLatest`: the parsed file has
  of each variable its last assignment. `StageForm`, `JobFinal`, `StageFinal` and
  `RunFinal`: as each stage has a job and each job a step, no status is pending.
  Where a fact needs an induction (over a path, a file, a set of keys) it is proved
  from a smallest counterexample (`Smallest`), and that the loops are well defined
  is `LoopExists`.

Only model-checked: liveness (`CancelledRunReturns`, `TimedStepGetsResult`,
`CancelledRunEnds`, `EveryEntrySettles`, `EveryEndReachesItsRow`: fairness is outside
the prover), and with it the progress half of `ImplementsStagedRun`. Every invariant of
a passing run is a theorem.

## 5. What is not modelled, and the plan

Left out for good: generated code, the command-line clients (a single call, and
a consumer whose handler prints), logging, the parsing of TOML and JSON, building
tar archives, durations and output, symbolic links (the path check is lexical in
the code, too), and the steps of `main` that end the process before it serves.
The contents of the environment are in `Request` only. What a command's
shell leaves behind in the background is not followed: a command is its `sh -c`. That
`cat` and `:` end by themselves is assumed, as is that ExecInspect reports no exit code
(read as 0) for a command that still runs. A failing `ensureGroup` ends the recorder
for the life of the process (consumer.go:109); it is a step of the model, and the
liveness properties are about recorders that stay up.

Modelled, and worth knowing:

* A command that closes its output while it runs (`exec >log 2>&1; make`) is taken for
  one that exited with 0, and the next one starts beside it (docker.go:370-381).
  `NoOverlap`, `VerdictHonest` and `NilErrorMeansEveryStepRan` except it by name.
* Steps of one name share a row of the results database (models.go:79-89,
  UNIQUE (job_id, name)): it is final while the second of them runs.
  `TablesFollowRuns` says of a step's row what is true then: its status is that of *a*
  result of that name.
* `pipeline.started` of a run whose context is done before it is lost while
  `pipeline.finished` lands; the recorder drops that end silently. `StreamNested` and
  the recorder's properties leave runs without a start in the stream alone.

What could come next:

1. `Engine`: `Orchestrator` and `DockerRunner` composed, the runner's interface
   replaced by the runner, to check the events of the whole run in one stream;
   `Service` has their order, but not their contexts in detail.
2. The other half of what `SmoothRowsAreExact` leaves open: what a row holds after a
   late delivery of an older event of its own.

## 6. Findings

Each is a violation run with one property.

* `abandoned_container`: when the run is cancelled between creating a container and
  filling it, `createContainer` removes the container on the cancelled
  context (docker.go:165), which cannot work; the container stays, against
  README.md:146 and docker.go:87.
* `two_finished_events`: when the env file cannot be read after a step, the step
  gets a second result and a second, contradictory finished event
  (docker.go:286), against docker_test.go:35.
* `lost_finished_event`: the finished event of the step in flight is published on
  the cancelled context (docker.go:263) and lost, against CHANGELOG.md:29.
* `early_dead_letter`: a claim counts as an attempt before the handler is called
  (consumer.go:197); an entry is dead-lettered after fewer failures than
  `MaxAttempts`, against consumer.go:195. `AttemptsExact` shows what is true: the
  count is exact for entries no delivery of which was cut short.
* `missing_row`: when recording `pipeline.started` fails once, its retry comes after
  the younger events of the run, which find no row (in the run's trace it is
  `job.started`); a `pipeline.finished` among them would be dropped without an error
  (store.go:113-121) and the run stay pending, against store.go:199-200.
  `RowsMissOnlyAfterTrouble` shows what is true: unless that very event ran into
  trouble or was trimmed, no row is missing.
* `redelivered_step`: a `step.finished` whose ack was lost is delivered again after a
  later result for the same row, and puts the older status back (store.go:189-191),
  against store.go:72-73. `FinishedRowsStay` shows what is true of runs and jobs, and
  `SmoothRowsAreExact` of steps whose events were all handled at the first delivery.

## 7. Running

    tlc -config Consumer.cfg MCConsumer      # or any other run of PROJECT.json
    tlapm DockerRunnerProofs.tla              # or any other ...Proofs module
