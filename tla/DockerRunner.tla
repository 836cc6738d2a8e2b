---------------------------- MODULE DockerRunner ----------------------------
(***************************************************************************)
(* DockerRunner.Run (internal/runner/docker.go): one job in one container, *)
(* from the image pull to the teardown, under the context of its run.      *)
(*                                                                         *)
(* Every call to the Docker daemon and every event publication is a step   *)
(* of its own, so that the run's context can end (Cancel) and the commands *)
(* in the container can act (ClosesOutput, ProcessExits) between any two.  *)
(*                                                                         *)
(* The jobs of a stage share nothing but the run's context and the bus:    *)
(* all state is a function of the job.                                     *)
(***************************************************************************)
EXTENDS Status, FiniteSets

CONSTANTS
    Jobs,       \* the jobs, each run by one goroutine of the orchestrator
    NumSteps,   \* steps of a job; config.Validate rejects a job without any
    Timed,      \* the steps whose Timeout is set (Step.Timeout > 0)
    NumSetup,   \* setup commands of a job
    MaxQuiet    \* bound: commands of a job that close their output early

ASSUME NumStepsAssumption == NumSteps \in Nat \ {0}
ASSUME TimedAssumption == Timed \subseteq 1..NumSteps
ASSUME NumSetupAssumption == NumSetup \in Nat
ASSUME MaxQuietAssumption == MaxQuiet \in Nat

\* The commands of a job, in the order they are run: its setup commands,
\* numbered up to 0, then its steps.
Commands == (1 - NumSetup)..NumSteps

VARIABLES
    \* The environment.
    dockerFaulty,   \* Docker calls may fail although their context is live
    streamFollows,  \* the Docker client closes an attached stream with its context
    busFaulty,      \* publications may fail although their context is live
    ctxErr,         \* ctx.Err() of the run: "none", "canceled", "deadline"
    \* DockerRunner.Run, per job.
    pc,             \* the call Run is about to make, or the one it waits in
    k,              \* steps begun: the loop of runSteps is in its k-th turn
    setupLeft,      \* setup commands not yet run
    out,            \* what the last execCommand of a step returned
    results,        \* jobResult.StepResults
    setupErr,       \* jobResult.SetupErr # nil
    runErr,         \* Run returns an error
    \* The daemon and the container, per job.
    container,      \* "none", "created", "running" or "removed"
    deferred,       \* Run holds the container's id and will tear it down
    proc,           \* each command: unrun, running, its exit code, or killed
    quiet,          \* commands that closed their output before they ended
    envFile,        \* the env file exists in the container
    \* What really happened, whatever the runner says of it.
    overran,        \* steps whose own deadline fired
    mishaps,        \* "archive": the tar could not be made; "envFile": the file
                    \* was missing when it was read
    \* The event stream, per job.
    log,            \* the job's step events that landed, in order
    lost            \* some publication failed

envVars     == <<dockerFaulty, streamFollows, busFaulty, ctxErr>>
resultVars  == <<out, results, setupErr, runErr>>
truth       == <<overran, mishaps>>
busVars     == <<log, lost>>
progress    == <<k, setupLeft>>
boxVars     == <<container, deferred, proc, quiet, envFile>>
vars == <<envVars, pc, progress, resultVars, boxVars, truth, busVars>>

Labels ==
    {"idle", "pull", "create", "copy", "abandon", "start", "setup",
     "setupExec", "step", "readBefore", "launch", "exec", "classify",
     "publish", "publishLast", "readAfter", "teardown", "returned"}

Outcomes == {"zero", "nonzero", "stepDeadline", "ctxDone", "fault"}

Event == [type : {"step.started", "step.finished"}, step : Nat, status : Statuses]

Init ==
    /\ dockerFaulty \in BOOLEAN
    /\ streamFollows \in BOOLEAN
    /\ busFaulty \in BOOLEAN
    /\ ctxErr = "none"
    /\ pc = [j \in Jobs |-> "idle"]
    /\ k = [j \in Jobs |-> 0]
    /\ setupLeft = [j \in Jobs |-> NumSetup]
    /\ out = [j \in Jobs |-> "zero"]
    /\ results = [j \in Jobs |-> <<>>]
    /\ setupErr = [j \in Jobs |-> FALSE]
    /\ runErr = [j \in Jobs |-> FALSE]
    /\ container = [j \in Jobs |-> "none"]
    /\ deferred = [j \in Jobs |-> FALSE]
    /\ proc = [j \in Jobs |-> [c \in Commands |-> "unrun"]]
    /\ quiet = [j \in Jobs |-> {}]
    /\ envFile = [j \in Jobs |-> FALSE]
    /\ overran = [j \in Jobs |-> {}]
    /\ mishaps = [j \in Jobs |-> {}]
    /\ log = [j \in Jobs |-> <<>>]
    /\ lost = [j \in Jobs |-> FALSE]

-----------------------------------------------------------------------------
(***************************************************************************)
(* A call under the run's context succeeds only while the context is live; *)
(* it fails once the context is done, or on a fault of the daemon.  When   *)
(* it fails the daemon may have carried it out all the same: only the      *)
(* answer is lost.                                                         *)
(***************************************************************************)
CallSucceeds == ctxErr = "none"
CallFails == ctxErr # "none" \/ dockerFaulty

Goto(j, label) == pc' = [pc EXCEPT ![j] = label]

\* `jobResult.SetupErr = err; return jobResult, err`
SetupFails(j, label) ==
    /\ Goto(j, label)
    /\ setupErr' = [setupErr EXCEPT ![j] = TRUE]
    /\ runErr' = [runErr EXCEPT ![j] = TRUE]
    /\ UNCHANGED <<out, results>>

Record(j, exit, err) ==
    results' = [results EXCEPT ![j] =
        Append(@, [step |-> k[j], exit |-> exit, err |-> err])]

\* Seeded fault: the error is dropped on the way out.
StepsFail_Swallowed(j) == UNCHANGED runErr

\* `return stepResults, err` of runSteps.
StepsFail(j) == runErr' = [runErr EXCEPT ![j] = TRUE]

(***************************************************************************)
(* emitStep: a failed publication is logged and nothing else.  Publishing  *)
(* on a done context fails.                                                *)
(***************************************************************************)
emitStep(j, event) ==
    \/ /\ ctxErr = "none"
       /\ log' = [log EXCEPT ![j] = Append(@, event)]
       /\ UNCHANGED lost
    \/ /\ ctxErr # "none" \/ busFaulty
       /\ lost' = [lost EXCEPT ![j] = TRUE]
       /\ UNCHANGED log

-----------------------------------------------------------------------------
(* The environment.                                                        *)

\* The orchestrator's goroutine calls Run; it does so on a done context too.
Begin(j) ==
    /\ pc[j] = "idle"
    /\ Goto(j, "pull")
    /\ UNCHANGED <<envVars, progress, resultVars, boxVars, truth, busVars>>

\* The client goes away ("canceled") or its deadline passes ("deadline").
Cancel ==
    /\ ctxErr = "none"
    /\ ctxErr' \in {"canceled", "deadline"}
    /\ UNCHANGED <<dockerFaulty, streamFollows, busFaulty, pc, progress, resultVars, boxVars, truth, busVars>>

-----------------------------------------------------------------------------
(***************************************************************************)
(* The commands in the container.  A command is its shell, `sh -c`; what   *)
(* the shell may leave behind in the background is not followed.           *)
(***************************************************************************)

\* The command whose turn it is.
Current(j) == IF k[j] > 0 THEN k[j] ELSE 1 - setupLeft[j]

Becomes(j, c, state) == proc' = [proc EXCEPT ![j] = [@ EXCEPT ![c] = state]]

\* A command redirects its output and goes on: `exec >log 2>&1; make`.  It
\* matters only while Run reads that output.
ClosesOutput(j, c) ==
    /\ proc[j][c] = "running" /\ c = Current(j) /\ pc[j] \in {"setupExec", "exec"}
    /\ Cardinality(quiet[j]) < MaxQuiet
    /\ quiet' = [quiet EXCEPT ![j] = @ \cup {c}]
    /\ UNCHANGED <<envVars, pc, progress, resultVars, container, deferred, proc,
                   envFile, truth, busVars>>

\* A command ends, whether or not the runner still waits for it.  It may have
\* created or deleted the env file by then.
ProcessExits(j, c) ==
    /\ proc[j][c] = "running"
    /\ \E exit \in {"zero", "nonzero"} : Becomes(j, c, exit)
    /\ \E present \in BOOLEAN : envFile' = [envFile EXCEPT ![j] = present]
    /\ UNCHANGED <<envVars, pc, progress, resultVars, container, deferred, quiet,
                   truth, busVars>>

CommandActs(j) == \E c \in Commands : ClosesOutput(j, c) \/ ProcessExits(j, c)

\* Seeded fault: the exec is inspected until it no longer runs.
OutputEnded_WaitsForExit(j) == proc[j][Current(j)] # "running"

\* What StdCopy waits for.  ExecInspect's Running is not looked at.
OutputEnded(j) == proc[j][Current(j)] # "running" \/ Current(j) \in quiet[j]

\* ExecInspect's exit code; of a command that still runs there is none, which
\* the client reads as 0.
ExitCode(j) == IF proc[j][Current(j)] = "nonzero" THEN "nonzero" ELSE "zero"

\* StdCopy takes no context.  Whether a context that is done ends it is up to
\* the Docker client, which is not part of the repository: both may be.
WaitEnds(j) == OutputEnded(j) \/ streamFollows

-----------------------------------------------------------------------------
(* Before the steps.                                                       *)

pullImage(j) ==
    /\ pc[j] = "pull"
    /\ \/ CallSucceeds /\ Goto(j, "create") /\ UNCHANGED resultVars
       \/ CallFails /\ SetupFails(j, "returned")
    /\ UNCHANGED <<envVars, progress, boxVars, truth, busVars>>

\* ContainerCreate.  When its answer is lost a container exists that nobody
\* knows the id of.
createContainer(j) ==
    /\ pc[j] = "create"
    /\ \/ /\ CallSucceeds
          /\ container' = [container EXCEPT ![j] = "created"]
          /\ Goto(j, "copy")
          /\ UNCHANGED resultVars
       \/ /\ CallFails
          /\ \E c \in {"none", "created"} : container' = [container EXCEPT ![j] = c]
          /\ SetupFails(j, "returned")
    /\ UNCHANGED <<envVars, progress, deferred, proc, quiet, envFile, truth, busVars>>

\* mountArchive: the tar, which may fail or be empty whatever the daemon does,
\* and the copy.  Only after it does createContainer return the id, and Run
\* install the deferred teardown.
mountArchive(j) ==
    /\ pc[j] = "copy"
    /\ \/ /\ CallSucceeds
          /\ deferred' = [deferred EXCEPT ![j] = TRUE]
          /\ Goto(j, "start")
          /\ UNCHANGED mishaps
       \/ /\ CallFails
          /\ Goto(j, "abandon")
          /\ UNCHANGED <<deferred, mishaps>>
       \/ /\ mishaps' = [mishaps EXCEPT ![j] = @ \cup {"archive"}]
          /\ Goto(j, "abandon")
          /\ UNCHANGED deferred
    /\ UNCHANGED <<envVars, progress, resultVars, container, proc, quiet,
                   envFile, overran, busVars>>

\* Seeded fault: the clean-up is left to the deferred teardown, which is not
\* installed yet.
abandonContainer_NoRemoval(j) ==
    /\ pc[j] = "abandon"
    /\ SetupFails(j, "returned")
    /\ UNCHANGED <<envVars, progress, boxVars, truth, busVars>>

\* createContainer's own clean-up, under the run's context.
abandonContainer(j) ==
    /\ pc[j] = "abandon"
    /\ \/ CallSucceeds /\ container' = [container EXCEPT ![j] = "removed"]
       \/ /\ CallFails
          /\ \E c \in {"created", "removed"} : container' = [container EXCEPT ![j] = c]
    /\ SetupFails(j, "returned")
    /\ UNCHANGED <<envVars, progress, deferred, proc, quiet, envFile, truth, busVars>>

startContainer(j) ==
    /\ pc[j] = "start"
    /\ \/ /\ CallSucceeds
          /\ container' = [container EXCEPT ![j] = "running"]
          /\ Goto(j, "setup")
          /\ UNCHANGED resultVars
       \/ /\ CallFails
          /\ \E c \in {"created", "running"} : container' = [container EXCEPT ![j] = c]
          /\ SetupFails(j, "teardown")
    /\ UNCHANGED <<envVars, progress, deferred, proc, quiet, envFile, truth, busVars>>

(* runSetup: each setup command, then the empty env file.                  *)

execSetup(j) ==
    /\ pc[j] = "setup" /\ setupLeft[j] > 0
    /\ \/ /\ CallSucceeds
          /\ Becomes(j, Current(j), "running")
          /\ Goto(j, "setupExec")
          /\ UNCHANGED resultVars
       \/ /\ CallFails
          /\ Becomes(j, Current(j), "running") \/ UNCHANGED proc
          /\ SetupFails(j, "teardown")
    /\ UNCHANGED <<envVars, progress, container, deferred, quiet, envFile, truth, busVars>>

\* The error of a call that fails ends the set-up, and so does a non-zero exit.
SetupExecErrs(j) == dockerFaulty \/ (ctxErr # "none" /\ WaitEnds(j))

setupReturns(j) ==
    /\ pc[j] = "setupExec"
    /\ \/ /\ CallSucceeds /\ OutputEnded(j) /\ ExitCode(j) = "zero"
          /\ setupLeft' = [setupLeft EXCEPT ![j] = @ - 1]
          /\ Goto(j, "setup")
          /\ UNCHANGED resultVars
       \/ /\ \/ SetupExecErrs(j)
             \/ CallSucceeds /\ OutputEnded(j) /\ ExitCode(j) = "nonzero"
          /\ SetupFails(j, "teardown")
          /\ UNCHANGED setupLeft
    /\ UNCHANGED <<envVars, k, boxVars, truth, busVars>>

\* The exit code of `: > file` is not looked at: the file may be missing.
initEnvFile(j) ==
    /\ pc[j] = "setup" /\ setupLeft[j] = 0
    /\ \/ /\ CallSucceeds
          /\ \E present \in BOOLEAN : envFile' = [envFile EXCEPT ![j] = present]
          /\ Goto(j, "step")
          /\ UNCHANGED resultVars
       \/ /\ CallFails
          /\ SetupFails(j, "teardown")
          /\ UNCHANGED envFile
    /\ UNCHANGED <<envVars, progress, container, deferred, proc, quiet, truth, busVars>>

-----------------------------------------------------------------------------
(* runSteps: one turn of its loop is beginStep, readEnvBefore, execStep,    *)
(* execReturns, classify, publishFinished and readEnvAfter.                 *)

\* Seeded fault: off by one.
HasNextStep_OneMore(j) == k[j] <= NumSteps

HasNextStep(j) == k[j] < NumSteps

StartedEvent(s) == [type |-> "step.started", step |-> s, status |-> "unknown"]

beginStep(j) ==
    /\ pc[j] = "step" /\ HasNextStep(j)
    /\ k' = [k EXCEPT ![j] = @ + 1]
    /\ emitStep(j, StartedEvent(k[j] + 1))
    /\ Goto(j, "readBefore")
    /\ UNCHANGED <<envVars, setupLeft, resultVars, boxVars, truth>>

stepsDone(j) ==
    /\ pc[j] = "step" /\ ~HasNextStep(j)
    /\ Goto(j, "teardown")
    /\ UNCHANGED <<envVars, progress, resultVars, boxVars, truth, busVars>>

\* readExportedEnv: `cat` of the env file, which fails on a missing file.
ReadSucceeds(j) == CallSucceeds /\ envFile[j] /\ UNCHANGED mishaps
ReadFails(j) ==
    \/ CallFails /\ UNCHANGED mishaps
    \/ /\ CallSucceeds /\ ~envFile[j]
       /\ mishaps' = [mishaps EXCEPT ![j] = @ \cup {"envFile"}]

readEnvBefore(j) ==
    /\ pc[j] = "readBefore"
    /\ \/ ReadSucceeds(j) /\ Goto(j, "launch") /\ UNCHANGED resultVars
       \/ /\ ReadFails(j)
          /\ Record(j, "none", TRUE)
          /\ StepsFail(j)
          /\ Goto(j, "publishLast")
          /\ UNCHANGED <<out, setupErr>>
    /\ UNCHANGED <<envVars, progress, boxVars, overran, busVars>>

\* Seeded fault: the deadline is armed for the neighbouring step.
StepDeadlineArmed_OffByOne(j) == k[j] - 1 \in Timed

\* The step's own deadline, armed for a step with a Timeout only.
StepDeadlineArmed(j) == k[j] \in Timed

\* Why execCommand, called with the step's context, can return an error:
\* ended says whether a context that is done gets through to it.
ExecErrors(j, ended) ==
    {e \in {"ctxDone", "fault", "stepDeadline"} :
        \/ e = "ctxDone" /\ ctxErr # "none" /\ ended
        \/ e = "fault" /\ dockerFaulty
        \/ e = "stepDeadline" /\ StepDeadlineArmed(j) /\ ctxErr = "none" /\ ended}

ExecFails(j, ended) ==
    \E e \in ExecErrors(j, ended) :
        /\ out' = [out EXCEPT ![j] = e]
        /\ overran' = IF e = "stepDeadline"
                      THEN [overran EXCEPT ![j] = @ \cup {k[j]}] ELSE overran
        /\ Goto(j, "classify")
        /\ UNCHANGED <<results, setupErr, runErr>>

\* ExecCreate and ExecAttach: the process starts.
execStep(j) ==
    /\ pc[j] = "launch"
    /\ \/ /\ CallSucceeds
          /\ Becomes(j, k[j], "running")
          /\ Goto(j, "exec")
          /\ UNCHANGED <<resultVars, overran>>
       \/ /\ ExecFails(j, TRUE)
          /\ Becomes(j, k[j], "running") \/ UNCHANGED proc
    /\ UNCHANGED <<envVars, progress, container, deferred, quiet, envFile, mishaps, busVars>>

\* StdCopy sees the end of the output and ExecInspect answers, or the step's
\* context is done or the daemon fails.
execReturns(j) ==
    /\ pc[j] = "exec"
    /\ \/ /\ CallSucceeds /\ OutputEnded(j)
          /\ out' = [out EXCEPT ![j] = ExitCode(j)]
          /\ Goto(j, "classify")
          /\ UNCHANGED <<results, setupErr, runErr, overran>>
       \/ ExecFails(j, WaitEnds(j))
    /\ UNCHANGED <<envVars, progress, boxVars, mishaps, busVars>>

\* `runErr != nil`, and `errors.Is(runErr, context.DeadlineExceeded)`: the
\* run's deadline and the step's give the same error.
ExecErred(j) == out[j] \notin {"zero", "nonzero"}
IsDeadlineExceeded(j) ==
    out[j] = "stepDeadline" \/ (out[j] = "ctxDone" /\ ctxErr = "deadline")

\* Seeded fault: a deadline error of a timed step is its timeout, whatever
\* the run's own context says.
RunCancelled_TimeoutFirst(j) ==
    ExecErred(j) /\ ctxErr # "none" /\ ~(StepDeadlineArmed(j) /\ IsDeadlineExceeded(j))

RunCancelled(j) == ExecErred(j) /\ ctxErr # "none"
StepTimedOut(j) == ExecErred(j) /\ StepDeadlineArmed(j) /\ IsDeadlineExceeded(j)

\* The switch over the outcome.  A process that exits non-zero is a result
\* like any other: the loop goes on after it.
classify(j) ==
    /\ pc[j] = "classify"
    /\ IF ~ExecErred(j)
       THEN /\ Record(j, out[j], FALSE)
            /\ Goto(j, "publish")
            /\ UNCHANGED runErr
       ELSE /\ IF ~RunCancelled(j) /\ StepTimedOut(j)
               THEN Record(j, "nonzero", FALSE)
               ELSE Record(j, "none", TRUE)
            /\ StepsFail(j)
            /\ Goto(j, "publishLast")
    /\ UNCHANGED <<envVars, progress, out, setupErr, boxVars, truth, busVars>>

\* Seeded fault: the event describes the first result.
FinishedEvent_First(j) ==
    LET r == results[j][1]
    IN  [type |-> "step.finished", step |-> r.step, status |-> StepStatus(r)]

\* stepFinishedEvent of the result just appended.
FinishedEvent(j) ==
    LET r == results[j][Len(results[j])]
    IN  [type |-> "step.finished", step |-> r.step, status |-> StepStatus(r)]

\* Seeded fault: a step that timed out or broke does not end the loop.
publishFinished_GoesOn(j) ==
    /\ pc[j] \in {"publish", "publishLast"}
    /\ emitStep(j, FinishedEvent(j))
    /\ Goto(j, IF HasNextStep(j) THEN "readAfter" ELSE "teardown")
    /\ UNCHANGED <<envVars, progress, resultVars, boxVars, truth>>

publishFinished(j) ==
    /\ pc[j] \in {"publish", "publishLast"}
    /\ emitStep(j, FinishedEvent(j))
    /\ Goto(j, IF pc[j] = "publish" THEN "readAfter" ELSE "teardown")
    /\ UNCHANGED <<envVars, progress, resultVars, boxVars, truth>>

\* A failed read appends a second result for the step, and emits it.
readEnvAfter(j) ==
    /\ pc[j] = "readAfter"
    /\ \/ ReadSucceeds(j) /\ Goto(j, "step") /\ UNCHANGED resultVars
       \/ /\ ReadFails(j)
          /\ Record(j, "none", TRUE)
          /\ StepsFail(j)
          /\ Goto(j, "publishLast")
          /\ UNCHANGED <<out, setupErr>>
    /\ UNCHANGED <<envVars, progress, boxVars, overran, busVars>>

-----------------------------------------------------------------------------
\* Seeded fault: the removal runs on the run's context.
TeardownFails_RunContext == CallFails

\* The deferred removal runs on a context of its own, with its own deadline:
\* only the daemon can make it fail.  Its error is logged and nothing else.
TeardownFails == dockerFaulty

Killed(state) == IF state = "running" THEN "killed" ELSE state

teardown(j) ==
    /\ pc[j] = "teardown"
    /\ \/ /\ container' = [container EXCEPT ![j] = "removed"]
          /\ proc' = [proc EXCEPT ![j] = [c \in Commands |-> Killed(@[c])]]
       \/ /\ TeardownFails
          /\ UNCHANGED <<container, proc>>
    /\ Goto(j, "returned")
    /\ UNCHANGED <<envVars, progress, resultVars, deferred, quiet, envFile, truth, busVars>>

-----------------------------------------------------------------------------
BeforeSteps(j) ==
    \/ pullImage(j) \/ createContainer(j) \/ mountArchive(j)
    \/ abandonContainer(j) \/ startContainer(j)
    \/ execSetup(j) \/ setupReturns(j) \/ initEnvFile(j)

StepLoop(j) ==
    \/ beginStep(j) \/ stepsDone(j) \/ readEnvBefore(j) \/ execStep(j)
    \/ execReturns(j) \/ classify(j) \/ publishFinished(j) \/ readEnvAfter(j)

RunStep(j) == BeforeSteps(j) \/ StepLoop(j) \/ teardown(j)

AllReturned == \A j \in Jobs : pc[j] = "returned"

Done == AllReturned /\ UNCHANGED vars

Next ==
    \/ Cancel
    \/ \E j \in Jobs : Begin(j) \/ RunStep(j) \/ CommandActs(j)
    \/ Done

(***************************************************************************)
(* What eventually happens by itself.  Once its context is done the client *)
(* gives up a call to the daemon; of the wait for a command's output that  *)
(* is true only if the client closes the stream, and otherwise once the    *)
(* output has ended.  A timed step's deadline fires.  `cat` and `:` end by *)
(* themselves.  Publications and the removal have deadlines of their own,  *)
(* and the rest is local.  Nothing is assumed of the commands, nor of a    *)
(* call on a live context: both may hang.                                  *)
(***************************************************************************)
OwnDeadline == {"step", "classify", "publish", "publishLast", "teardown"}

Waiting(j) == pc[j] \in {"setupExec", "exec"} /\ ~WaitEnds(j)

Fairness ==
    \A j \in Jobs :
        /\ WF_vars(ctxErr # "none" /\ ~Waiting(j) /\ RunStep(j))
        /\ WF_vars(pc[j] \in OwnDeadline /\ RunStep(j))
        /\ WF_vars(StepDeadlineArmed(j) /\ ~Waiting(j) /\ (execStep(j) \/ execReturns(j)))

Spec == Init /\ [][Next]_vars /\ Fairness

-----------------------------------------------------------------------------
(* Properties.                                                             *)

ProcStates == {"unrun", "running", "zero", "nonzero", "killed"}

(***************************************************************************)
(* Every variable has its type.                                            *)
(***************************************************************************)
TypeOK ==
    /\ dockerFaulty \in BOOLEAN /\ streamFollows \in BOOLEAN /\ busFaulty \in BOOLEAN
    /\ ctxErr \in {"none", "canceled", "deadline"}
    /\ pc \in [Jobs -> Labels]
    /\ k \in [Jobs -> 0..NumSteps]
    /\ setupLeft \in [Jobs -> 0..NumSetup]
    /\ out \in [Jobs -> Outcomes]
    /\ results \in [Jobs -> Seq(StepResult)]
    /\ setupErr \in [Jobs -> BOOLEAN] /\ runErr \in [Jobs -> BOOLEAN]
    /\ container \in [Jobs -> {"none", "created", "running", "removed"}]
    /\ deferred \in [Jobs -> BOOLEAN]
    /\ proc \in [Jobs -> [Commands -> ProcStates]]
    /\ quiet \in [Jobs -> SUBSET Commands]
    /\ envFile \in [Jobs -> BOOLEAN]
    /\ overran \in [Jobs -> SUBSET (1..NumSteps)]
    /\ mishaps \in [Jobs -> SUBSET {"archive", "envFile"}]
    /\ log \in [Jobs -> Seq(Event)] /\ lost \in [Jobs -> BOOLEAN]

JobStatus(j) == JobResultStatus(setupErr[j], results[j])

Returned(j) == pc[j] = "returned"

(***************************************************************************)
(* The verdict a job returns is the truth about its processes, however     *)
(* cancellation, deadlines and daemon faults interleave with them: Passed  *)
(* only if every step ran and exited zero -- or closed its output while it *)
(* ran, which is taken for exit code 0 (docker.go:370-381) --, Failed only *)
(* for a process that exited non-zero or overran its own deadline, never   *)
(* for the run's deadline, Errored only for a cause outside the steps' own *)
(* processes: the set-up's before the first step, the env file's after     *)
(* it.  It is never Pending (docker.go:256-277).                           *)
(***************************************************************************)
VerdictHonest ==
    \A j \in Jobs : Returned(j) =>
        \/ /\ JobStatus(j) = "passed"
           /\ \A s \in 1..NumSteps : proc[j][s] = "zero" \/ s \in quiet[j]
        \/ /\ JobStatus(j) = "failed"
           /\ \/ \E s \in 1..NumSteps : proc[j][s] = "nonzero"
              \/ overran[j] # {}
        \/ /\ JobStatus(j) = "errored"
           /\ \/ ctxErr # "none" \/ dockerFaulty
              \/ k[j] = 0 /\ ("archive" \in mishaps[j] \/ proc[j][Current(j)] = "nonzero")
              \/ k[j] > 0 /\ "envFile" \in mishaps[j]

\* The result is that of the step's process.
TrueResult(j, i) ==
    \E exit \in {"zero", "nonzero"} :
        /\ results[j][i] = [step |-> i, exit |-> exit, err |-> FALSE]
        /\ proc[j][i] = exit \/ (exit = "zero" /\ i \in quiet[j])

(***************************************************************************)
(* Run returns no error exactly when the loop completed: every step ran,   *)
(* has one result of its own, in order, and none broke or timed out; the   *)
(* result is the process's, or 0 for one that had closed its output.  The  *)
(* orchestrator only logs that error, so that a difference would go        *)
(* unnoticed there (docker.go:113-120).                                    *)
(***************************************************************************)
NilErrorMeansEveryStepRan ==
    \A j \in Jobs : Returned(j) =>
        (~runErr[j] <=>
            /\ Len(results[j]) = NumSteps
            /\ \A i \in 1..Len(results[j]) : TrueResult(j, i)
            /\ overran[j] = {})

(***************************************************************************)
(* Commands overlap in a container only if the earlier one closed its      *)
(* output and went on.  Any other command that still runs is the last one  *)
(* launched, and the runner reads its output or is on its way out: a step  *)
(* that timed out, or whose stream or launch failed, goes on inside the    *)
(* container, and no later step, env read or setup command may meet it     *)
(* (docker.go:265-276).                                                    *)
(***************************************************************************)
NoOverlap ==
    \A j \in Jobs : \A c \in Commands :
        proc[j][c] = "running" /\ c \notin quiet[j] =>
            /\ c = Current(j)
            /\ pc[j] \in {"setupExec", "exec", "classify", "publishLast",
                          "teardown", "returned"}

(***************************************************************************)
(* With a healthy daemon a container outlives its run only when the run    *)
(* was cancelled before createContainer handed the id over: from then on   *)
(* every return path, cancelled or timed out, removes it, and on a live    *)
(* context createContainer removes what it cannot fill (docker.go:86-94,   *)
(* 164-170).                                                               *)
(***************************************************************************)
OnlyUnfinishedCreateLeaks ==
    \A j \in Jobs :
        Returned(j) /\ container[j] \in {"created", "running"} /\ ~dockerFaulty =>
            ~deferred[j] /\ ctxErr # "none"

\* Where the finished event of the i-th result is in the stream: behind the
\* started event of its step, and of a second result behind the first one's.
FinishedAt(j, i) == IF i <= k[j] THEN 2 * i ELSE 2 * k[j] + 1

\* The stream tells of the steps begun and of the first n results, no more.
Told(j, n) ==
    /\ Len(log[j]) = k[j] + n
    /\ \A s \in 1..k[j] : log[j][2 * s - 1] = StartedEvent(s)
    /\ \A i \in 1..n :
          log[j][FinishedAt(j, i)] =
             [type |-> "step.finished", step |-> results[j][i].step,
              status |-> StepStatus(results[j][i])]

(***************************************************************************)
(* Unless a publication failed, the stream tells what the result tells,    *)
(* and nothing else: each step begun was announced once, in order, the     *)
(* finished events are the results, status by status, and each of them     *)
(* follows the start of its step before the next one (docker.go:212-294).  *)
(***************************************************************************)
EventsMatchResults ==
    \A j \in Jobs : Returned(j) /\ ~lost[j] => Told(j, Len(results[j]))

\* Run reads the output of a command that runs on and keeps it open.
HoldsOutput(j) ==
    /\ pc[j] \in {"setupExec", "exec"}
    /\ proc[j][Current(j)] = "running" /\ Current(j) \notin quiet[j]

(***************************************************************************)
(* A run whose context is done returns.  If the Docker client does not     *)
(* close the stream with the context, one thing may keep it: a command     *)
(* that holds its output open for ever (docker.go:241-246, 370).           *)
(***************************************************************************)
CancelledRunReturns ==
    \A j \in Jobs :
        (ctxErr # "none" /\ pc[j] # "idle")
            ~> (Returned(j) \/ [](~streamFollows /\ HoldsOutput(j)))

(***************************************************************************)
(* A step with a deadline gets a result, even if its process never ends    *)
(* and the run is never cancelled, with the same exception                 *)
(* (docker.go:235-246, 370).                                               *)
(***************************************************************************)
TimedStepGetsResult ==
    \A j \in Jobs : \A s \in Timed :
        (pc[j] = "exec" /\ k[j] = s)
            ~> (Len(results[j]) >= s \/ [](~streamFollows /\ HoldsOutput(j)))

(***************************************************************************)
(* What the documentation and the tests say beyond that.                   *)
(***************************************************************************)

(***************************************************************************)
(* README.md:146 and 176: a cancelled or timed-out run does not leak its   *)
(* container.  Stated of a container whose id createContainer has learnt,  *)
(* with a healthy daemon: Run does not return while it exists.             *)
(***************************************************************************)
KnownContainerReclaimed ==
    [][\A j \in Jobs :
          ~dockerFaulty /\ pc[j] \in {"abandon", "teardown"} /\ pc'[j] = "returned"
            => container'[j] = "removed"]_vars

(***************************************************************************)
(* docker_test.go:35: every executed step yields exactly one finished      *)
(* event.                                                                  *)
(***************************************************************************)
OneFinishedEventPerStep ==
    \A j \in Jobs : \A a, b \in DOMAIN log[j] :
        /\ log[j][a].type = "step.finished" /\ log[j][b].type = "step.finished"
        /\ log[j][a].step = log[j][b].step
        => a = b

(***************************************************************************)
(* CHANGELOG.md:29: finished events survive cancellation.  Stated of a     *)
(* step with the bus up: once its result exists and the job has returned,  *)
(* the stream holds a finished event for it.                               *)
(***************************************************************************)
FinishedEventsSurviveCancellation ==
    \A j \in Jobs : Returned(j) /\ ~busFaulty =>
        \A i \in DOMAIN results[j] : \E a \in DOMAIN log[j] :
            /\ log[j][a].type = "step.finished"
            /\ log[j][a].step = results[j][i].step
=============================================================================
