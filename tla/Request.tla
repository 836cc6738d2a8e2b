------------------------------ MODULE Request -------------------------------
(***************************************************************************)
(* One call of RunPipeline (internal/server): the check of the project's   *)
(* path, config.Load, the run and its mapping to the response.  Of the run *)
(* only two things are kept: what one of its jobs lets its steps see of    *)
(* the environment (docker.go, envfile.go), and the result, any that the   *)
(* orchestrator may return.  Orchestrator and DockerRunner model the rest. *)
(*                                                                         *)
(* A path is the sequence of its components; an absolute one begins with   *)
(* "/".                                                                    *)
(***************************************************************************)
EXTENDS Config, EnvFile, Status, SequencesExt

CONSTANTS
    Roots,          \* values of ODYSSEY_PROJECT_ROOT, <<>> when it is unset
    Paths,          \* project paths of requests
    Cwd,            \* the server's working directory, clean, without "/"
    PipelineFiles,  \* contents of pipeline.toml
    EnvFiles,       \* contents of env.toml
    StepLines       \* lines a step may append to the env file

\* What the TOML decoder yields, and the shell and the file system allow.
ASSUME RequestAssumption ==
    /\ \A file \in PipelineFiles :
          /\ file.stages \in Seq(STRING)
          /\ IsFiniteSet(DOMAIN file.jobs) /\ DOMAIN file.jobs \subseteq Nat
          /\ \A k \in DOMAIN file.jobs :
                file.jobs[k].steps \in Seq([name : STRING, run : STRING, timeout : Int])
    /\ StepLines \subseteq Seq(EnvLines)
    /\ Roots \subseteq Seq(STRING) /\ Paths \subseteq Seq(STRING)
    /\ Cwd \in Seq(STRING \ {".", ".."})

VARIABLES
    pc,
    projectRoot, path,
    config,         \* the parsed pipeline.toml
    globalEnv,      \* the map of env.toml
    pipeline,       \* what Load returns
    job,            \* the job whose steps are followed
    step,           \* how many of its steps have started
    envFile,        \* the lines of the file in its container
    exported,       \* what its current step is given from the file
    result,         \* per stage, per job [setupErr, results]
    response        \* [code, message, tree]

request == <<projectRoot, path>>
loaded == <<config, globalEnv, pipeline>>
jobVars == <<job, step, envFile, exported>>
vars == <<pc, request, loaded, jobVars, result, response>>

NoConfig == [stages |-> <<>>, jobs |-> <<>>]
NoJob == [name |-> 0, env |-> <<>>, steps |-> <<>>]

Init ==
    /\ pc = "path"
    /\ projectRoot \in Roots /\ path \in Paths
    /\ config = NoConfig /\ globalEnv = <<>> /\ pipeline = <<>>
    /\ job = NoJob /\ step = 0 /\ envFile = <<>> /\ exported = <<>>
    /\ result = <<>> /\ response = [code |-> "none", message |-> "", tree |-> <<>>]

Refuse(code, message) ==
    /\ pc' = "answered"
    /\ response' = [code |-> code, message |-> message, tree |-> <<>>]

-----------------------------------------------------------------------------
(* The path (path.go, and the filepath functions it uses).                 *)

\* One component of filepath.Clean of an absolute path.
Walk(dir, name) ==
    CASE name = "." -> dir
      [] name = ".." -> IF dir = <<>> THEN <<>> ELSE Front(dir)
      [] OTHER -> Append(dir, name)

Absolute(p) == p # <<>> /\ p[1] = "/"

\* Where one is after each component of p.
Walked(start, p) ==
    LET dir[n \in 0..Len(p)] == IF n = 0 THEN start ELSE Walk(dir[n - 1], p[n])
    IN  dir

Abs(p) ==
    IF Absolute(p) THEN Walked(<<>>, Tail(p))[Len(p) - 1] ELSE Walked(Cwd, p)[Len(p)]

\* The two paths share their first n components.
Agree(base, target, n) ==
    n <= Len(base) /\ n <= Len(target) /\ \A m \in 1..n : base[m] = target[m]

\* filepath.Rel of two clean paths: up to where they part, and down again.
Rel(base, target) ==
    LET n == CHOOSE m \in 0..Len(base) : Agree(base, target, m) /\ ~Agree(base, target, m + 1)
    IN  [m \in 1..(Len(base) - n) |-> ".."] \o SubSeq(target, n + 1, Len(target))

\* Seeded fault: the prefix ".." is looked for without its separator.
ClimbsOut_AnyDots(rel) == rel # <<>> /\ rel[1] \in {"..", "..data"}

ClimbsOut(rel) == rel # <<>> /\ rel[1] = ".."

projectPathAllowed(root, p) == root = <<>> \/ ~ClimbsOut(Rel(Abs(root), Abs(p)))

CheckPath ==
    /\ pc = "path"
    /\ IF projectPathAllowed(projectRoot, path)
       THEN pc' = "load" /\ UNCHANGED response
       ELSE Refuse("InvalidArgument", "outside the root")
    /\ UNCHANGED <<request, loaded, jobVars, result>>

-----------------------------------------------------------------------------
(* Load.                                                                   *)

readPipeline ==
    /\ pc = "load"
    /\ \E file \in PipelineFiles :
          IF Validate(file)
          THEN pc' = "env" /\ config' = file /\ UNCHANGED response
          ELSE Refuse("InvalidArgument", "failed to load config") /\ UNCHANGED config
    /\ UNCHANGED <<request, globalEnv, pipeline, jobVars, result>>

loadEnv ==
    /\ pc = "env"
    /\ \E env \in EnvFiles \cup {<<>>} : \* without the file, <<>>
          /\ globalEnv' = env
          /\ pipeline' = translate(config, env)
    /\ pc' = "runner"
    /\ UNCHANGED <<request, config, jobVars, result, response>>

\* One of the two files cannot be read or parsed.
Unreadable ==
    /\ pc \in {"load", "env"}
    /\ Refuse("InvalidArgument", "failed to load config")
    /\ UNCHANGED <<request, loaded, jobVars, result>>

UseRunner ==
    /\ pc = "runner"
    /\ \/ Refuse("Internal", "no runner configured") /\ UNCHANGED job      \* the server has none
       \/ /\ pc' = "run"
          /\ \E s \in DOMAIN pipeline : job' \in ToSet(pipeline[s].jobs)
          /\ UNCHANGED response
    /\ UNCHANGED <<request, loaded, step, envFile, exported, result>>

-----------------------------------------------------------------------------
(* The steps of one job.                                                   *)

StepStarts ==
    /\ pc = "run" /\ step < Len(job.steps)
    /\ pc' = "step"
    /\ step' = step + 1
    /\ exported' = parseEnvFile(envFile)
    /\ UNCHANGED <<request, loaded, job, envFile, result, response>>

StepEnds ==
    /\ pc = "step"
    /\ \E lines \in StepLines : envFile' = envFile \o lines
    /\ pc' = "run"
    /\ UNCHANGED <<request, loaded, job, step, exported, result, response>>

\* The value of v in a step's process: the exec's env covers the container's.
StepEnv(v) ==
    IF v \in DOMAIN exported THEN exported[v]
    ELSE IF v \in DOMAIN job.env THEN job.env[v] ELSE "unset"

-----------------------------------------------------------------------------
(* The results the runner and the orchestrator may return.                 *)

StepOutcomes == [exit : {"zero", "nonzero"}, err : {FALSE}] \cup [exit : {"none"}, err : {TRUE}]

TimedOut(steps, n, r) == n \in DOMAIN steps /\ steps[n].timeout > 0 /\ r.exit = "nonzero"

\* Each step has a result, unless one is cut short.
StepResults(steps) ==
    {rs \in UNION {[1..n -> StepOutcomes] : n \in 0..(Len(steps) + 1)} :
        /\ \A n \in DOMAIN rs : rs[n].err => n = Len(rs)
        /\ \/ Len(rs) = Len(steps)
           \/ rs # <<>> /\ (Last(rs).err \/ TimedOut(steps, Len(rs), Last(rs)))}

\* What Run of one job may return.
JobResults(steps) ==
    {[setupErr |-> TRUE, results |-> <<>>]} \cup
    {[setupErr |-> FALSE, results |-> rs] : rs \in StepResults(steps)}

StageStatus(jobResults) ==
    AggregateStatus({JobResultStatus(r.setupErr, r.results) : r \in Range(jobResults)})

PipelineStatus(stageResults) == AggregateStatus({StageStatus(s) : s \in Range(stageResults)})

RunEnded ==
    \/ Len(result) = Len(pipeline)
    \/ result # <<>> /\ EndsTheRun(StageStatus(Last(result)))

StageResults(jobs) ==
    {rs \in [DOMAIN jobs -> UNION {JobResults(j.steps) : j \in Range(jobs)}] :
        \A n \in DOMAIN jobs : rs[n] \in JobResults(jobs[n].steps)}

\* The followed job is left aside, and the stages return one after the other.
StageReturns ==
    /\ \/ pc = "run" /\ step = Len(job.steps)
       \/ pc = "stages" /\ ~RunEnded
    /\ \E rs \in StageResults(pipeline[Len(result) + 1].jobs) : result' = Append(result, rs)
    /\ pc' = "stages"
    /\ job' = NoJob /\ step' = 0 /\ envFile' = <<>> /\ exported' = <<>>
    /\ UNCHANGED <<request, loaded, response>>

-----------------------------------------------------------------------------
(* The response (mapping.go): a tree of statuses.                          *)

\* Seeded fault: no case for errored.
domainStatusToProto_NoErrored(s) ==
    CASE s = "passed" -> "STATUS_PASSED"   [] s = "failed" -> "STATUS_FAILED"
      [] s = "pending" -> "STATUS_PENDING"
      [] s = "running" -> "STATUS_RUNNING" [] s = "skipped" -> "STATUS_SKIPPED"
      [] OTHER -> "STATUS_UNSPECIFIED"

domainStatusToProto(s) ==
    CASE s = "passed" -> "STATUS_PASSED"   [] s = "failed" -> "STATUS_FAILED"
      [] s = "errored" -> "STATUS_ERRORED" [] s = "pending" -> "STATUS_PENDING"
      [] s = "running" -> "STATUS_RUNNING" [] s = "skipped" -> "STATUS_SKIPPED"
      [] OTHER -> "STATUS_UNSPECIFIED"

domainStepResultToProto(r) == domainStatusToProto(StepStatus(r))

\* Seeded fault: the job's status is taken from its steps alone.
domainJobResultToProto_StepsOnly(r) ==
    [status |-> domainStatusToProto(WorstOf({StepStatus(s) : s \in Range(r.results)})),
     steps |-> [n \in DOMAIN r.results |-> domainStepResultToProto(r.results[n])]]

domainJobResultToProto(r) ==
    [status |-> domainStatusToProto(JobResultStatus(r.setupErr, r.results)),
     steps |-> [n \in DOMAIN r.results |-> domainStepResultToProto(r.results[n])]]

domainStageResultToProto(rs) ==
    [status |-> domainStatusToProto(StageStatus(rs)),
     jobs |-> [n \in DOMAIN rs |-> domainJobResultToProto(rs[n])]]

domainPipelineResultToProto(rs) ==
    [status |-> domainStatusToProto(PipelineStatus(rs)),
     stages |-> [n \in DOMAIN rs |-> domainStageResultToProto(rs[n])]]

Respond ==
    /\ pc = "stages" /\ RunEnded
    /\ pc' = "answered"
    /\ response' = [code |-> "OK", message |-> "", tree |-> domainPipelineResultToProto(result)]
    /\ UNCHANGED <<request, loaded, jobVars, result>>

Next ==
    \/ CheckPath \/ readPipeline \/ loadEnv \/ Unreadable \/ UseRunner
    \/ StepStarts \/ StepEnds
    \/ StageReturns \/ Respond

Spec == Init /\ [][Next]_vars

-----------------------------------------------------------------------------
(* Properties.                                                             *)

\* Every variable has its type; the status of a response is a specified one.
RequestTypeOK ==
    /\ pc \in {"path", "load", "env", "runner", "run", "step", "stages", "answered"}
    /\ projectRoot \in Roots /\ path \in Paths
    /\ config \in PipelineFiles \cup {NoConfig}
    /\ globalEnv \in EnvFiles \cup {<<>>}
    /\ step \in 0..Len(job.steps)
    /\ Len(result) <= Len(pipeline)
    /\ response.code \in {"none", "InvalidArgument", "Internal", "OK"}
    /\ response.code = "OK" => response.tree.status # "STATUS_UNSPECIFIED"

(***************************************************************************)
(* server.go 49-54, path.go 11-28: a request gets past the check exactly   *)
(* when no root is set or its path, resolved against the working           *)
(* directory, begins with all the components of the resolved root: neither *)
(* ".." nor a directory whose name begins like the root or with two dots   *)
(* misleads the textual comparison.                                        *)
(***************************************************************************)
AllowedIffUnderRoot ==
    pc # "path" =>
        (response.message = "outside the root") =
        (projectRoot # <<>> /\ ~IsPrefix(Abs(projectRoot), Abs(path)))

(***************************************************************************)
(* loader.go 56-93 depends on models.go 44-100: Load drops the jobs of a   *)
(* stage that is not declared and runs a stage twice that is declared      *)
(* twice, so what Validate accepts must leave neither.  Each declared job  *)
(* is in the pipeline exactly once, in the stage it names, no other is,    *)
(* the stages are in declared order and the jobs of a stage in the order   *)
(* of their keys.                                                          *)
(***************************************************************************)
RunsEveryJobOnce ==
    pipeline # <<>> =>
        /\ [s \in DOMAIN pipeline |-> pipeline[s].name] = config.stages
        /\ \A k \in DOMAIN config.jobs :
              Cardinality({q \in UNION {{s} \X DOMAIN pipeline[s].jobs : s \in DOMAIN pipeline} :
                              pipeline[q[1]].jobs[q[2]].name = k}) = 1
        /\ \A s \in DOMAIN pipeline : \A n \in DOMAIN pipeline[s].jobs :
              /\ pipeline[s].jobs[n].name \in DOMAIN config.jobs
              /\ config.jobs[pipeline[s].jobs[n].name].stage = pipeline[s].name
        /\ \A s \in DOMAIN pipeline : \A m, n \in DOMAIN pipeline[s].jobs :
              m < n => pipeline[s].jobs[m].name < pipeline[s].jobs[n].name

(***************************************************************************)
(* envfile.go 8-21, docker.go 214-243, loader.go 97-103: in every step, a  *)
(* variable has the value the steps before it in its job exported last, or *)
(* else the job's, or else env.toml's.                                     *)
(***************************************************************************)
StepSeesLatest ==
    pc = "step" =>
        LET Lines(v) == {n \in DOMAIN envFile : envFile[n] # <<>> /\ envFile[n][1] = v}
            jobEnv == config.jobs[job.name].env
        IN  \A v \in DOMAIN globalEnv \cup DOMAIN jobEnv \cup DOMAIN exported :
                StepEnv(v) = IF Lines(v) # {}
                             THEN envFile[CHOOSE n \in Lines(v) : \A m \in Lines(v) : m <= n][2]
                             ELSE IF v \in DOMAIN jobEnv THEN jobEnv[v] ELSE globalEnv[v]

(***************************************************************************)
(* mapping.go 50-98, models.go 92-98 (AUD-007): the statuses a client gets *)
(* are those of a run that ended.  Validate keeps out what would aggregate *)
(* to STATUS_PENDING, a stage without jobs and a job without steps.        *)
(***************************************************************************)
ResponseIsFinal ==
    LET Final == {"STATUS_PASSED", "STATUS_FAILED", "STATUS_ERRORED"}
        tree == response.tree
    IN  response.code = "OK" =>
            /\ tree.status \in Final
            /\ \A stage \in Range(tree.stages) :
                  /\ stage.status \in Final
                  /\ stage.jobs # <<>>
                  /\ \A j \in Range(stage.jobs) : j.status \in Final

(***************************************************************************)
(* mapping.go 29-98, orchestrator.go 94-123: the response says             *)
(* STATUS_PASSED only if every stage of the pipeline is in it, with every  *)
(* job, and each of their steps passed; and a client that looks only at    *)
(* the stages, or only at the jobs, concludes the same.                    *)
(***************************************************************************)
PassedMeansAllPassed ==
    LET tree == response.tree
        jobs == UNION {Range(stage.jobs) : stage \in Range(tree.stages)}
        passed == "STATUS_PASSED"
    IN  response.code = "OK" =>
            /\ (tree.status = passed) = (\A stage \in Range(tree.stages) : stage.status = passed)
            /\ (tree.status = passed) = (\A j \in jobs : j.status = passed)
            /\ tree.status = passed =>
                  /\ DOMAIN tree.stages = DOMAIN pipeline
                  /\ \A s \in DOMAIN pipeline : \A n \in DOMAIN pipeline[s].jobs :
                        tree.stages[s].jobs[n].steps =
                            [m \in DOMAIN pipeline[s].jobs[n].steps |-> passed]
=============================================================================
