------------------------------- MODULE Config -------------------------------
(***************************************************************************)
(* internal/config: what Load makes of the files pipeline.toml and         *)
(* env.toml.  pipeline.toml is a record [stages, jobs]; jobs is a map from *)
(* a job's key to [stage, image, env, steps]; a step is [name, run,        *)
(* timeout].  Only whether an image, a name or a command is empty matters, *)
(* and the sign of a timeout.  Job keys are numbers, in the order in which *)
(* slices.Sorted puts them.                                                *)
(***************************************************************************)
EXTENDS Integers, Sequences, FiniteSets, Functions

-----------------------------------------------------------------------------
(* Validate: its errors, one operator each.                                *)

NoStages(root) == root.stages = <<>>

DuplicateStage(root) ==
    \E m, n \in DOMAIN root.stages : m < n /\ root.stages[m] = root.stages[n]

NoJobs(root) == DOMAIN root.jobs = {}

\* Seeded fault: the job's stage need only be named.
UndeclaredStage_Named(root) == \E k \in DOMAIN root.jobs : root.jobs[k].stage = ""

UndeclaredStage(root) ==
    \E k \in DOMAIN root.jobs :
        root.jobs[k].stage = "" \/ root.jobs[k].stage \notin Range(root.stages)

NoImage(root) == \E k \in DOMAIN root.jobs : root.jobs[k].image = ""

NoSteps(root) == \E k \in DOMAIN root.jobs : root.jobs[k].steps = <<>>

BadStep(root) ==
    \E k \in DOMAIN root.jobs : \E step \in Range(root.jobs[k].steps) :
        step.name = "" \/ step.run = "" \/ step.timeout < 0

\* Seeded fault: refused only if all the stages are empty.
EmptyStage_All(root) ==
    \A stage \in Range(root.stages) : \A k \in DOMAIN root.jobs : root.jobs[k].stage # stage

EmptyStage(root) ==
    \E stage \in Range(root.stages) : \A k \in DOMAIN root.jobs : root.jobs[k].stage # stage

Validate(root) ==
    ~(\/ NoStages(root) \/ DuplicateStage(root)
      \/ NoJobs(root) \/ UndeclaredStage(root) \/ NoImage(root) \/ NoSteps(root) \/ BadStep(root)
      \/ EmptyStage(root))

-----------------------------------------------------------------------------
(* loadEnv and translate.  A map of variables is a function; nil is <<>>.  *)

mergeEnv(global, jobLevel) ==
    [v \in DOMAIN global \cup DOMAIN jobLevel |->
        IF v \in DOMAIN jobLevel THEN jobLevel[v] ELSE global[v]]

\* slices.Sorted: the keys, each once, the smaller ones first.
Sorted(keys) ==
    CHOOSE s \in [1..Cardinality(keys) -> keys] :
        Range(s) = keys /\ \A m, n \in DOMAIN s : m < n => s[m] < s[n]

Job(root, k, globalEnv) ==
    [name |-> k, env |-> mergeEnv(globalEnv, root.jobs[k].env), steps |-> root.jobs[k].steps]

jobsByStage(root, stage, globalEnv) ==
    LET keys == Sorted({k \in DOMAIN root.jobs : root.jobs[k].stage = stage})
    IN  [n \in DOMAIN keys |-> Job(root, keys[n], globalEnv)]

\* The pipeline: its stages in declared order, each a list of jobs.
translate(root, globalEnv) ==
    [n \in DOMAIN root.stages |->
        [name |-> root.stages[n], jobs |-> jobsByStage(root, root.stages[n], globalEnv)]]
=============================================================================
