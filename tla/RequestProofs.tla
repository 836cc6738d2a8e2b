--------------------------- MODULE RequestProofs ----------------------------
(***************************************************************************)
(* One call of RunPipeline, for every root, path, project and result: the  *)
(* path check, the translated pipeline, the environment of the steps and   *)
(* the response.                                                           *)
(***************************************************************************)
EXTENDS Request, StatusLemmas, FiniteSetTheorems, WellFoundedInduction

-----------------------------------------------------------------------------
(* The invariant.                                                          *)

\* The result of a job, whatever its steps are.
JobOutcome == [setupErr : BOOLEAN, results : Seq(StepOutcomes)]

TypeInv ==
    /\ pc \in {"path", "load", "env", "runner", "run", "step", "stages", "answered"}
    /\ projectRoot \in Roots /\ path \in Paths
    /\ config \in PipelineFiles \cup {NoConfig}
    /\ globalEnv \in EnvFiles \cup {<<>>}
    /\ step \in Nat
    /\ envFile \in Seq(EnvLines)
    /\ result \in Seq(Seq(JobOutcome))
    /\ response.code \in {"none", "InvalidArgument", "Internal", "OK"}

\* The answer to a path stands.
PathInv ==
    pc # "path" =>
        (response.message = "outside the root") = ~projectPathAllowed(projectRoot, path)

\* A pipeline.toml that Load does not refuse.
Accepted(file) == file \in PipelineFiles /\ Validate(file)

\* Up to Load there is no pipeline; what it returns is of an accepted file.
PipelineInv ==
    /\ pc \in {"path", "load", "env"} => pipeline = <<>>
    /\ pc = "env" => Accepted(config)
    /\ pc \in {"runner", "run", "step", "stages"} => pipeline # <<>>
    /\ pipeline # <<>> => Accepted(config) /\ pipeline = translate(config, globalEnv)

\* The followed job is one of the pipeline's.
JobInv ==
    IF pc \in {"run", "step"}
    THEN /\ \E s \in DOMAIN pipeline : job \in ToSet(pipeline[s].jobs)
         /\ step <= Len(job.steps)
         /\ pc = "step" => exported = parseEnvFile(envFile)
    ELSE job = NoJob /\ step = 0 /\ envFile = <<>>

\* What is kept of the run is the result of the pipeline's first stages.
ResultInv ==
    /\ pc \notin {"stages", "answered"} => result = <<>>
    /\ Len(result) <= Len(pipeline)
    /\ \A s \in DOMAIN result : result[s] \in StageResults(pipeline[s].jobs)

\* A response tells the result of a run that ended.
ResponseInv ==
    IF response.code = "OK"
    THEN /\ pc = "answered" /\ pipeline # <<>> /\ RunEnded
         /\ response.tree = domainPipelineResultToProto(result)
    ELSE pc # "answered" => response.code = "none" /\ response.message = ""

IInv == TypeInv /\ PathInv /\ PipelineInv /\ JobInv /\ ResultInv /\ ResponseInv

-----------------------------------------------------------------------------
(* The keys of a map, sorted.                                              *)

\* A set of naturals has a smallest element.
LEMMA Smallest ==
    ASSUME NEW S \in SUBSET Nat, S # {}
    PROVE  \E e \in S : \A f \in S : e <= f
<1>1. IsWellFoundedOn(OpToRel(<, Nat), Nat)
  BY NatLessThanWellFounded
<1>2. PICK e \in S : \A f \in S : ~(<<f, e>> \in OpToRel(<, Nat))
  BY <1>1, WFMin
<1>3. \A f \in S : ~(f < e)
  BY <1>2 DEF OpToRel
<1>4. QED
  BY <1>3

\* s lists the keys, each once, the smaller ones first.
Enumerates(s, keys) ==
    /\ s \in [1..Cardinality(keys) -> keys]
    /\ Range(s) = keys
    /\ \A m, n \in DOMAIN s : m < n => s[m] < s[n]

\* An enumeration without the smallest key yields one with it.
LEMMA EnumerateMore ==
    ASSUME NEW keys \in SUBSET Nat, IsFiniteSet(keys), NEW x \in keys,
           \A k \in keys : x <= k,
           NEW s, Enumerates(s, keys \ {x})
    PROVE  \E t : Enumerates(t, keys)
<1> DEFINE n == Cardinality(keys)
           t == [m \in 1..n |-> IF m = 1 THEN x ELSE s[m - 1]]
<1>1. n \in Nat /\ n # 0 /\ Cardinality(keys \ {x}) = n - 1
  BY FS_CardinalityType, FS_EmptySet, FS_RemoveElement
<1>2. /\ s \in [1..(n - 1) -> keys \ {x}] /\ Range(s) = keys \ {x}
      /\ \A a, b \in 1..(n - 1) : a < b => s[a] < s[b]
  BY <1>1 DEF Enumerates
<1> HIDE DEF n
<1>3. \A m \in 1..n : m # 1 => m - 1 \in 1..(n - 1)
  BY <1>1
<1>4. t \in [1..n -> keys]
  BY <1>2, <1>3
<1>5. keys \subseteq Range(t)
  <2>1. ASSUME NEW k \in keys PROVE \E m \in 1..n : t[m] = k
    <3>1. CASE k = x
      BY <3>1, <1>1
    <3>2. CASE k # x
      <4>1. PICK m \in 1..(n - 1) : s[m] = k
        BY <3>2, <1>2 DEF Range
      <4>2. m + 1 \in 1..n /\ t[m + 1] = k
        BY <4>1, <1>1
      <4>3. QED
        BY <4>2
    <3>3. QED
      BY <3>1, <3>2
  <2>2. QED
    BY <2>1 DEF Range
<1>6. Range(t) = keys
  BY <1>4, <1>5 DEF Range
<1>7. ASSUME NEW a \in 1..n, NEW b \in 1..n, a < b PROVE t[a] < t[b]
  <2>1. b - 1 \in 1..(n - 1) /\ s[b - 1] \in keys \ {x} /\ t[b] = s[b - 1]
    BY <1>2, <1>3, <1>7
  <2>2. CASE a = 1
    <3>1. t[a] = x /\ x <= s[b - 1] /\ x # s[b - 1]
      BY <2>1, <2>2
    <3>2. x \in Nat /\ s[b - 1] \in Nat
      BY <2>1
    <3>3. QED
      BY <3>1, <3>2, <2>1
  <2>3. CASE a # 1
    <3>1. a - 1 \in 1..(n - 1) /\ a - 1 < b - 1 /\ t[a] = s[a - 1]
      BY <2>3, <1>3, <1>7
    <3>2. QED
      BY <3>1, <2>1, <1>2
  <2>4. QED
    BY <2>2, <2>3
<1>8. Enumerates(t, keys)
  BY <1>4, <1>6, <1>7 DEF Enumerates, n
<1>9. QED
  BY <1>8

\* Each finite set of keys has an enumeration.
LEMMA EnumerationExists ==
    ASSUME NEW keys \in SUBSET Nat, IsFiniteSet(keys)
    PROVE  \E s : Enumerates(s, keys)
<1> DEFINE Bad(K) == IsFiniteSet(K) /\ ~\E s : Enumerates(s, K)
           Sizes == {n \in Nat : \E K \in SUBSET Nat : Bad(K) /\ Cardinality(K) = n}
<1>1. SUFFICES ASSUME Bad(keys) PROVE FALSE
  OBVIOUS
<1>2. Cardinality(keys) \in Sizes
  BY <1>1, FS_CardinalityType
<1>3. PICK n \in Sizes : \A m \in Sizes : n <= m
  <2>1. Sizes \in SUBSET Nat /\ Sizes # {}
    BY <1>2
  <2> HIDE DEF Sizes
  <2>2. QED
    BY <2>1, Smallest
<1>4. PICK K \in SUBSET Nat : Bad(K) /\ Cardinality(K) = n
  OBVIOUS
<1>5. K # {}
  <2>1. SUFFICES ASSUME K = {} PROVE FALSE
    OBVIOUS
  <2>2. Cardinality(K) = 0
    BY <2>1, FS_EmptySet
  <2>3. Enumerates(<<>>, K)
    BY <2>1, <2>2 DEF Enumerates, Range
  <2>4. QED
    BY <2>3, <1>4
<1>6. PICK x \in K : \A k \in K : x <= k
  BY <1>5, Smallest
<1>7. /\ IsFiniteSet(K \ {x}) /\ Cardinality(K \ {x}) = n - 1
      /\ n - 1 \in Nat /\ K \ {x} \in SUBSET Nat
  <2>1. IsFiniteSet(K \ {x}) /\ Cardinality(K \ {x}) = n - 1
    BY <1>4, <1>6, FS_RemoveElement
  <2>2. Cardinality(K \ {x}) \in Nat
    BY <2>1, FS_CardinalityType
  <2>3. QED
    BY <2>1, <2>2
<1>8. PICK s : Enumerates(s, K \ {x})
  BY <1>3, <1>7
<1>9. \E t : Enumerates(t, K)
  BY <1>4, <1>6, <1>8, EnumerateMore
<1>10. QED
  BY <1>9, <1>4

\* What Sorted returns.
LEMMA SortedEnumerates ==
    ASSUME NEW keys \in SUBSET Nat, IsFiniteSet(keys)
    PROVE  Enumerates(Sorted(keys), keys)
<1>1. \E s : Enumerates(s, keys)
  BY EnumerationExists
<1>2. QED
  BY <1>1 DEF Enumerates, Sorted

-----------------------------------------------------------------------------
(* What Load returns of an accepted file.                                  *)

\* The keys of a stage's jobs.
Keys(root, stage) == {k \in DOMAIN root.jobs : root.jobs[k].stage = stage}

\* The keys of a stage are finitely many numbers.
LEMMA KeysFinite ==
    ASSUME NEW root \in PipelineFiles, NEW stage
    PROVE  Keys(root, stage) \in SUBSET Nat /\ IsFiniteSet(Keys(root, stage))
<1>1. IsFiniteSet(DOMAIN root.jobs) /\ DOMAIN root.jobs \subseteq Nat
  BY RequestAssumption
<1>2. QED
  BY <1>1, FS_Subset DEF Keys

\* The jobs of a stage are those of its keys, in their order.
LEMMA StageJobs ==
    ASSUME NEW root \in PipelineFiles, NEW stage, NEW env
    PROVE  LET jobs == jobsByStage(root, stage, env)
               keys == Sorted(Keys(root, stage))
           IN  /\ Enumerates(keys, Keys(root, stage))
               /\ Cardinality(Keys(root, stage)) \in Nat
               /\ DOMAIN jobs = 1..Cardinality(Keys(root, stage)) /\ DOMAIN keys = DOMAIN jobs
               /\ \A n \in DOMAIN jobs :
                     jobs[n] = Job(root, keys[n], env) /\ keys[n] \in Keys(root, stage)
<1>1. Keys(root, stage) \in SUBSET Nat /\ IsFiniteSet(Keys(root, stage))
  BY KeysFinite
<1>2. Enumerates(Sorted(Keys(root, stage)), Keys(root, stage))
  BY <1>1, SortedEnumerates
<1>3. Cardinality(Keys(root, stage)) \in Nat
  BY <1>1, FS_CardinalityType
<1>4. jobsByStage(root, stage, env) =
        [n \in DOMAIN Sorted(Keys(root, stage)) |-> Job(root, Sorted(Keys(root, stage))[n], env)]
  BY DEF jobsByStage, Keys
<1>5. QED
  BY <1>2, <1>3, <1>4 DEF Enumerates

\* The pipeline has the declared stages, at least one.
LEMMA PipelineForm ==
    ASSUME NEW root, Accepted(root), NEW env
    PROVE  LET p == translate(root, env)
           IN  /\ Len(root.stages) \in Nat \ {0} /\ Len(p) = Len(root.stages)
               /\ DOMAIN p = 1..Len(p) /\ DOMAIN root.stages = DOMAIN p
               /\ p # <<>>
               /\ \A s \in DOMAIN p :
                     /\ p[s].name = root.stages[s]
                     /\ p[s].jobs = jobsByStage(root, root.stages[s], env)
<1> DEFINE p == translate(root, env)
<1>1. root.stages \in Seq(STRING)
  BY RequestAssumption DEF Accepted
<1>2. root.stages # <<>>
  BY DEF Accepted, Validate, NoStages
<1>3. Len(root.stages) \in Nat \ {0} /\ DOMAIN root.stages = 1..Len(root.stages)
  BY <1>1, <1>2
<1>4. p = [s \in DOMAIN root.stages |->
             [name |-> root.stages[s], jobs |-> jobsByStage(root, root.stages[s], env)]]
  BY DEF translate
<1> HIDE DEF p
<1>5. DOMAIN p = 1..Len(root.stages) /\ Len(p) = Len(root.stages)
  BY <1>3, <1>4
<1>6. 1 \in DOMAIN p /\ p # <<>>
  BY <1>3, <1>5
<1>7. \A s \in DOMAIN p : /\ p[s].name = root.stages[s]
                          /\ p[s].jobs = jobsByStage(root, root.stages[s], env)
  BY <1>4
<1>8. QED
  BY <1>3, <1>5, <1>6, <1>7 DEF p

\* The steps of a job.
Steps == Seq([name : STRING, run : STRING, timeout : Int])

\* Each of its stages has a job, and each job a step.
LEMMA StageForm ==
    ASSUME NEW root, Accepted(root), NEW env, NEW s \in DOMAIN translate(root, env)
    PROVE  LET jobs == translate(root, env)[s].jobs
           IN  /\ Len(jobs) \in Nat \ {0} /\ DOMAIN jobs = 1..Len(jobs)
               /\ \A n \in DOMAIN jobs : jobs[n].steps \in Steps /\ jobs[n].steps # <<>>
<1> DEFINE stage == root.stages[s]
           keys == Keys(root, stage)
           jobs == translate(root, env)[s].jobs
<1>1. root \in PipelineFiles /\ stage \in Range(root.stages)
  BY PipelineForm DEF Accepted, Range
<1>2. jobs = jobsByStage(root, stage, env)
  BY PipelineForm
<1>3. keys # {}
  BY <1>1 DEF Accepted, Validate, EmptyStage, Keys
<1>4. /\ Cardinality(keys) \in Nat /\ DOMAIN jobs = 1..Cardinality(keys)
      /\ \A n \in DOMAIN jobs : /\ jobs[n] = Job(root, Sorted(keys)[n], env)
                                /\ Sorted(keys)[n] \in keys
      /\ jobs = [n \in DOMAIN Sorted(keys) |-> Job(root, Sorted(keys)[n], env)]
  BY <1>1, <1>2, StageJobs DEF jobsByStage, Keys
<1>5. Cardinality(keys) # 0
  BY <1>1, <1>3, KeysFinite, FS_EmptySet
<1>6. ASSUME NEW n \in DOMAIN jobs PROVE jobs[n].steps \in Steps /\ jobs[n].steps # <<>>
  <2>1. PICK k \in keys : jobs[n] = Job(root, k, env)
    BY <1>4
  <2>2. k \in DOMAIN root.jobs /\ jobs[n].steps = root.jobs[k].steps
    BY <2>1 DEF Job, Keys
  <2>3. QED
    BY <1>1, <2>2, RequestAssumption DEF Accepted, Validate, NoSteps, Steps
<1> HIDE DEF keys, jobs
<1>7. Len(jobs) = Cardinality(keys)
  BY <1>4
<1>8. QED
  BY <1>4, <1>5, <1>6, <1>7 DEF jobs

-----------------------------------------------------------------------------
(* What the runner may return.                                             *)

\* What Run returns of a job is an outcome.
LEMMA JobResultType ==
    ASSUME NEW steps \in Steps, NEW r \in JobResults(steps)
    PROVE  r \in JobOutcome
<1>1. CASE r = [setupErr |-> TRUE, results |-> <<>>]
  BY <1>1 DEF JobOutcome
<1>2. CASE \E rs \in StepResults(steps) : r = [setupErr |-> FALSE, results |-> rs]
  <2>1. PICK rs \in StepResults(steps) : r = [setupErr |-> FALSE, results |-> rs]
    BY <1>2
  <2>2. Len(steps) \in Nat
    BY DEF Steps
  <2>3. PICK n \in 0..(Len(steps) + 1) : rs \in [1..n -> StepOutcomes]
    BY <2>1 DEF StepResults
  <2>4. n \in Nat
    BY <2>2
  <2>5. rs \in Seq(StepOutcomes)
    BY <2>3, <2>4
  <2>6. QED
    BY <2>1, <2>5 DEF JobOutcome
<1>3. QED
  BY <1>1, <1>2 DEF JobResults

\* What a stage returns holds one outcome per job.
LEMMA StageResultType ==
    ASSUME NEW root, Accepted(root), NEW env, NEW s \in DOMAIN translate(root, env),
           NEW rs \in StageResults(translate(root, env)[s].jobs)
    PROVE  LET jobs == translate(root, env)[s].jobs
           IN  /\ rs \in Seq(JobOutcome) /\ Len(rs) = Len(jobs) /\ Len(rs) \in Nat \ {0}
               /\ \A n \in DOMAIN jobs : rs[n] \in JobResults(jobs[n].steps)
<1> DEFINE jobs == translate(root, env)[s].jobs
<1>1. /\ Len(jobs) \in Nat \ {0} /\ DOMAIN jobs = 1..Len(jobs)
      /\ \A n \in DOMAIN jobs : jobs[n].steps \in Steps
  BY StageForm
<1> HIDE DEF jobs
<1>2. /\ DOMAIN rs = DOMAIN jobs /\ rs = [n \in DOMAIN jobs |-> rs[n]]
      /\ \A n \in DOMAIN jobs : rs[n] \in JobResults(jobs[n].steps)
  BY DEF StageResults, jobs
<1>3. \A n \in DOMAIN jobs : rs[n] \in JobOutcome
  BY <1>1, <1>2, JobResultType
<1>4. rs \in [1..Len(jobs) -> JobOutcome]
  BY <1>1, <1>2, <1>3
<1>5. rs \in Seq(JobOutcome) /\ Len(rs) = Len(jobs)
  BY <1>1, <1>4
<1>6. QED
  BY <1>1, <1>2, <1>5 DEF jobs

-----------------------------------------------------------------------------
(* The invariant holds at the start and is kept by every action.           *)

\* The empty sequence, which is also the empty map.
LEMMA EmptySeq ==
    /\ \A S : <<>> \in Seq(S)
    /\ \A s : s = <<>> => Len(s) = 0 /\ DOMAIN s = {}
OBVIOUS

\* The invariant holds before the call begins.
LEMMA InitIInv == ASSUME Init PROVE IInv
<1> USE DEF Init
<1>1. TypeInv
  <2>1. step \in Nat /\ envFile \in Seq(EnvLines) /\ result \in Seq(Seq(JobOutcome))
    BY EmptySeq
  <2>2. response.code = "none" /\ pc = "path" /\ projectRoot \in Roots /\ path \in Paths
    OBVIOUS
  <2>3. config = NoConfig /\ globalEnv = <<>>
    OBVIOUS
  <2> HIDE DEF Init
  <2>4. QED
    BY <2>1, <2>2, <2>3 DEF TypeInv
<1>2. PathInv /\ PipelineInv /\ JobInv /\ ResponseInv
  BY DEF PathInv, PipelineInv, JobInv, ResponseInv
<1>3. ResultInv
  <2>1. result = <<>> /\ pipeline = <<>>
    OBVIOUS
  <2> HIDE DEF Init
  <2>2. Len(result) = 0 /\ DOMAIN result = {} /\ Len(pipeline) = 0
    BY <2>1, EmptySeq
  <2>3. QED
    BY <2>1, <2>2 DEF ResultInv
<1>4. QED
  BY <1>1, <1>2, <1>3 DEF IInv

\* The path check (server.go 49-54).
LEMMA CheckPathIInv == ASSUME IInv, CheckPath PROVE IInv'
<1>1. TypeInv /\ PathInv /\ PipelineInv /\ JobInv /\ ResultInv /\ ResponseInv
  BY DEF IInv
<1>2. /\ pc = "path" /\ response.code = "none" /\ response.message = ""
      /\ pc' = IF projectPathAllowed(projectRoot, path) THEN "load" ELSE "answered"
      /\ response' = IF projectPathAllowed(projectRoot, path) THEN response
                     ELSE [code |-> "InvalidArgument", message |-> "outside the root",
                           tree |-> <<>>]
  BY <1>1 DEF CheckPath, Refuse, ResponseInv
<1>3. /\ projectRoot' = projectRoot /\ path' = path
      /\ config' = config /\ globalEnv' = globalEnv /\ pipeline' = pipeline
      /\ job' = job /\ step' = step /\ envFile' = envFile /\ exported' = exported
      /\ result' = result
  BY DEF CheckPath, request, loaded, jobVars
<1>4. TypeInv'
  BY <1>1, <1>2, <1>3 DEF TypeInv
<1>5. PathInv'
  BY <1>2, <1>3 DEF PathInv
<1>6. PipelineInv'
  BY <1>1, <1>2, <1>3 DEF PipelineInv
<1>7. JobInv'
  BY <1>1, <1>2, <1>3 DEF JobInv
<1>8. ResultInv'
  BY <1>1, <1>2, <1>3 DEF ResultInv
<1>9. ResponseInv'
  BY <1>1, <1>2, <1>3 DEF ResponseInv
<1>10. QED
  BY <1>4, <1>5, <1>6, <1>7, <1>8, <1>9 DEF IInv

\* A refusal after the path check, with what it leaves alone.
LEMMA RefuseIInv ==
    ASSUME IInv, NEW code \in {"InvalidArgument", "Internal"},
           NEW message, message # "outside the root",
           pc \in {"load", "env", "runner"}, Refuse(code, message),
           UNCHANGED <<request, loaded, jobVars, result>>
    PROVE  IInv'
<1>1. TypeInv /\ PathInv /\ PipelineInv /\ JobInv /\ ResultInv /\ ResponseInv
  BY DEF IInv
<1>2. /\ pc \in {"load", "env", "runner"} /\ pc' = "answered"
      /\ response'.code = code /\ response'.message = message
      /\ response.code = "none" /\ response.message = ""
  BY <1>1 DEF Refuse, ResponseInv
<1>3. /\ projectRoot' = projectRoot /\ path' = path
      /\ config' = config /\ globalEnv' = globalEnv /\ pipeline' = pipeline
      /\ job' = job /\ step' = step /\ envFile' = envFile /\ exported' = exported
      /\ result' = result
  BY DEF request, loaded, jobVars
<1>4. TypeInv'
  BY <1>1, <1>2, <1>3 DEF TypeInv
<1>5. PathInv'
  BY <1>1, <1>2, <1>3 DEF PathInv
<1>6. PipelineInv'
  BY <1>1, <1>2, <1>3 DEF PipelineInv
<1>7. JobInv'
  BY <1>1, <1>2, <1>3 DEF JobInv
<1>8. ResultInv'
  BY <1>1, <1>2, <1>3 DEF ResultInv
<1>9. ResponseInv'
  BY <1>2 DEF ResponseInv
<1>10. QED
  BY <1>4, <1>5, <1>6, <1>7, <1>8, <1>9 DEF IInv

\* Load reads pipeline.toml and validates it.
LEMMA readPipelineIInv == ASSUME IInv, readPipeline PROVE IInv'
<1>1. TypeInv /\ PathInv /\ PipelineInv /\ JobInv /\ ResultInv /\ ResponseInv
  BY DEF IInv
<1>2. PICK file \in PipelineFiles :
         IF Validate(file)
         THEN pc' = "env" /\ config' = file /\ UNCHANGED response
         ELSE Refuse("InvalidArgument", "failed to load config") /\ UNCHANGED config
  BY DEF readPipeline
<1>3. /\ pc = "load"
      /\ projectRoot' = projectRoot /\ path' = path
      /\ globalEnv' = globalEnv /\ pipeline' = pipeline
      /\ job' = job /\ step' = step /\ envFile' = envFile /\ exported' = exported
      /\ result' = result
  BY DEF readPipeline, request, jobVars
<1>4. CASE ~Validate(file)
  <2>1. Refuse("InvalidArgument", "failed to load config") /\ config' = config
    BY <1>2, <1>4
  <2>2. UNCHANGED <<request, loaded, jobVars, result>>
    BY <2>1, <1>3 DEF request, loaded, jobVars
  <2>3. QED
    BY <2>1, <2>2, <1>3, RefuseIInv
<1>5. CASE Validate(file)
  <2>1. pc' = "env" /\ config' = file /\ response' = response /\ Accepted(file)
    BY <1>2, <1>5 DEF Accepted
  <2>2. TypeInv'
    BY <1>1, <1>3, <2>1 DEF TypeInv
  <2>3. PathInv'
    BY <1>1, <1>3, <2>1 DEF PathInv
  <2>4. PipelineInv'
    BY <1>1, <1>3, <2>1 DEF PipelineInv
  <2>5. JobInv'
    BY <1>1, <1>3, <2>1 DEF JobInv
  <2>6. ResultInv'
    BY <1>1, <1>3, <2>1 DEF ResultInv
  <2>7. ResponseInv'
    BY <1>1, <1>3, <2>1 DEF ResponseInv
  <2>8. QED
    BY <2>2, <2>3, <2>4, <2>5, <2>6, <2>7 DEF IInv
<1>6. QED
  BY <1>4, <1>5

\* Load reads env.toml and translates.
LEMMA loadEnvIInv == ASSUME IInv, loadEnv PROVE IInv'
<1>1. TypeInv /\ PathInv /\ PipelineInv /\ JobInv /\ ResultInv /\ ResponseInv
  BY DEF IInv
<1>2. /\ globalEnv' \in EnvFiles \cup {<<>>}
      /\ pipeline' = translate(config, globalEnv')
  BY DEF loadEnv
<1>3. /\ pc = "env" /\ pc' = "runner"
      /\ projectRoot' = projectRoot /\ path' = path /\ config' = config
      /\ job' = job /\ step' = step /\ envFile' = envFile /\ exported' = exported
      /\ result' = result /\ response' = response
  BY DEF loadEnv, request, jobVars
<1>4. Accepted(config)
  BY <1>1, <1>3 DEF PipelineInv
<1>5. pipeline' # <<>> /\ Len(pipeline') \in Nat
  BY <1>2, <1>4, PipelineForm
<1>6. TypeInv'
  BY <1>1, <1>2, <1>3 DEF TypeInv
<1>7. PathInv'
  BY <1>1, <1>3 DEF PathInv
<1>8. PipelineInv'
  BY <1>2, <1>3, <1>4, <1>5 DEF PipelineInv
<1>9. JobInv'
  BY <1>1, <1>3 DEF JobInv
<1>10. ResultInv'
  <2>1. result' = <<>>
    BY <1>1, <1>3 DEF ResultInv
  <2>2. Len(result') = 0 /\ DOMAIN result' = {}
    BY <2>1, EmptySeq
  <2>3. QED
    BY <2>1, <2>2, <1>5 DEF ResultInv
<1>11. ResponseInv'
  BY <1>1, <1>3 DEF ResponseInv
<1>12. QED
  BY <1>6, <1>7, <1>8, <1>9, <1>10, <1>11 DEF IInv

\* Load fails on one of the files.
LEMMA UnreadableIInv == ASSUME IInv, Unreadable PROVE IInv'
BY RefuseIInv DEF Unreadable

\* The server has no runner, or the run begins.
LEMMA UseRunnerIInv == ASSUME IInv, UseRunner PROVE IInv'
<1>1. TypeInv /\ PathInv /\ PipelineInv /\ JobInv /\ ResultInv /\ ResponseInv
  BY DEF IInv
<1>2. /\ pc = "runner"
      /\ projectRoot' = projectRoot /\ path' = path
      /\ config' = config /\ globalEnv' = globalEnv /\ pipeline' = pipeline
      /\ step' = step /\ envFile' = envFile /\ exported' = exported
      /\ result' = result
  BY DEF UseRunner, request, loaded
<1>3. CASE Refuse("Internal", "no runner configured") /\ UNCHANGED job
  <2>1. UNCHANGED <<request, loaded, jobVars, result>>
    BY <1>2, <1>3 DEF request, loaded, jobVars
  <2>2. QED
    BY <2>1, <1>2, <1>3, RefuseIInv
<1>4. CASE /\ pc' = "run"
           /\ \E s \in DOMAIN pipeline : job' \in ToSet(pipeline[s].jobs)
           /\ UNCHANGED response
  <2>1. pc' = "run" /\ response' = response
    BY <1>4
  <2>2. TypeInv'
    BY <1>1, <1>2, <2>1 DEF TypeInv
  <2>3. PathInv'
    BY <1>1, <1>2, <2>1 DEF PathInv
  <2>4. PipelineInv'
    BY <1>1, <1>2, <2>1 DEF PipelineInv
  <2>5. JobInv'
    <3>1. step' = 0
      BY <1>1, <1>2 DEF JobInv
    <3>2. Len(job'.steps) \in Nat
      <4>1. PICK s \in DOMAIN pipeline : job' \in ToSet(pipeline[s].jobs)
        BY <1>4
      <4>2. Accepted(config) /\ pipeline = translate(config, globalEnv)
        BY <1>1, <1>2 DEF PipelineInv
      <4>3. job'.steps \in Steps
        BY <4>1, <4>2, StageForm DEF ToSet
      <4>4. QED
        BY <4>3 DEF Steps
    <3>3. QED
      BY <3>1, <3>2, <1>2, <1>4 DEF JobInv
  <2>6. ResultInv'
    BY <1>1, <1>2, <2>1 DEF ResultInv
  <2>7. ResponseInv'
    BY <1>1, <1>2, <2>1 DEF ResponseInv
  <2>8. QED
    BY <2>2, <2>3, <2>4, <2>5, <2>6, <2>7 DEF IInv
<1>5. QED
  BY <1>3, <1>4 DEF UseRunner

\* The job that is followed has steps, as any of an accepted file.
LEMMA FollowedSteps == ASSUME IInv, pc \in {"run", "step"} PROVE job.steps \in Steps
<1>1. /\ \E s \in DOMAIN pipeline : job \in ToSet(pipeline[s].jobs)
      /\ Accepted(config) /\ pipeline = translate(config, globalEnv)
  BY DEF IInv, JobInv, PipelineInv
<1>2. QED
  BY <1>1, StageForm DEF ToSet

\* A step starts, with what the file holds.
LEMMA StepStartsIInv == ASSUME IInv, StepStarts PROVE IInv'
<1>1. TypeInv /\ PathInv /\ PipelineInv /\ JobInv /\ ResultInv /\ ResponseInv
  BY DEF IInv
<1>2. /\ pc = "run" /\ pc' = "step" /\ step < Len(job.steps) /\ step' = step + 1
      /\ exported' = parseEnvFile(envFile)
      /\ projectRoot' = projectRoot /\ path' = path
      /\ config' = config /\ globalEnv' = globalEnv /\ pipeline' = pipeline
      /\ job' = job /\ envFile' = envFile
      /\ result' = result /\ response' = response
  BY DEF StepStarts, request, loaded
<1>3. TypeInv'
  BY <1>1, <1>2 DEF TypeInv
<1>4. PathInv'
  BY <1>1, <1>2 DEF PathInv
<1>5. PipelineInv'
  BY <1>1, <1>2 DEF PipelineInv
<1>6. JobInv'
  <2>1. step \in Nat /\ Len(job.steps) \in Nat
    BY <1>1, <1>2, FollowedSteps DEF TypeInv, Steps
  <2>2. step' <= Len(job'.steps) /\ exported' = parseEnvFile(envFile')
    BY <1>2, <2>1
  <2>3. \E s \in DOMAIN pipeline : job \in ToSet(pipeline[s].jobs)
    BY <1>1, <1>2 DEF JobInv
  <2>4. QED
    BY <1>2, <2>2, <2>3 DEF JobInv
<1>7. ResultInv'
  BY <1>1, <1>2 DEF ResultInv
<1>8. ResponseInv'
  BY <1>1, <1>2 DEF ResponseInv
<1>9. QED
  BY <1>3, <1>4, <1>5, <1>6, <1>7, <1>8 DEF IInv

\* A step has written its lines.
LEMMA StepEndsIInv == ASSUME IInv, StepEnds PROVE IInv'
<1>1. TypeInv /\ PathInv /\ PipelineInv /\ JobInv /\ ResultInv /\ ResponseInv
  BY DEF IInv
<1>2. /\ pc = "step" /\ pc' = "run"
      /\ projectRoot' = projectRoot /\ path' = path
      /\ config' = config /\ globalEnv' = globalEnv /\ pipeline' = pipeline
      /\ job' = job /\ step' = step
      /\ result' = result /\ response' = response
  BY DEF StepEnds, request, loaded
<1>3. envFile' \in Seq(EnvLines)
  <2>1. PICK lines \in StepLines : envFile' = envFile \o lines
    BY DEF StepEnds
  <2>2. lines \in Seq(EnvLines) /\ envFile \in Seq(EnvLines)
    BY <1>1, RequestAssumption DEF TypeInv
  <2>3. QED
    BY <2>1, <2>2
<1>4. TypeInv'
  BY <1>1, <1>2, <1>3 DEF TypeInv
<1>5. PathInv'
  BY <1>1, <1>2 DEF PathInv
<1>6. PipelineInv'
  BY <1>1, <1>2 DEF PipelineInv
<1>7. JobInv'
  BY <1>1, <1>2 DEF JobInv
<1>8. ResultInv'
  BY <1>1, <1>2 DEF ResultInv
<1>9. ResponseInv'
  BY <1>1, <1>2 DEF ResponseInv
<1>10. QED
  BY <1>4, <1>5, <1>6, <1>7, <1>8, <1>9 DEF IInv

\* A stage returns: one more result, of the next stage.
LEMMA StageReturnsIInv == ASSUME IInv, StageReturns PROVE IInv'
<1>1. TypeInv /\ PathInv /\ PipelineInv /\ JobInv /\ ResultInv /\ ResponseInv
  BY DEF IInv
<1>2. PICK rs \in StageResults(pipeline[Len(result) + 1].jobs) : result' = Append(result, rs)
  BY DEF StageReturns
<1>3. /\ pc \in {"run", "stages"} /\ pc' = "stages"
      /\ pc = "stages" => Len(result) # Len(pipeline)
      /\ projectRoot' = projectRoot /\ path' = path
      /\ config' = config /\ globalEnv' = globalEnv /\ pipeline' = pipeline
      /\ job' = NoJob /\ step' = 0 /\ envFile' = <<>>
      /\ response' = response
  BY DEF StageReturns, RunEnded, request, loaded
<1>4. /\ Accepted(config) /\ pipeline = translate(config, globalEnv)
      /\ Len(pipeline) \in Nat \ {0} /\ DOMAIN pipeline = 1..Len(pipeline)
  BY <1>1, <1>3, PipelineForm DEF PipelineInv
<1>5. /\ result \in Seq(Seq(JobOutcome)) /\ Len(result) \in Nat
      /\ DOMAIN result = 1..Len(result)
  BY <1>1 DEF TypeInv
<1>6. Len(result) < Len(pipeline)
  <2>1. CASE pc = "run"
    <3>1. Len(result) = 0
      BY <1>1, <2>1, EmptySeq DEF ResultInv
    <3>2. QED
      BY <3>1, <1>4
  <2>2. CASE pc = "stages"
    <3>1. Len(result) <= Len(pipeline) /\ Len(result) # Len(pipeline)
      BY <2>2, <1>1, <1>3 DEF ResultInv
    <3>2. Len(result) \in Nat /\ Len(pipeline) \in Nat
      BY <1>4, <1>5
    <3>3. QED
      BY <3>1, <3>2
  <2>3. QED
    BY <2>1, <2>2, <1>3
<1>7. Len(result) + 1 \in DOMAIN pipeline
  BY <1>4, <1>5, <1>6
<1>8. rs \in Seq(JobOutcome)
  BY <1>2, <1>4, <1>7, StageResultType
<1>9. /\ result' \in Seq(Seq(JobOutcome)) /\ Len(result') = Len(result) + 1
      /\ DOMAIN result' = 1..(Len(result) + 1)
      /\ \A s \in 1..Len(result) : result'[s] = result[s]
      /\ result'[Len(result) + 1] = rs
  BY <1>2, <1>5, <1>8
<1>10. TypeInv'
  <2>1. step' \in Nat /\ envFile' \in Seq(EnvLines)
    BY <1>3, EmptySeq
  <2>2. QED
    BY <2>1, <1>1, <1>3, <1>9 DEF TypeInv
<1>11. PathInv'
  BY <1>1, <1>3 DEF PathInv
<1>12. PipelineInv'
  BY <1>1, <1>3 DEF PipelineInv
<1>13. JobInv'
  BY <1>3 DEF JobInv
<1>14. ResultInv'
  <2>1. ASSUME NEW s \in DOMAIN result' PROVE result'[s] \in StageResults(pipeline[s].jobs)
    <3>1. CASE s = Len(result) + 1
      BY <3>1, <1>2, <1>9
    <3>2. CASE s \in DOMAIN result
      BY <3>2, <1>1, <1>5, <1>9 DEF ResultInv
    <3>3. QED
      BY <3>1, <3>2, <1>5, <1>9
  <2>2. Len(result') <= Len(pipeline')
    <3>1. Len(result') = Len(result) + 1 /\ pipeline' = pipeline
      BY <1>3, <1>9
    <3>2. Len(result) \in Nat /\ Len(pipeline) \in Nat
      BY <1>4, <1>5
    <3>3. QED
      BY <3>1, <3>2, <1>6
  <2>3. QED
    BY <2>1, <2>2, <1>3 DEF ResultInv
<1>15. ResponseInv'
  BY <1>1, <1>3 DEF ResponseInv
<1>16. QED
  BY <1>10, <1>11, <1>12, <1>13, <1>14, <1>15 DEF IInv

\* The run has ended and its result is mapped.
LEMMA RespondIInv == ASSUME IInv, Respond PROVE IInv'
<1>1. TypeInv /\ PathInv /\ PipelineInv /\ JobInv /\ ResultInv /\ ResponseInv
  BY DEF IInv
<1>2. /\ pc = "stages" /\ pc' = "answered" /\ RunEnded
      /\ response'.code = "OK" /\ response'.message = ""
      /\ response'.tree = domainPipelineResultToProto(result)
  BY DEF Respond
<1>3. /\ projectRoot' = projectRoot /\ path' = path
      /\ config' = config /\ globalEnv' = globalEnv /\ pipeline' = pipeline
      /\ job' = job /\ step' = step /\ envFile' = envFile /\ exported' = exported
      /\ result' = result
  BY DEF Respond, request, loaded, jobVars
<1>4. TypeInv'
  BY <1>1, <1>2, <1>3 DEF TypeInv
<1>5. PathInv'
  <2>1. response.message = ""
    BY <1>1, <1>2 DEF ResponseInv
  <2>2. QED
    BY <2>1, <1>1, <1>2, <1>3 DEF PathInv
<1>6. PipelineInv'
  BY <1>1, <1>2, <1>3 DEF PipelineInv
<1>7. JobInv'
  BY <1>1, <1>2, <1>3 DEF JobInv
<1>8. ResultInv'
  BY <1>1, <1>2, <1>3 DEF ResultInv
<1>9. ResponseInv'
  <2>1. pipeline # <<>>
    BY <1>1, <1>2 DEF PipelineInv
  <2>2. RunEnded'
    BY <1>2, <1>3 DEF RunEnded
  <2>3. QED
    BY <2>1, <2>2, <1>2, <1>3 DEF ResponseInv
<1>10. QED
  BY <1>4, <1>5, <1>6, <1>7, <1>8, <1>9 DEF IInv

\* Nothing changes.
LEMMA StutterIInv == ASSUME IInv, UNCHANGED vars PROVE IInv'
<1>1. TypeInv /\ PathInv /\ PipelineInv /\ JobInv /\ ResultInv /\ ResponseInv
  BY DEF IInv
<1>2. /\ pc' = pc /\ projectRoot' = projectRoot /\ path' = path
      /\ config' = config /\ globalEnv' = globalEnv /\ pipeline' = pipeline
      /\ job' = job /\ step' = step /\ envFile' = envFile /\ exported' = exported
      /\ result' = result /\ response' = response
  BY DEF vars, request, loaded, jobVars
<1>3. TypeInv' /\ PathInv' /\ PipelineInv'
  BY <1>1, <1>2 DEF TypeInv, PathInv, PipelineInv
<1>4. JobInv' /\ ResultInv'
  BY <1>1, <1>2 DEF JobInv, ResultInv
<1>5. ResponseInv'
  BY <1>1, <1>2 DEF ResponseInv, RunEnded
<1>6. QED
  BY <1>3, <1>4, <1>5 DEF IInv

\* Every step keeps the invariant.
LEMMA NextIInv == ASSUME IInv, [Next]_vars PROVE IInv'
BY CheckPathIInv, readPipelineIInv, loadEnvIInv, UnreadableIInv, UseRunnerIInv,
   StepStartsIInv, StepEndsIInv, StageReturnsIInv, RespondIInv, StutterIInv DEF Next

(***************************************************************************)
(* What the theorems below rest on holds at every point of the call, from  *)
(* the path check to the answer (server.go 48-75).                         *)
(***************************************************************************)
THEOREM Invariant == Spec => []IInv
<1>1. Init => IInv
  BY InitIInv
<1>2. IInv /\ [Next]_vars => IInv'
  BY NextIInv
<1>3. QED
  BY <1>1, <1>2, PTL DEF Spec

-----------------------------------------------------------------------------
(* The statuses of a run that ended.                                       *)

\* What a run that ended may have for a status.
FinalStatuses == {"passed", "failed", "errored"}

\* JobResult.Status of an outcome.
JobStatus(r) == JobResultStatus(r.setupErr, r.results)

\* Final statuses, at least one, aggregate to a final one.
LEMMA AggregateFinal ==
    ASSUME NEW S \in SUBSET FinalStatuses, S # {}
    PROVE  /\ AggregateStatus(S) \in FinalStatuses
           /\ AggregateStatus(S) = "passed" <=> \A s \in S : s = "passed"
<1>1. S \in SUBSET Statuses
  BY DEF FinalStatuses, Statuses
<1>2. WorstOf(S) \in S \cup {"passed"}
  BY <1>1, WorstOfIsWorst
<1>3. WorstOf(S) = "passed" <=> \A s \in S : s = "passed"
  BY <1>1, WorstOfPassed
<1>4. AggregateStatus(S) = WorstOf(S)
  BY DEF AggregateStatus
<1>5. QED
  BY <1>2, <1>3, <1>4 DEF FinalStatuses

\* A job with steps has a final status; it passed if all its steps have.
LEMMA JobFinal ==
    ASSUME NEW steps \in Steps, steps # <<>>, NEW r \in JobResults(steps)
    PROVE  /\ JobStatus(r) \in FinalStatuses
           /\ JobStatus(r) = "passed" =>
                 /\ DOMAIN r.results = DOMAIN steps
                 /\ \A n \in DOMAIN steps : StepStatus(r.results[n]) = "passed"
<1>1. CASE r = [setupErr |-> TRUE, results |-> <<>>]
  BY <1>1 DEF JobStatus, JobResultStatus, FinalStatuses
<1>2. CASE \E rs \in StepResults(steps) : r = [setupErr |-> FALSE, results |-> rs]
  <2>1. PICK rs \in StepResults(steps) : r = [setupErr |-> FALSE, results |-> rs]
    BY <1>2
  <2>2. Len(steps) \in Nat \ {0} /\ DOMAIN steps = 1..Len(steps)
    BY DEF Steps
  <2>3. PICK n \in 0..(Len(steps) + 1) : rs \in [1..n -> StepOutcomes]
    BY <2>1 DEF StepResults
  <2>4. n \in Nat /\ Len(rs) = n /\ DOMAIN rs = 1..n
    BY <2>2, <2>3
  <2>5. /\ n = Len(steps)
           \/ (rs # <<>> /\ (rs[n].err \/ TimedOut(steps, n, rs[n])))
    BY <2>1, <2>4 DEF StepResults, Last
  <2>6. n # 0
    <3>1. SUFFICES ASSUME n = 0 PROVE FALSE
      OBVIOUS
    <3>2. rs \in Seq(StepOutcomes)
      BY <2>3, <2>4
    <3>3. rs = <<>>
      BY <3>1, <3>2, <2>4
    <3>4. QED
      BY <3>1, <3>3, <2>2, <2>5
  <2> DEFINE S == {StepStatus(rs[i]) : i \in DOMAIN rs}
  <2>7. S \in SUBSET FinalStatuses
    BY DEF StepStatus, FinalStatuses
  <2>8. n \in DOMAIN rs /\ S # {}
    <3>1. n \in DOMAIN rs
      BY <2>4, <2>6
    <3>2. QED
      BY <3>1
  <2>9. JobStatus(r) = AggregateStatus(S)
    BY <2>1 DEF JobStatus, JobResultStatus
  <2>10. ASSUME JobStatus(r) = "passed"
         PROVE  n = Len(steps) /\ \A i \in 1..n : StepStatus(rs[i]) = "passed"
    <3>1. \A i \in 1..n : StepStatus(rs[i]) = "passed"
      <4>1. \A t \in S : t = "passed"
        <5> HIDE DEF S
        <5>1. QED
          BY <2>7, <2>8, <2>9, <2>10, AggregateFinal
      <4>2. QED
        BY <4>1, <2>4
    <3>2. StepStatus(rs[n]) = "passed"
      BY <3>1, <2>4, <2>8
    <3>3. rs[n] \in StepOutcomes
      BY <2>3, <2>4, <2>8
    <3>4. rs[n].err = FALSE /\ rs[n].exit = "zero"
      BY <3>2, <3>3 DEF StepStatus, StepOutcomes
    <3>5. ~TimedOut(steps, n, rs[n])
      BY <3>4 DEF TimedOut
    <3>6. QED
      BY <3>1, <3>4, <3>5, <2>5
  <2>11. r.results = rs
    BY <2>1
  <2> HIDE DEF S
  <2>12. JobStatus(r) \in FinalStatuses
    BY <2>7, <2>8, <2>9, AggregateFinal
  <2>13. QED
    BY <2>2, <2>4, <2>10, <2>11, <2>12
<1>3. QED
  BY <1>1, <1>2 DEF JobResults

\* A stage has a final status: it passed if all its jobs have.
LEMMA StageFinal ==
    ASSUME NEW root, Accepted(root), NEW env, NEW s \in DOMAIN translate(root, env),
           NEW rs \in StageResults(translate(root, env)[s].jobs)
    PROVE  /\ DOMAIN rs = DOMAIN translate(root, env)[s].jobs /\ 1 \in DOMAIN rs
           /\ \A n \in DOMAIN rs : JobStatus(rs[n]) \in FinalStatuses
           /\ StageStatus(rs) \in FinalStatuses
           /\ StageStatus(rs) = "passed" <=> \A n \in DOMAIN rs : JobStatus(rs[n]) = "passed"
<1> DEFINE jobs == translate(root, env)[s].jobs
           S == {JobStatus(rs[n]) : n \in DOMAIN rs}
<1>1. /\ Len(jobs) \in Nat \ {0} /\ DOMAIN jobs = 1..Len(jobs)
      /\ \A n \in DOMAIN jobs : jobs[n].steps \in Steps /\ jobs[n].steps # <<>>
  BY StageForm
<1>2. /\ rs \in Seq(JobOutcome) /\ Len(rs) = Len(jobs)
      /\ \A n \in DOMAIN jobs : rs[n] \in JobResults(jobs[n].steps)
  BY StageResultType
<1>3. DOMAIN rs = DOMAIN jobs /\ 1 \in DOMAIN rs
  BY <1>1, <1>2
<1>4. ASSUME NEW n \in DOMAIN rs PROVE JobStatus(rs[n]) \in FinalStatuses
  BY <1>1, <1>2, <1>3, JobFinal
<1>5. S \in SUBSET FinalStatuses /\ S # {}
  BY <1>3, <1>4
<1>6. StageStatus(rs) = AggregateStatus(S)
  BY DEF StageStatus, JobStatus, Range
<1> HIDE DEF jobs
<1>7. /\ StageStatus(rs) \in FinalStatuses
      /\ StageStatus(rs) = "passed" <=> \A t \in S : t = "passed"
  BY <1>5, <1>6, AggregateFinal
<1>8. QED
  BY <1>3, <1>4, <1>7 DEF jobs

\* A run that ended has a final status: it passed if all its stages have,
\* and then it has had them all.
LEMMA RunFinal ==
    ASSUME IInv, pipeline # <<>>, RunEnded
    PROVE  /\ DOMAIN result \subseteq DOMAIN pipeline /\ DOMAIN result # {}
           /\ \A s \in DOMAIN result : StageStatus(result[s]) \in FinalStatuses
           /\ PipelineStatus(result) \in FinalStatuses
           /\ PipelineStatus(result) = "passed" <=>
                 \A s \in DOMAIN result : StageStatus(result[s]) = "passed"
           /\ PipelineStatus(result) = "passed" => DOMAIN result = DOMAIN pipeline
<1> DEFINE S == {StageStatus(result[s]) : s \in DOMAIN result}
<1>1. /\ Accepted(config) /\ pipeline = translate(config, globalEnv)
      /\ Len(pipeline) \in Nat \ {0} /\ DOMAIN pipeline = 1..Len(pipeline)
  BY PipelineForm DEF IInv, PipelineInv
<1>2. /\ Len(result) \in Nat /\ DOMAIN result = 1..Len(result)
      /\ result # <<>> => Len(result) # 0
  BY DEF IInv, TypeInv
<1>3. /\ Len(result) <= Len(pipeline)
      /\ \A s \in DOMAIN result : result[s] \in StageResults(pipeline[s].jobs)
  BY DEF IInv, ResultInv
<1>4. Len(result) # 0
  BY <1>1, <1>2 DEF RunEnded
<1>5. DOMAIN result \subseteq DOMAIN pipeline
  BY <1>1, <1>2, <1>3
<1>6. ASSUME NEW s \in DOMAIN result PROVE StageStatus(result[s]) \in FinalStatuses
  BY <1>1, <1>3, <1>5, StageFinal
<1>7. Len(result) \in DOMAIN result
  BY <1>2, <1>4
<1>8. S \in SUBSET FinalStatuses /\ S # {}
  BY <1>6, <1>7
<1>9. PipelineStatus(result) = AggregateStatus(S)
  BY DEF PipelineStatus, Range
<1>10. /\ PipelineStatus(result) \in FinalStatuses
       /\ PipelineStatus(result) = "passed" <=> \A t \in S : t = "passed"
  BY <1>8, <1>9, AggregateFinal
<1>11. PipelineStatus(result) = "passed" <=>
         \A s \in DOMAIN result : StageStatus(result[s]) = "passed"
  BY <1>10
<1>12. ASSUME PipelineStatus(result) = "passed" PROVE DOMAIN result = DOMAIN pipeline
  <2>1. StageStatus(Last(result)) = "passed"
    BY <1>7, <1>11, <1>12 DEF Last
  <2>2. Len(result) = Len(pipeline)
    BY <2>1 DEF RunEnded, EndsTheRun
  <2>3. QED
    BY <2>2, <1>1, <1>2
<1> HIDE DEF S
<1>13. QED
  BY <1>5, <1>6, <1>7, <1>10, <1>11, <1>12

\* The mapping of a final status is one, and of Passed alone Passed.
LEMMA ProtoFinal ==
    ASSUME NEW s \in FinalStatuses
    PROVE  /\ domainStatusToProto(s) \in {"STATUS_PASSED", "STATUS_FAILED", "STATUS_ERRORED"}
           /\ domainStatusToProto(s) = "STATUS_PASSED" <=> s = "passed"
BY DEF FinalStatuses, domainStatusToProto

-----------------------------------------------------------------------------
(* The response.                                                           *)

\* What a response that is OK holds, stage by stage and job by job.
LEMMA TreeForm ==
    ASSUME IInv, response.code = "OK"
    PROVE  LET tree == response.tree
           IN  /\ pipeline # <<>> /\ RunEnded
               /\ tree.status = domainStatusToProto(PipelineStatus(result))
               /\ DOMAIN tree.stages = DOMAIN result
               /\ \A s \in DOMAIN result :
                     /\ tree.stages[s].status = domainStatusToProto(StageStatus(result[s]))
                     /\ DOMAIN tree.stages[s].jobs = DOMAIN result[s]
                     /\ \A n \in DOMAIN result[s] :
                           tree.stages[s].jobs[n] = domainJobResultToProto(result[s][n])
<1> DEFINE tree == response.tree
<1>1. tree = domainPipelineResultToProto(result) /\ pipeline # <<>> /\ RunEnded
  BY DEF IInv, ResponseInv
<1> HIDE DEF tree
<1>2. /\ tree.status = domainStatusToProto(PipelineStatus(result))
      /\ tree.stages = [n \in DOMAIN result |-> domainStageResultToProto(result[n])]
  BY <1>1 DEF domainPipelineResultToProto
<1>3. DOMAIN tree.stages = DOMAIN result
  BY <1>2
<1>4. ASSUME NEW s \in DOMAIN result
      PROVE  /\ tree.stages[s].status = domainStatusToProto(StageStatus(result[s]))
             /\ DOMAIN tree.stages[s].jobs = DOMAIN result[s]
             /\ \A n \in DOMAIN result[s] :
                   tree.stages[s].jobs[n] = domainJobResultToProto(result[s][n])
  <2>1. tree.stages[s] = domainStageResultToProto(result[s])
    BY <1>2
  <2>2. /\ tree.stages[s].status = domainStatusToProto(StageStatus(result[s]))
        /\ tree.stages[s].jobs =
              [n \in DOMAIN result[s] |-> domainJobResultToProto(result[s][n])]
    BY <2>1 DEF domainStageResultToProto
  <2>3. QED
    BY <2>2
<1>5. QED
  BY <1>1, <1>2, <1>3, <1>4, Zenon DEF tree

\* The stages of the run, as StageFinal has them.
LEMMA ResultStage ==
    ASSUME IInv, pipeline # <<>>, RunEnded, NEW s \in DOMAIN result
    PROVE  /\ s \in DOMAIN pipeline
           /\ DOMAIN result[s] = DOMAIN pipeline[s].jobs /\ 1 \in DOMAIN result[s]
           /\ StageStatus(result[s]) \in FinalStatuses
           /\ \A n \in DOMAIN result[s] :
                 /\ JobStatus(result[s][n]) \in FinalStatuses
                 /\ JobStatus(result[s][n]) = "passed" =>
                       /\ DOMAIN result[s][n].results = DOMAIN pipeline[s].jobs[n].steps
                       /\ \A m \in DOMAIN pipeline[s].jobs[n].steps :
                             StepStatus(result[s][n].results[m]) = "passed"
           /\ StageStatus(result[s]) = "passed" <=>
                 \A n \in DOMAIN result[s] : JobStatus(result[s][n]) = "passed"
<1>1. /\ Accepted(config) /\ pipeline = translate(config, globalEnv)
      /\ s \in DOMAIN pipeline /\ result[s] \in StageResults(pipeline[s].jobs)
  BY RunFinal DEF IInv, PipelineInv, ResultInv
<1>2. /\ DOMAIN result[s] = DOMAIN pipeline[s].jobs /\ 1 \in DOMAIN result[s]
      /\ StageStatus(result[s]) \in FinalStatuses
      /\ \A n \in DOMAIN result[s] : JobStatus(result[s][n]) \in FinalStatuses
      /\ StageStatus(result[s]) = "passed" <=>
            \A n \in DOMAIN result[s] : JobStatus(result[s][n]) = "passed"
  BY <1>1, StageFinal
<1>3. /\ \A n \in DOMAIN pipeline[s].jobs : /\ pipeline[s].jobs[n].steps \in Steps
                                            /\ pipeline[s].jobs[n].steps # <<>>
      /\ \A n \in DOMAIN pipeline[s].jobs :
            result[s][n] \in JobResults(pipeline[s].jobs[n].steps)
  BY <1>1, StageForm, StageResultType
<1>4. ASSUME NEW n \in DOMAIN result[s], JobStatus(result[s][n]) = "passed"
      PROVE  /\ DOMAIN result[s][n].results = DOMAIN pipeline[s].jobs[n].steps
             /\ \A m \in DOMAIN pipeline[s].jobs[n].steps :
                   StepStatus(result[s][n].results[m]) = "passed"
  BY <1>2, <1>3, <1>4, JobFinal
<1>5. QED
  BY <1>1, <1>2, <1>4

\* A job in the response: its status, and its steps when it passed.
LEMMA JobProto ==
    ASSUME NEW r, JobStatus(r) \in FinalStatuses
    PROVE  /\ domainJobResultToProto(r).status \in
                 {"STATUS_PASSED", "STATUS_FAILED", "STATUS_ERRORED"}
           /\ domainJobResultToProto(r).status = "STATUS_PASSED" <=> JobStatus(r) = "passed"
           /\ (\A m \in DOMAIN r.results : StepStatus(r.results[m]) = "passed") =>
                 domainJobResultToProto(r).steps = [m \in DOMAIN r.results |-> "STATUS_PASSED"]
<1>1. domainJobResultToProto(r).status = domainStatusToProto(JobStatus(r))
  BY DEF domainJobResultToProto, JobStatus
<1>2. domainJobResultToProto(r).steps =
        [m \in DOMAIN r.results |-> domainStatusToProto(StepStatus(r.results[m]))]
  BY DEF domainJobResultToProto, domainStepResultToProto
<1>3. domainStatusToProto("passed") = "STATUS_PASSED"
  BY DEF domainStatusToProto
<1>4. QED
  BY <1>1, <1>2, <1>3, ProtoFinal

\* Stage by stage and job by job, the tree has final statuses.
LEMMA ResponseFinal == ASSUME IInv PROVE ResponseIsFinal
<1> DEFINE Final == {"STATUS_PASSED", "STATUS_FAILED", "STATUS_ERRORED"}
           tree == response.tree
<1>1. SUFFICES ASSUME response.code = "OK"
               PROVE  /\ tree.status \in Final
                      /\ \A stage \in Range(tree.stages) :
                            /\ stage.status \in Final
                            /\ stage.jobs # <<>>
                            /\ \A j \in Range(stage.jobs) : j.status \in Final
  BY DEF ResponseIsFinal
<1>2. tree.status \in Final
  BY <1>1, TreeForm, RunFinal, ProtoFinal
<1>3. ASSUME NEW stage \in Range(tree.stages)
      PROVE  /\ stage.status \in Final /\ stage.jobs # <<>>
             /\ \A j \in Range(stage.jobs) : j.status \in Final
  <2>1. PICK s \in DOMAIN result : stage = tree.stages[s]
    BY <1>1, <1>3, TreeForm DEF Range
  <2>2. /\ stage.status = domainStatusToProto(StageStatus(result[s]))
        /\ DOMAIN stage.jobs = DOMAIN result[s]
        /\ \A n \in DOMAIN result[s] : stage.jobs[n] = domainJobResultToProto(result[s][n])
    BY <1>1, <2>1, TreeForm
  <2>3. /\ StageStatus(result[s]) \in FinalStatuses /\ 1 \in DOMAIN result[s]
        /\ \A n \in DOMAIN result[s] : JobStatus(result[s][n]) \in FinalStatuses
    BY <1>1, TreeForm, ResultStage
  <2>4. stage.status \in Final
    BY <2>2, <2>3, ProtoFinal
  <2>5. stage.jobs # <<>>
    BY <2>2, <2>3, EmptySeq
  <2>6. ASSUME NEW j \in Range(stage.jobs) PROVE j.status \in Final
    <3>1. PICK n \in DOMAIN result[s] : j = domainJobResultToProto(result[s][n])
      BY <2>2, <2>6 DEF Range
    <3>2. QED
      BY <3>1, <2>3, JobProto
  <2>7. QED
    BY <2>4, <2>5, <2>6
<1>4. QED
  BY <1>2, <1>3

(***************************************************************************)
(* The statuses of a response are those of a run that ended (mapping.go    *)
(* 50-98, models.go 92-98), whatever file Validate accepts and however the *)
(* jobs end.                                                               *)
(***************************************************************************)
THEOREM ResponseIsAlwaysFinal == Spec => []ResponseIsFinal
<1>1. IInv => ResponseIsFinal
  BY ResponseFinal
<1>2. QED
  BY <1>1, Invariant, PTL

\* The status of the tree against those of its stages, jobs and steps.
LEMMA PassedIsPassed == ASSUME IInv PROVE PassedMeansAllPassed
<1> DEFINE tree == response.tree
           jobs == UNION {Range(stage.jobs) : stage \in Range(tree.stages)}
           passed == "STATUS_PASSED"
<1>1. SUFFICES ASSUME response.code = "OK"
               PROVE
        /\ (tree.status = passed) = (\A stage \in Range(tree.stages) : stage.status = passed)
        /\ (tree.status = passed) = (\A j \in jobs : j.status = passed)
        /\ tree.status = passed =>
              /\ DOMAIN tree.stages = DOMAIN pipeline
              /\ \A s \in DOMAIN pipeline : \A n \in DOMAIN pipeline[s].jobs :
                    tree.stages[s].jobs[n].steps =
                        [m \in DOMAIN pipeline[s].jobs[n].steps |-> passed]
  BY DEF PassedMeansAllPassed
<1>2. pipeline # <<>> /\ RunEnded /\ DOMAIN tree.stages = DOMAIN result
  BY <1>1, TreeForm
<1>3. /\ tree.status = passed <=> \A s \in DOMAIN result : StageStatus(result[s]) = "passed"
      /\ tree.status = passed => DOMAIN result = DOMAIN pipeline
  <2>1. tree.status = domainStatusToProto(PipelineStatus(result))
    BY <1>1, TreeForm
  <2>2. /\ PipelineStatus(result) \in FinalStatuses
        /\ PipelineStatus(result) = "passed" <=>
              \A s \in DOMAIN result : StageStatus(result[s]) = "passed"
        /\ PipelineStatus(result) = "passed" => DOMAIN result = DOMAIN pipeline
    BY <1>2, RunFinal
  <2>3. tree.status = passed <=> PipelineStatus(result) = "passed"
    BY <2>1, <2>2, ProtoFinal
  <2>4. QED
    BY <2>2, <2>3
<1>4. ASSUME NEW s \in DOMAIN result
      PROVE  tree.stages[s].status = passed <=> StageStatus(result[s]) = "passed"
  BY <1>1, <1>2, TreeForm, ResultStage, ProtoFinal
<1>5. ASSUME NEW s \in DOMAIN result
      PROVE  /\ DOMAIN tree.stages[s].jobs = DOMAIN result[s]
             /\ \A n \in DOMAIN result[s] :
                   tree.stages[s].jobs[n] = domainJobResultToProto(result[s][n])
  BY <1>1, TreeForm
<1>6. ASSUME NEW s \in DOMAIN result, NEW n \in DOMAIN result[s]
      PROVE  tree.stages[s].jobs[n].status = passed <=> JobStatus(result[s][n]) = "passed"
  <2>1. JobStatus(result[s][n]) \in FinalStatuses
    BY <1>2, ResultStage
  <2>2. domainJobResultToProto(result[s][n]).status = passed
           <=> JobStatus(result[s][n]) = "passed"
    BY <2>1, JobProto
  <2>3. tree.stages[s].jobs[n] = domainJobResultToProto(result[s][n])
    BY <1>5
  <2> HIDE DEF tree
  <2>4. QED
    BY <2>2, <2>3
<1>7. tree.status = passed <=> \A stage \in Range(tree.stages) : stage.status = passed
  <2> HIDE DEF tree
  <2>1. QED
    BY <1>2, <1>3, <1>4 DEF Range
<1>8. tree.status = passed <=> \A j \in jobs : j.status = passed
  <2>1. ASSUME tree.status = passed, NEW j \in jobs PROVE j.status = passed
    <3>1. PICK s \in DOMAIN result : j \in Range(tree.stages[s].jobs)
      BY <1>2, <2>1 DEF Range
    <3>2. PICK n \in DOMAIN result[s] : j = tree.stages[s].jobs[n]
      BY <1>5, <3>1 DEF Range
    <3>3. JobStatus(result[s][n]) = "passed"
      BY <1>2, <1>3, <2>1, ResultStage
    <3>4. QED
      BY <1>6, <3>2, <3>3
  <2>2. ASSUME \A j \in jobs : j.status = passed, NEW s \in DOMAIN result
        PROVE  StageStatus(result[s]) = "passed"
    <3>1. ASSUME NEW n \in DOMAIN result[s] PROVE JobStatus(result[s][n]) = "passed"
      <4>1. tree.stages[s].jobs[n] \in jobs
        BY <1>2, <1>5 DEF Range
      <4>2. QED
        BY <4>1, <1>6, <2>2
    <3>2. QED
      BY <3>1, <1>2, ResultStage
  <2>3. QED
    BY <2>1, <2>2, <1>3
<1>9. ASSUME tree.status = passed, NEW s \in DOMAIN pipeline, NEW n \in DOMAIN pipeline[s].jobs
      PROVE  tree.stages[s].jobs[n].steps =
                [m \in DOMAIN pipeline[s].jobs[n].steps |-> passed]
  <2>1. /\ s \in DOMAIN result /\ StageStatus(result[s]) = "passed"
        /\ n \in DOMAIN result[s]
    BY <1>2, <1>3, <1>9, ResultStage
  <2>2. JobStatus(result[s][n]) = "passed"
    BY <2>1, <1>2, ResultStage
  <2>3. /\ DOMAIN result[s][n].results = DOMAIN pipeline[s].jobs[n].steps
        /\ \A m \in DOMAIN pipeline[s].jobs[n].steps :
              StepStatus(result[s][n].results[m]) = "passed"
    BY <2>1, <2>2, <1>2, ResultStage
  <2>4. domainJobResultToProto(result[s][n]).steps =
          [m \in DOMAIN pipeline[s].jobs[n].steps |-> passed]
    <3>1. JobStatus(result[s][n]) \in FinalStatuses
      BY <2>2 DEF FinalStatuses
    <3>2. QED
      BY <3>1, <2>3, JobProto
  <2>5. QED
    BY <2>1, <2>4, <1>5
<1> HIDE DEF tree, jobs
<1>10. QED
  BY <1>2, <1>3, <1>7, <1>8, <1>9

(***************************************************************************)
(* STATUS_PASSED is said of a run all of whose stages ran and all of whose *)
(* steps passed, and of no other; the stages alone, and the jobs alone,    *)
(* say the same (mapping.go 29-98, orchestrator.go 94-123).                *)
(***************************************************************************)
THEOREM PassedResponseIsPassedRun == Spec => []PassedMeansAllPassed
<1>1. IInv => PassedMeansAllPassed
  BY PassedIsPassed
<1>2. QED
  BY <1>1, Invariant, PTL

-----------------------------------------------------------------------------
(* What a loop over a sequence computes, turn by turn.                     *)

\* F is the body of a loop that turns an S and a T into an S.
Body(F, S, T) == F \in [S \X T -> S]

\* g holds what the loop has after each turn over the first k of s.
Computes(g, k, F, S, init, s) ==
    /\ g \in [0..k -> S]
    /\ g[0] = init
    /\ \A n \in 1..k : g[n] = F[<<g[n - 1], s[n]>>]

\* A loop over a sequence computes something: there is a g as above.
LEMMA LoopExists ==
    ASSUME NEW S, NEW T, NEW F, Body(F, S, T), NEW init \in S, NEW s \in Seq(T)
    PROVE  \E g : Computes(g, Len(s), F, S, init, s)
<1> DEFINE Bad == {k \in 0..Len(s) : ~\E g : Computes(g, k, F, S, init, s)}
<1>1. Len(s) \in Nat
  OBVIOUS
<1>2. SUFFICES ASSUME Bad # {} PROVE FALSE
  <2>1. CASE Bad = {}
    <3>1. Len(s) \in 0..Len(s)
      BY <1>1
    <3>2. QED
      BY <2>1, <3>1
  <2>2. QED
    BY <2>1
<1>3. PICK k \in Bad : \A m \in Bad : k <= m
  <2>1. Bad \in SUBSET Nat
    BY <1>1
  <2> HIDE DEF Bad
  <2>2. QED
    BY <1>2, <2>1, Smallest
<1>4. k \in Nat /\ k <= Len(s) /\ ~\E g : Computes(g, k, F, S, init, s)
  BY <1>1
<1>5. CASE k = 0
  <2>1. Computes([n \in 0..0 |-> init], 0, F, S, init, s)
    BY DEF Computes
  <2>2. QED
    BY <2>1, <1>4, <1>5
<1>6. CASE k # 0
  <2>1. k - 1 \in 0..Len(s) /\ k - 1 \notin Bad
    <3>1. k - 1 \in 0..Len(s) /\ ~(k <= k - 1)
      BY <1>1, <1>4, <1>6
    <3> HIDE DEF Bad
    <3>2. QED
      BY <3>1, <1>3
  <2>2. PICK g : Computes(g, k - 1, F, S, init, s)
    BY <2>1
  <2> DEFINE h == [n \in 0..k |-> IF n = k THEN F[<<g[k - 1], s[k]>>] ELSE g[n]]
  <2>3. /\ g \in [0..(k - 1) -> S] /\ g[0] = init
        /\ \A n \in 1..(k - 1) : g[n] = F[<<g[n - 1], s[n]>>]
    BY <2>2 DEF Computes
  <2>4. s[k] \in T /\ g[k - 1] \in S
    BY <1>1, <1>4, <1>6, <2>3
  <2>5. F[<<g[k - 1], s[k]>>] \in S
    BY <2>4 DEF Body
  <2>6. h \in [0..k -> S]
    BY <1>4, <1>6, <2>3, <2>5
  <2>7. h[0] = init
    BY <1>4, <1>6, <2>3
  <2>8. ASSUME NEW n \in 1..k PROVE h[n] = F[<<h[n - 1], s[n]>>]
    <3>1. h[n - 1] = g[n - 1]
      BY <1>4
    <3>2. CASE n = k
      <4>1. h[n] = F[<<g[k - 1], s[k]>>]
        BY <3>2, <1>4
      <4> HIDE DEF h
      <4>2. QED
        BY <4>1, <3>1, <3>2
    <3>3. CASE n # k
      <4>1. n \in 1..(k - 1) /\ h[n] = g[n]
        BY <1>4, <3>3
      <4>2. QED
        BY <4>1, <3>1, <2>3
    <3>4. QED
      BY <3>2, <3>3
  <2> HIDE DEF h
  <2>9. Computes(h, k, F, S, init, s)
    BY <2>6, <2>7, <2>8 DEF Computes
  <2>10. QED
    BY <2>9, <1>4
<1>7. QED
  BY <1>5, <1>6

-----------------------------------------------------------------------------
(* The path check.                                                         *)

\* The names a clean path has.
Names == STRING \ {".", ".."}

\* One component of a path leads to a clean path.
LEMMA WalkClean ==
    ASSUME NEW dir \in Seq(Names), NEW name \in STRING
    PROVE  Walk(dir, name) \in Seq(Names)
<1>1. CASE name = "."
  BY <1>1 DEF Walk
<1>2. CASE name = ".."
  <2>1. dir # <<>> => Front(dir) \in Seq(Names)
    BY DEF Front
  <2>2. QED
    BY <1>2, <2>1 DEF Walk
<1>3. CASE name \notin {".", ".."}
  BY <1>3 DEF Walk, Names
<1>4. QED
  BY <1>1, <1>2, <1>3

\* On the way there is no "." and no "..".
LEMMA WalkedClean ==
    ASSUME NEW start \in Seq(Names), NEW p \in Seq(STRING)
    PROVE  Walked(start, p) \in [0..Len(p) -> Seq(Names)]
<1> DEFINE F == [x \in Seq(Names) \X STRING |-> Walk(x[1], x[2])]
           dir == CHOOSE d : d = [n \in 0..Len(p) |->
                                    IF n = 0 THEN start ELSE Walk(d[n - 1], p[n])]
<1>1. F \in [Seq(Names) \X STRING -> Seq(Names)]
  BY WalkClean
<1>2. \A a \in Seq(Names) : \A b \in STRING : F[<<a, b>>] = Walk(a, b)
  OBVIOUS
<1> HIDE DEF F
<1>3. PICK g \in [0..Len(p) -> Seq(Names)] :
         /\ g[0] = start
         /\ \A n \in 1..Len(p) : g[n] = F[<<g[n - 1], p[n]>>]
  <2>1. Body(F, Seq(Names), STRING)
    BY <1>1 DEF Body
  <2>2. \E g : Computes(g, Len(p), F, Seq(Names), start, p)
    BY <2>1, LoopExists
  <2>3. QED
    BY <2>2 DEF Computes
<1>4. ASSUME NEW n \in 0..Len(p), n # 0 PROVE g[n] = Walk(g[n - 1], p[n])
  <2>1. n \in 1..Len(p) /\ n - 1 \in 0..Len(p)
    BY <1>4
  <2>2. g[n - 1] \in Seq(Names) /\ p[n] \in STRING
    BY <2>1
  <2>3. QED
    BY <2>1, <2>2, <1>2, <1>3
<1>5. g = [n \in 0..Len(p) |-> IF n = 0 THEN start ELSE Walk(g[n - 1], p[n])]
  BY <1>3, <1>4
<1>6. dir = [n \in 0..Len(p) |-> IF n = 0 THEN start ELSE Walk(dir[n - 1], p[n])]
  BY <1>5
<1>7. Walked(start, p) = dir
  BY DEF Walked
<1> HIDE DEF dir
<1>8. ASSUME NEW n \in 0..Len(p) PROVE dir[n] \in Seq(Names)
  <2> DEFINE Bad == {m \in 0..Len(p) : dir[m] \notin Seq(Names)}
  <2>1. SUFFICES ASSUME Bad # {} PROVE FALSE
    OBVIOUS
  <2>2. PICK m \in Bad : \A l \in Bad : m <= l
    <3>1. Bad \in SUBSET Nat
      OBVIOUS
    <3> HIDE DEF Bad
    <3>2. QED
      BY <2>1, <3>1, Smallest
  <2>3. m # 0
    BY <1>6
  <2>4. m - 1 \in 0..Len(p) /\ m - 1 \notin Bad /\ p[m] \in STRING
    BY <2>2, <2>3
  <2>5. dir[m] = Walk(dir[m - 1], p[m])
    BY <1>6, <2>3
  <2>6. QED
    BY <2>4, <2>5, WalkClean
<1>9. DOMAIN dir = 0..Len(p) /\ dir = [n \in 0..Len(p) |-> dir[n]]
  BY <1>6
<1>10. QED
  BY <1>7, <1>8, <1>9

\* filepath.Abs returns a clean path.
LEMMA AbsClean ==
    ASSUME NEW p \in Seq(STRING)
    PROVE  Abs(p) \in Seq(Names)
<1>1. CASE Absolute(p)
  <2>1. /\ Tail(p) \in Seq(STRING) /\ Len(Tail(p)) = Len(p) - 1
        /\ Len(p) - 1 \in Nat
    BY <1>1 DEF Absolute
  <2>2. <<>> \in Seq(Names)
    OBVIOUS
  <2>3. Walked(<<>>, Tail(p)) \in [0..(Len(p) - 1) -> Seq(Names)]
    BY <2>1, <2>2, WalkedClean
  <2>4. QED
    BY <1>1, <2>1, <2>3 DEF Abs
<1>2. CASE ~Absolute(p)
  <2>1. Cwd \in Seq(Names) /\ Len(p) \in Nat
    BY RequestAssumption DEF Names
  <2>2. Walked(Cwd, p) \in [0..Len(p) -> Seq(Names)]
    BY <2>1, WalkedClean
  <2>3. QED
    BY <1>2, <2>1, <2>2 DEF Abs
<1>3. QED
  BY <1>1, <1>2

\* There is a place where two paths part, or base ends.
LEMMA PartExists ==
    ASSUME NEW base \in Seq(Names), NEW target \in Seq(Names)
    PROVE  \E n \in 0..Len(base) : Agree(base, target, n) /\ ~Agree(base, target, n + 1)
<1> DEFINE Parted == {n \in 0..Len(base) : ~Agree(base, target, n + 1)}
<1>1. Len(base) \in Nat /\ Len(target) \in Nat
  OBVIOUS
<1>2. Len(base) \in Parted
  BY <1>1 DEF Agree
<1>3. PICK n \in Parted : \A m \in Parted : n <= m
  <2>1. Parted \in SUBSET Nat
    BY <1>1
  <2> HIDE DEF Parted
  <2>2. QED
    BY <1>2, <2>1, Smallest
<1>4. CASE n = 0
  BY <1>1, <1>4 DEF Agree
<1>5. CASE n # 0
  <2>1. n - 1 \in 0..Len(base) /\ n - 1 \notin Parted /\ (n - 1) + 1 = n
    <3>1. n - 1 \in 0..Len(base) /\ ~(n <= n - 1) /\ (n - 1) + 1 = n
      BY <1>1, <1>5
    <3> HIDE DEF Parted
    <3>2. QED
      BY <3>1, <1>3
  <2>2. QED
    BY <2>1
<1>6. QED
  BY <1>4, <1>5

\* To get from base to target one first climbs out of base, unless it is a
\* prefix: a target without ".." cannot begin a relative path with it.
LEMMA ClimbsOutIff ==
    ASSUME NEW base \in Seq(Names), NEW target \in Seq(Names)
    PROVE  ClimbsOut(Rel(base, target)) <=> ~IsPrefix(base, target)
<1> DEFINE n == CHOOSE m \in 0..Len(base) :
                    Agree(base, target, m) /\ ~Agree(base, target, m + 1)
           up == [m \in 1..(Len(base) - n) |-> ".."]
           down == SubSeq(target, n + 1, Len(target))
<1>1. Len(base) \in Nat /\ Len(target) \in Nat
  OBVIOUS
<1>2. n \in 0..Len(base) /\ Agree(base, target, n) /\ ~Agree(base, target, n + 1)
  BY PartExists
<1>3. Rel(base, target) = up \o down
  BY DEF Rel
<1> HIDE DEF n
<1>4. n \in Nat /\ n <= Len(base) /\ n <= Len(target)
  BY <1>1, <1>2 DEF Agree
<1>5. up \in Seq({".."}) /\ Len(up) = Len(base) - n
  <2> DEFINE k == Len(base) - n
  <2>1. k \in Nat /\ up = [m \in 1..k |-> ".."]
    BY <1>1, <1>4
  <2> HIDE DEF k, up
  <2>2. up \in [1..k -> {".."}]
    BY <2>1
  <2>3. up \in Seq({".."}) /\ Len(up) = k
    BY <2>1, <2>2
  <2>4. QED
    BY <2>3 DEF k
<1>6. /\ down \in Seq(Names) /\ Len(down) = Len(target) - n
      /\ Len(down) # 0 => down[1] = target[n + 1]
  BY <1>1, <1>4
<1>7. CASE n = Len(base)
  <2>1. IsPrefix(base, target)
    <3>1. Len(base) <= Len(target) /\ \A m \in 1..Len(base) : base[m] = target[m]
      BY <1>2, <1>7 DEF Agree
    <3>2. SubSeq(base, 1, Len(base)) = SubSeq(target, 1, Len(base))
      BY <3>1, <1>1
    <3>3. QED
      BY <3>1, <3>2 DEF IsPrefix
  <2>2. up = <<>>
    BY <1>5, <1>7, <1>1
  <2> HIDE DEF up, down
  <2>3. Rel(base, target) = down
    BY <2>2, <1>3, <1>6
  <2>4. down # <<>> => down[1] \in Names
    BY <1>6
  <2>5. ~ClimbsOut(Rel(base, target))
    BY <2>3, <2>4 DEF ClimbsOut, Names
  <2>6. QED
    BY <2>1, <2>5
<1>8. CASE n # Len(base)
  <2>1. up[1] = ".." /\ Len(up) \in Nat \ {0}
    <3>1. Len(base) - n \in Nat \ {0} /\ 1 \in 1..(Len(base) - n)
      BY <1>1, <1>4, <1>8
    <3>2. QED
      BY <3>1, <1>5
  <2> HIDE DEF up, down
  <2>2. up \in Seq(Names \cup {".."}) /\ down \in Seq(Names \cup {".."})
    BY <1>5, <1>6
  <2>3. Rel(base, target) # <<>> /\ Rel(base, target)[1] = ".."
    BY <2>1, <2>2, <1>3
  <2>4. ASSUME IsPrefix(base, target) PROVE FALSE
    <3>1. Len(base) <= Len(target) /\ SubSeq(base, 1, Len(base)) = SubSeq(target, 1, Len(base))
      BY <2>4 DEF IsPrefix
    <3>2. \A m \in 1..Len(base) : base[m] = SubSeq(base, 1, Len(base))[m]
      BY <1>1
    <3>3. \A m \in 1..Len(base) : target[m] = SubSeq(target, 1, Len(base))[m]
      BY <1>1, <3>1
    <3>4. Agree(base, target, n + 1)
      BY <1>1, <1>4, <1>8, <3>1, <3>2, <3>3 DEF Agree
    <3>5. QED
      BY <3>4, <1>2
  <2>5. QED
    BY <2>3, <2>4 DEF ClimbsOut
<1>9. QED
  BY <1>7, <1>8

\* What the check answered is what the components say.
LEMMA AllowedIff == ASSUME IInv PROVE AllowedIffUnderRoot
<1>1. SUFFICES ASSUME pc # "path"
               PROVE  (response.message = "outside the root") <=>
                      (projectRoot # <<>> /\ ~IsPrefix(Abs(projectRoot), Abs(path)))
  BY DEF AllowedIffUnderRoot
<1>2. projectRoot \in Seq(STRING) /\ path \in Seq(STRING)
  BY RequestAssumption DEF IInv, TypeInv
<1>3. ClimbsOut(Rel(Abs(projectRoot), Abs(path))) <=> ~IsPrefix(Abs(projectRoot), Abs(path))
  BY <1>2, AbsClean, ClimbsOutIff
<1>4. (response.message = "outside the root") = ~projectPathAllowed(projectRoot, path)
  BY <1>1 DEF IInv, PathInv
<1>5. QED
  BY <1>3, <1>4 DEF projectPathAllowed

(***************************************************************************)
(* The path check lets through what is under the root and nothing else     *)
(* (server.go 49-54, path.go 11-28), for any root, path and working        *)
(* directory.                                                              *)
(***************************************************************************)
THEOREM AllowedAlwaysIffUnderRoot == Spec => []AllowedIffUnderRoot
<1>1. IInv => AllowedIffUnderRoot
  BY AllowedIff
<1>2. QED
  BY <1>1, Invariant, PTL

-----------------------------------------------------------------------------
(* The environment of the steps.                                           *)

\* A bounded set of naturals has a largest element.
LEMMA Largest ==
    ASSUME NEW S \in SUBSET Nat, S # {}, NEW b \in Nat, \A e \in S : e <= b
    PROVE  \E e \in S : \A f \in S : f <= e
<1> DEFINE U == {n \in Nat : \A e \in S : e <= n}
<1>1. U \in SUBSET Nat /\ U # {}
  OBVIOUS
<1>2. PICK n \in U : \A m \in U : n <= m
  BY <1>1, Smallest
<1>3. ASSUME n \notin S PROVE FALSE
  <2>1. PICK e \in S : TRUE
    OBVIOUS
  <2>2. n # 0
    BY <1>2, <1>3, <2>1
  <2>3. n - 1 \in U
    BY <1>2, <1>3, <2>2
  <2>4. QED
    BY <1>2, <2>3
<1>4. QED
  BY <1>2, <1>3

\* The maps a file may be parsed to.
Envs == UNION {[D -> STRING] : D \in SUBSET STRING}

\* A line turns a map into a map.
LEMMA AssignType ==
    ASSUME NEW env \in Envs, NEW line \in EnvLines
    PROVE  Assign(env, line) \in Envs
<1>1. CASE line = <<>>
  BY <1>1 DEF Assign
<1>2. CASE line # <<>>
  <2>1. line[1] \in STRING /\ line[2] \in STRING
    BY <1>2 DEF EnvLines
  <2>2. PICK D \in SUBSET STRING : env \in [D -> STRING]
    BY DEF Envs
  <2>3. Assign(env, line) =
          [k \in D \cup {line[1]} |-> IF k = line[1] THEN line[2] ELSE env[k]]
    BY <1>2, <2>2 DEF Assign
  <2>4. Assign(env, line) \in [D \cup {line[1]} -> STRING]
    BY <2>1, <2>2, <2>3
  <2>5. D \cup {line[1]} \in SUBSET STRING
    BY <2>1
  <2>6. QED
    BY <2>4, <2>5 DEF Envs
<1>3. QED
  BY <1>1, <1>2

\* The map after each line is the one before it with the line's assignment.
LEMMA EnvAfterTurns ==
    ASSUME NEW lines \in Seq(EnvLines)
    PROVE  /\ envAfter(lines)[0] = <<>>
           /\ \A n \in 1..Len(lines) :
                 envAfter(lines)[n] = Assign(envAfter(lines)[n - 1], lines[n])
<1> DEFINE F == [x \in Envs \X EnvLines |-> Assign(x[1], x[2])]
           env == CHOOSE e : e = [n \in 0..Len(lines) |->
                                    IF n = 0 THEN <<>> ELSE Assign(e[n - 1], lines[n])]
<1>1. Body(F, Envs, EnvLines)
  BY AssignType DEF Body
<1>2. \A a \in Envs : \A b \in EnvLines : F[<<a, b>>] = Assign(a, b)
  OBVIOUS
<1>3. <<>> \in Envs
  <2>1. <<>> \in [{} -> STRING]
    OBVIOUS
  <2>2. QED
    BY <2>1 DEF Envs
<1> HIDE DEF F
<1>4. \E g : Computes(g, Len(lines), F, Envs, <<>>, lines)
  BY <1>1, <1>3, LoopExists
<1>5. PICK g \in [0..Len(lines) -> Envs] :
         /\ g[0] = <<>>
         /\ \A n \in 1..Len(lines) : g[n] = F[<<g[n - 1], lines[n]>>]
  BY <1>4 DEF Computes
<1>6. ASSUME NEW n \in 0..Len(lines), n # 0 PROVE g[n] = Assign(g[n - 1], lines[n])
  <2>1. n \in 1..Len(lines) /\ n - 1 \in 0..Len(lines)
    BY <1>6
  <2>2. g[n - 1] \in Envs /\ lines[n] \in EnvLines
    BY <2>1
  <2>3. QED
    BY <2>1, <2>2, <1>2, <1>5
<1>7. g = [n \in 0..Len(lines) |-> IF n = 0 THEN <<>> ELSE Assign(g[n - 1], lines[n])]
  BY <1>5, <1>6
<1>8. env = [n \in 0..Len(lines) |-> IF n = 0 THEN <<>> ELSE Assign(env[n - 1], lines[n])]
  BY <1>7
<1>9. envAfter(lines) = env
  BY DEF envAfter
<1> HIDE DEF env
<1>10. QED
  BY <1>8, <1>9

\* The first n lines that assign to v.
LinesOf(lines, n, v) == {m \in 1..n : lines[m] # <<>> /\ lines[m][1] = v}

\* env has v as the last of the first n lines that assign to it says.
Latest(lines, n, v, env) ==
    /\ v \in DOMAIN env <=> LinesOf(lines, n, v) # {}
    /\ \A m \in LinesOf(lines, n, v) :
          (\A l \in LinesOf(lines, n, v) : l <= m) => env[v] = lines[m][2]

\* One more line: it sets its own variable and no other.
LEMMA AssignLatest ==
    ASSUME NEW lines \in Seq(EnvLines), NEW n \in 1..Len(lines), NEW v, NEW env,
           Latest(lines, n - 1, v, env)
    PROVE  Latest(lines, n, v, Assign(env, lines[n]))
<1> DEFINE line == lines[n]
           before == LinesOf(lines, n - 1, v)
           after == LinesOf(lines, n, v)
           new == Assign(env, line)
<1>1. /\ v \in DOMAIN env <=> before # {}
      /\ \A m \in before : (\A l \in before : l <= m) => env[v] = lines[m][2]
  BY DEF Latest
<1>2. n \in Nat \ {0} /\ 1..n = (1..(n - 1)) \cup {n} /\ before \subseteq 1..(n - 1)
  BY DEF LinesOf
<1>3. CASE line # <<>> /\ line[1] = v
  <2>1. after = before \cup {n}
    BY <1>2, <1>3 DEF LinesOf
  <2>2. v \in DOMAIN new /\ new[v] = line[2]
    BY <1>3 DEF Assign
  <2> HIDE DEF before, after, new
  <2>3. ASSUME NEW m \in after, \A l \in after : l <= m PROVE m = n
    BY <1>2, <2>1, <2>3
  <2>4. v \in DOMAIN new <=> after # {}
    BY <2>1, <2>2
  <2>5. \A m \in after : (\A l \in after : l <= m) => new[v] = lines[m][2]
    BY <2>2, <2>3
  <2>6. QED
    BY <2>4, <2>5 DEF Latest, after, new
<1>4. CASE line = <<>> \/ line[1] # v
  <2>1. after = before
    BY <1>2, <1>4 DEF LinesOf
  <2>2. /\ v \in DOMAIN new <=> v \in DOMAIN env
        /\ v \in DOMAIN env => new[v] = env[v]
    BY <1>4 DEF Assign
  <2> HIDE DEF before, after, new
  <2>3. \A m \in after : (\A l \in after : l <= m) => new[v] = lines[m][2]
    BY <1>1, <2>1, <2>2
  <2>4. v \in DOMAIN new <=> after # {}
    BY <1>1, <2>1, <2>2
  <2>5. QED
    BY <2>3, <2>4 DEF Latest, after, new
<1>5. QED
  BY <1>3, <1>4

\* What parseEnvFile makes of a file.
LEMMA ParsedLatest ==
    ASSUME NEW lines \in Seq(EnvLines), NEW v
    PROVE  Latest(lines, Len(lines), v, parseEnvFile(lines))
<1> DEFINE Bad == {n \in 0..Len(lines) : ~Latest(lines, n, v, envAfter(lines)[n])}
<1>1. Len(lines) \in Nat
  OBVIOUS
<1>2. ASSUME Bad # {} PROVE FALSE
  <2>1. PICK n \in Bad : \A m \in Bad : n <= m
    <3>1. Bad \in SUBSET Nat
      BY <1>1
    <3> HIDE DEF Bad
    <3>2. QED
      BY <1>2, <3>1, Smallest
  <2>2. CASE n = 0
    <3>1. envAfter(lines)[n] = <<>> /\ LinesOf(lines, n, v) = {}
      BY <2>2, EnvAfterTurns DEF LinesOf
    <3>2. Latest(lines, n, v, envAfter(lines)[n])
      BY <3>1, EmptySeq DEF Latest
    <3>3. QED
      BY <3>2
  <2>3. CASE n # 0
    <3>1. n \in 1..Len(lines) /\ n - 1 \in 0..Len(lines) /\ ~(n <= n - 1)
      BY <1>1, <2>3
    <3>2. n - 1 \notin Bad
      <4> HIDE DEF Bad
      <4>1. QED
        BY <2>1, <3>1
    <3>3. Latest(lines, n, v, envAfter(lines)[n])
      BY <3>1, <3>2, EnvAfterTurns, AssignLatest
    <3>4. QED
      BY <3>3
  <2>4. QED
    BY <2>2, <2>3
<1>3. Len(lines) \in 0..Len(lines) /\ Len(lines) \notin Bad
  BY <1>1, <1>2
<1>4. QED
  BY <1>3 DEF parseEnvFile

\* The followed job's environment is its own over env.toml's.
LEMMA FollowedEnv ==
    ASSUME IInv, pc \in {"run", "step"}
    PROVE  job.env = mergeEnv(globalEnv, config.jobs[job.name].env)
<1>1. PICK s \in DOMAIN pipeline : job \in ToSet(pipeline[s].jobs)
  BY DEF IInv, JobInv
<1>2. Accepted(config) /\ config \in PipelineFiles /\ pipeline = translate(config, globalEnv)
  BY <1>1 DEF IInv, PipelineInv, Accepted
<1>3. pipeline[s].jobs = jobsByStage(config, config.stages[s], globalEnv)
  BY <1>1, <1>2, PipelineForm
<1>4. PICK n \in DOMAIN pipeline[s].jobs : job = pipeline[s].jobs[n]
  BY <1>1 DEF ToSet
<1>5. \E k : job = Job(config, k, globalEnv)
  BY <1>2, <1>3, <1>4, StageJobs
<1>6. QED
  BY <1>5 DEF Job

\* The exec's environment covers the container's, which covers env.toml's.
LEMMA SeesLatest == ASSUME IInv PROVE StepSeesLatest
<1> DEFINE Lines(v) == {n \in DOMAIN envFile : envFile[n] # <<>> /\ envFile[n][1] = v}
           jobEnv == config.jobs[job.name].env
<1>1. SUFFICES ASSUME pc = "step",
                      NEW v \in DOMAIN globalEnv \cup DOMAIN jobEnv \cup DOMAIN exported
               PROVE  StepEnv(v) =
                        IF Lines(v) # {}
                        THEN envFile[CHOOSE n \in Lines(v) : \A m \in Lines(v) : m <= n][2]
                        ELSE IF v \in DOMAIN jobEnv THEN jobEnv[v] ELSE globalEnv[v]
  BY DEF StepSeesLatest
<1>2. exported = parseEnvFile(envFile) /\ envFile \in Seq(EnvLines)
  BY <1>1 DEF IInv, JobInv, TypeInv
<1>3. Len(envFile) \in Nat /\ DOMAIN envFile = 1..Len(envFile)
  BY <1>2
<1>4. Lines(v) = LinesOf(envFile, Len(envFile), v)
  BY <1>3 DEF LinesOf
<1>5. Latest(envFile, Len(envFile), v, exported)
  BY <1>2, ParsedLatest
<1>6. job.env = mergeEnv(globalEnv, jobEnv)
  BY <1>1, FollowedEnv
<1>7. CASE Lines(v) # {}
  <2> DEFINE last == CHOOSE n \in Lines(v) : \A m \in Lines(v) : m <= n
  <2>1. Lines(v) \in SUBSET Nat /\ \A n \in Lines(v) : n <= Len(envFile)
    BY <1>3
  <2>2. \E n \in Lines(v) : \A m \in Lines(v) : m <= n
    <3> HIDE DEF Lines
    <3>1. QED
      BY <1>3, <1>7, <2>1, Largest
  <2>3. last \in Lines(v) /\ \A m \in Lines(v) : m <= last
    BY <2>2
  <2> HIDE DEF last, Lines
  <2>4. v \in DOMAIN exported /\ exported[v] = envFile[last][2]
    BY <1>4, <1>5, <1>7, <2>3 DEF Latest
  <2>5. StepEnv(v) = envFile[last][2]
    BY <2>4 DEF StepEnv
  <2>6. QED
    BY <2>5, <1>7 DEF last
<1>8. CASE Lines(v) = {}
  <2> HIDE DEF Lines
  <2>1. v \notin DOMAIN exported
    BY <1>4, <1>5, <1>8 DEF Latest
  <2>2. StepEnv(v) = IF v \in DOMAIN jobEnv THEN jobEnv[v] ELSE globalEnv[v]
    BY <1>1, <1>6, <2>1 DEF StepEnv, mergeEnv
  <2>3. QED
    BY <2>2, <1>8
<1>9. QED
  BY <1>7, <1>8

(***************************************************************************)
(* In every step a variable has the value exported last by the steps       *)
(* before it, or else the job's, or else env.toml's (envfile.go 8-21,      *)
(* docker.go 214-243, loader.go 97-103), whatever the steps write.         *)
(***************************************************************************)
THEOREM StepAlwaysSeesLatest == Spec => []StepSeesLatest
<1>1. IInv => StepSeesLatest
  BY SeesLatest
<1>2. QED
  BY <1>1, Invariant, PTL

-----------------------------------------------------------------------------
(* The jobs of the pipeline, and the types.                                *)

\* What is in the pipeline is a job of the file, in its stage.
LEMMA InItsStage ==
    ASSUME NEW root, Accepted(root), NEW env,
           NEW s \in DOMAIN translate(root, env), NEW n \in DOMAIN translate(root, env)[s].jobs
    PROVE  LET p == translate(root, env)
           IN  /\ p[s].jobs[n].name \in DOMAIN root.jobs
               /\ root.jobs[p[s].jobs[n].name].stage = p[s].name
<1> DEFINE p == translate(root, env)
           keys == Sorted(Keys(root, root.stages[s]))
<1>1. p[s].name = root.stages[s] /\ p[s].jobs = jobsByStage(root, root.stages[s], env)
  BY PipelineForm
<1>2. root \in PipelineFiles
  BY DEF Accepted
<1>3. p[s].jobs[n] = Job(root, keys[n], env) /\ keys[n] \in Keys(root, root.stages[s])
  BY <1>1, <1>2, StageJobs
<1>4. p[s].jobs[n].name = keys[n]
  BY <1>3 DEF Job
<1>5. keys[n] \in DOMAIN root.jobs /\ root.jobs[keys[n]].stage = root.stages[s]
  BY <1>3 DEF Keys
<1> HIDE DEF p, keys
<1>6. p[s].jobs[n].name \in DOMAIN root.jobs /\ root.jobs[p[s].jobs[n].name].stage = p[s].name
  BY <1>1, <1>4, <1>5
<1>7. QED
  BY <1>6 DEF p

\* The job k has one place in the pipeline p.
HasOnePlace(p, k) ==
    \E s \in DOMAIN p : \E n \in DOMAIN p[s].jobs :
       /\ p[s].jobs[n].name = k
       /\ \A t \in DOMAIN p : \A m \in DOMAIN p[t].jobs :
             p[t].jobs[m].name = k => t = s /\ m = n

\* So has each job of an accepted file.
LEMMA OnePlace ==
    ASSUME NEW root, Accepted(root), NEW env, NEW k \in DOMAIN root.jobs
    PROVE  HasOnePlace(translate(root, env), k)
<1> DEFINE p == translate(root, env)
           stage == root.jobs[k].stage
           keys == Keys(root, stage)
<1>1. /\ DOMAIN root.stages = DOMAIN p /\ DOMAIN p = 1..Len(p) /\ Len(p) \in Nat
      /\ \A s \in DOMAIN p : /\ p[s].name = root.stages[s]
                             /\ p[s].jobs = jobsByStage(root, root.stages[s], env)
  BY PipelineForm
<1>2. root \in PipelineFiles /\ ~UndeclaredStage(root) /\ ~DuplicateStage(root)
  BY DEF Accepted, Validate
<1> HIDE DEF p
<1>3. PICK s \in DOMAIN p : root.stages[s] = stage
  BY <1>1, <1>2 DEF UndeclaredStage, Range
<1>4. ASSUME NEW t \in DOMAIN p, root.stages[t] = stage PROVE t = s
  BY <1>1, <1>2, <1>3, <1>4 DEF DuplicateStage
<1>5. /\ Sorted(keys) \in [1..Cardinality(keys) -> keys] /\ Range(Sorted(keys)) = keys
      /\ \A a, b \in DOMAIN Sorted(keys) : a < b => Sorted(keys)[a] < Sorted(keys)[b]
      /\ Cardinality(keys) \in Nat
      /\ DOMAIN p[s].jobs = DOMAIN Sorted(keys)
      /\ \A n \in DOMAIN p[s].jobs : p[s].jobs[n].name = Sorted(keys)[n]
  BY <1>1, <1>2, <1>3, StageJobs DEF Enumerates, Job
<1>6. k \in keys
  BY DEF Keys
<1>7. PICK n \in DOMAIN Sorted(keys) : Sorted(keys)[n] = k
  BY <1>5, <1>6 DEF Range
<1>8. ASSUME NEW m \in DOMAIN p[s].jobs, p[s].jobs[m].name = k PROVE m = n
  <2> DEFINE f == Sorted(keys)
  <2>1. /\ m \in 1..Cardinality(keys) /\ n \in 1..Cardinality(keys) /\ f[m] = k /\ f[n] = k
    BY <1>5, <1>7, <1>8
  <2>2. k \in Nat
    BY <1>2, RequestAssumption
  <2>3. \A a, b \in 1..Cardinality(keys) : a < b => f[a] < f[b]
    BY <1>5
  <2> HIDE DEF f
  <2>4. QED
    BY <2>1, <2>2, <2>3, <1>5
<1>9. ASSUME NEW t \in DOMAIN p, NEW m \in DOMAIN p[t].jobs, p[t].jobs[m].name = k
      PROVE  t = s /\ m = n
  <2>1. root.jobs[p[t].jobs[m].name].stage = p[t].name
    BY InItsStage DEF p
  <2>2. t = s
    BY <1>1, <1>4, <1>9, <2>1
  <2>3. QED
    BY <1>8, <1>9, <2>2
<1>10. n \in DOMAIN p[s].jobs /\ p[s].jobs[n].name = k
  BY <1>5, <1>7
<1>11. QED
  BY <1>9, <1>10 DEF p, HasOnePlace

\* The places of the jobs, and their order in a stage.
LEMMA EveryJobOnce == ASSUME IInv PROVE RunsEveryJobOnce
<1> DEFINE Places(k) ==
               {q \in UNION {{s} \X DOMAIN pipeline[s].jobs : s \in DOMAIN pipeline} :
                   pipeline[q[1]].jobs[q[2]].name = k}
<1>1. SUFFICES ASSUME pipeline # <<>>
               PROVE  /\ [s \in DOMAIN pipeline |-> pipeline[s].name] = config.stages
                      /\ \A k \in DOMAIN config.jobs : Cardinality(Places(k)) = 1
                      /\ \A s \in DOMAIN pipeline : \A n \in DOMAIN pipeline[s].jobs :
                            /\ pipeline[s].jobs[n].name \in DOMAIN config.jobs
                            /\ config.jobs[pipeline[s].jobs[n].name].stage = pipeline[s].name
                      /\ \A s \in DOMAIN pipeline : \A m, n \in DOMAIN pipeline[s].jobs :
                            m < n => pipeline[s].jobs[m].name < pipeline[s].jobs[n].name
  BY DEF RunsEveryJobOnce
<1>2. Accepted(config) /\ config \in PipelineFiles /\ pipeline = translate(config, globalEnv)
  BY <1>1 DEF IInv, PipelineInv, Accepted
<1>3. /\ DOMAIN config.stages = DOMAIN pipeline
      /\ \A s \in DOMAIN pipeline :
            /\ pipeline[s].name = config.stages[s]
            /\ pipeline[s].jobs = jobsByStage(config, config.stages[s], globalEnv)
  BY <1>2, PipelineForm
<1>4. [s \in DOMAIN pipeline |-> pipeline[s].name] = config.stages
  <2>1. config.stages \in Seq(STRING)
    BY <1>2, RequestAssumption
  <2>2. config.stages = [s \in DOMAIN config.stages |-> config.stages[s]]
    BY <2>1
  <2>3. QED
    BY <2>2, <1>3
<1>5. ASSUME NEW k \in DOMAIN config.jobs PROVE Cardinality(Places(k)) = 1
  <2>0. HasOnePlace(pipeline, k)
    BY <1>2, OnePlace
  <2>1. PICK s \in DOMAIN pipeline : \E n \in DOMAIN pipeline[s].jobs :
           /\ pipeline[s].jobs[n].name = k
           /\ \A t \in DOMAIN pipeline : \A m \in DOMAIN pipeline[t].jobs :
                 pipeline[t].jobs[m].name = k => t = s /\ m = n
    BY <2>0 DEF HasOnePlace
  <2>2. PICK n \in DOMAIN pipeline[s].jobs :
           /\ pipeline[s].jobs[n].name = k
           /\ \A t \in DOMAIN pipeline : \A m \in DOMAIN pipeline[t].jobs :
                 pipeline[t].jobs[m].name = k => t = s /\ m = n
    BY <2>1
  <2>3. <<s, n>> \in Places(k)
    BY <2>2
  <2>4. ASSUME NEW q \in Places(k) PROVE q = <<s, n>>
    <3>1. PICK t \in DOMAIN pipeline : q \in {t} \X DOMAIN pipeline[t].jobs
      OBVIOUS
    <3>2. PICK m \in DOMAIN pipeline[t].jobs : q = <<t, m>>
      BY <3>1
    <3>3. pipeline[t].jobs[m].name = k
      BY <3>2
    <3>4. QED
      BY <3>2, <3>3, <2>2
  <2> HIDE DEF Places
  <2>5. Places(k) = {<<s, n>>}
    BY <2>3, <2>4
  <2>6. QED
    BY <2>5, FS_Singleton
<1>6. ASSUME NEW s \in DOMAIN pipeline,
             NEW m \in DOMAIN pipeline[s].jobs, NEW n \in DOMAIN pipeline[s].jobs, m < n
      PROVE  pipeline[s].jobs[m].name < pipeline[s].jobs[n].name
  <2> DEFINE keys == Keys(config, config.stages[s])
  <2>1. /\ DOMAIN pipeline[s].jobs = DOMAIN Sorted(keys)
        /\ \A a \in DOMAIN pipeline[s].jobs : pipeline[s].jobs[a].name = Sorted(keys)[a]
        /\ \A a, b \in DOMAIN Sorted(keys) : a < b => Sorted(keys)[a] < Sorted(keys)[b]
    BY <1>2, <1>3, StageJobs DEF Enumerates, Job
  <2> HIDE DEF keys
  <2>2. QED
    BY <2>1, <1>6
<1>7. \A s \in DOMAIN pipeline : \A n \in DOMAIN pipeline[s].jobs :
         /\ pipeline[s].jobs[n].name \in DOMAIN config.jobs
         /\ config.jobs[pipeline[s].jobs[n].name].stage = pipeline[s].name
  BY <1>2, InItsStage
<1> HIDE DEF Places
<1>8. QED
  BY <1>4, <1>5, <1>6, <1>7

(***************************************************************************)
(* Of a file that Validate accepts, each job is in the pipeline once, in   *)
(* its stage and in the order of the keys (loader.go 56-93, models.go      *)
(* 44-100), whatever the file declares.                                    *)
(***************************************************************************)
THEOREM EveryJobIsRunOnce == Spec => []RunsEveryJobOnce
<1>1. IInv => RunsEveryJobOnce
  BY EveryJobOnce
<1>2. QED
  BY <1>1, Invariant, PTL

\* The types, and the bounds that follow from the invariant.
LEMMA TypesOK == ASSUME IInv PROVE RequestTypeOK
<1>1. TypeInv /\ JobInv /\ ResultInv
  BY DEF IInv
<1>2. step \in 0..Len(job.steps)
  <2>1. CASE pc \in {"run", "step"}
    <3>1. step \in Nat /\ step <= Len(job.steps) /\ Len(job.steps) \in Nat
      BY <1>1, <2>1, FollowedSteps DEF TypeInv, JobInv, Steps
    <3>2. QED
      BY <3>1
  <2>2. CASE pc \notin {"run", "step"}
    <3>1. step = 0 /\ job.steps = <<>>
      BY <1>1, <2>2 DEF JobInv, NoJob
    <3>2. Len(job.steps) = 0
      BY <3>1, EmptySeq
    <3>3. QED
      BY <3>1, <3>2
  <2>3. QED
    BY <2>1, <2>2
<1>3. response.code = "OK" => response.tree.status # "STATUS_UNSPECIFIED"
  BY TreeForm, RunFinal, ProtoFinal
<1>4. QED
  BY <1>1, <1>2, <1>3 DEF RequestTypeOK, TypeInv, ResultInv

(***************************************************************************)
(* The types hold, whatever the constants (server.go 48-75).               *)
(***************************************************************************)
THEOREM RequestTypesHold == Spec => []RequestTypeOK
<1>1. IInv => RequestTypeOK
  BY TypesOK
<1>2. QED
  BY <1>1, Invariant, PTL
=============================================================================
