------------------------- MODULE DockerRunnerProofs -------------------------
(***************************************************************************)
(* The safety properties of DockerRunner, for any number of jobs, steps    *)
(* and setup commands, any set of timed steps, and commands of which any   *)
(* number may close their output and go on.                                *)
(*                                                                         *)
(* None of them is inductive.  The invariant IInv says, for each point of  *)
(* Run, what the results so far have to do with what really happened in    *)
(* the container; the properties follow from it at the point "returned".   *)
(***************************************************************************)
EXTENDS DockerRunner, StatusLemmas, SequenceTheorems

-----------------------------------------------------------------------------
(* The invariant.                                                          *)

BeforeLoop ==
    {"idle", "pull", "create", "copy", "abandon", "start", "setup", "setupExec"}

EnvironmentAtFault == ctxErr # "none" \/ dockerFaulty

\* The first n results are those of the steps' processes.
Clean(j, n) == \A i \in 1..n : TrueResult(j, i)

\* What execCommand returned has the cause it names.
OutcomeTrue(j) ==
    /\ out[j] \in {"zero", "nonzero"} =>
          /\ proc[j][k[j]] = out[j] \/ (out[j] = "zero" /\ k[j] \in quiet[j])
          /\ overran[j] = {}
    /\ out[j] = "stepDeadline" => overran[j] # {} /\ k[j] \in Timed
    /\ out[j] = "ctxDone" => ctxErr # "none"
    /\ out[j] = "fault" => dockerFaulty

NoError(j) == ~setupErr[j] /\ ~runErr[j]

\* Why a set-up fails.
SetupCause(j) ==
    EnvironmentAtFault \/ "archive" \in mishaps[j] \/ proc[j][Current(j)] = "nonzero"

\* The job never reached its steps, for a reason.
SetupBroken(j) ==
    /\ setupErr[j] /\ runErr[j]
    /\ results[j] = <<>> /\ k[j] = 0
    /\ SetupCause(j)

\* The last result ended the loop, for a reason.
StepBroken(j) ==
    LET n == Len(results[j]) IN
    /\ runErr[j] /\ ~setupErr[j]
    /\ k[j] >= 1 /\ n >= 1 /\ Clean(j, n - 1)
    /\ n = k[j] \/ n = k[j] + 1
    /\ \/ results[j][n].err /\ (EnvironmentAtFault \/ "envFile" \in mishaps[j])
       \/ ~results[j][n].err /\ results[j][n].exit = "nonzero" /\ overran[j] # {}

\* Every step so far has its result, and nothing else happened.
CleanSoFar(j) ==
    /\ NoError(j) /\ overran[j] = {}
    /\ Len(results[j]) = k[j] /\ Clean(j, k[j])

\* The k-th step is on its way, the ones before it are done.
InStep(j) ==
    /\ NoError(j)
    /\ k[j] >= 1 /\ Len(results[j]) = k[j] - 1 /\ Clean(j, k[j] - 1)

\* The results, at each point of Run.
ResultsInv(j) ==
    /\ pc[j] \in BeforeLoop =>
          NoError(j) /\ k[j] = 0 /\ results[j] = <<>> /\ overran[j] = {}
    /\ pc[j] = "step" => CleanSoFar(j)
    /\ pc[j] \in {"readBefore", "launch", "exec", "classify"} => InStep(j)
    /\ pc[j] \in {"readBefore", "launch", "exec"} => overran[j] = {}
    /\ pc[j] = "exec" => proc[j][k[j]] \in {"running", "zero", "nonzero"}
    /\ pc[j] = "classify" => OutcomeTrue(j)
    /\ pc[j] \in {"publish", "readAfter"} => CleanSoFar(j) /\ k[j] >= 1
    /\ pc[j] = "publishLast" => StepBroken(j)
    /\ pc[j] \in {"teardown", "returned"} =>
          \/ SetupBroken(j)
          \/ StepBroken(j)
          \/ CleanSoFar(j) /\ k[j] = NumSteps

\* The container and its deferred removal, at each point of Run.
BoxInv(j) ==
    /\ pc[j] \in {"idle", "pull", "create"} => container[j] = "none"
    /\ pc[j] \in {"idle", "pull", "create", "copy", "abandon"} => ~deferred[j]
    /\ pc[j] = "abandon" => EnvironmentAtFault \/ "archive" \in mishaps[j]
    /\ pc[j] = "setupExec" => setupLeft[j] >= 1
    /\ pc[j] = "returned" /\ container[j] \in {"created", "running"} /\ ~dockerFaulty =>
          ~deferred[j] /\ ctxErr # "none"

IInv ==
    /\ TypeOK
    /\ NoOverlap
    /\ \A j \in Jobs : ResultsInv(j) /\ BoxInv(j)

-----------------------------------------------------------------------------
(* Types.                                                                  *)

(***************************************************************************)
(* Going to a label keeps pc typed.                                        *)
(***************************************************************************)
LEMMA GotoTyped ==
    ASSUME TypeOK, NEW j \in Jobs, NEW label \in Labels, Goto(j, label)
    PROVE  pc' \in [Jobs -> Labels]
BY DEF TypeOK, Goto

(***************************************************************************)
(* A command changes its state to another one of those there are, and no   *)
(* other command does.                                                     *)
(***************************************************************************)
LEMMA BecomesTyped ==
    ASSUME TypeOK, NEW j \in Jobs, NEW c \in Commands, NEW state \in ProcStates,
           Becomes(j, c, state)
    PROVE  /\ proc' \in [Jobs -> [Commands -> ProcStates]]
           /\ proc'[j][c] = state
           /\ \A d \in Commands : d # c => proc'[j][d] = proc[j][d]
<1>1. proc \in [Jobs -> [Commands -> ProcStates]]
  BY DEF TypeOK
<1>2. proc' = [proc EXCEPT ![j] = [proc[j] EXCEPT ![c] = state]]
  BY DEF Becomes
<1>3. [proc[j] EXCEPT ![c] = state] \in [Commands -> ProcStates]
  BY <1>1
<1>4. QED
  BY <1>1, <1>2, <1>3

\* One element more, in the set of one job.
LEMMA SetGrows ==
    ASSUME NEW S, NEW f \in [Jobs -> SUBSET S], NEW j \in Jobs, NEW x \in S
    PROVE  [f EXCEPT ![j] = f[j] \cup {x}] \in [Jobs -> SUBSET S]
<1>1. f[j] \cup {x} \in SUBSET S
  <2>1. f[j] \in SUBSET S
    OBVIOUS
  <2>2. f[j] \subseteq S
    BY <2>1
  <2>3. QED
    BY <2>2
<1>2. QED
  BY <1>1

\* The command whose turn it is is one of the job's.
LEMMA CurrentCommand ==
    ASSUME TypeOK, NEW j \in Jobs
    PROVE  Current(j) \in Commands
<1>1. /\ k[j] \in 0..NumSteps /\ setupLeft[j] \in 0..NumSetup
      /\ NumSteps \in Nat \ {0} /\ NumSetup \in Nat
  BY NumStepsAssumption, NumSetupAssumption DEF TypeOK
<1>2. QED
  BY <1>1 DEF Current, Commands

(***************************************************************************)
(* Appending a result keeps the earlier ones and adds one.                 *)
(***************************************************************************)
LEMMA RecordAppends ==
    ASSUME TypeOK, NEW j \in Jobs, NEW exit \in ExitCodes, NEW err \in BOOLEAN,
           Record(j, exit, err)
    PROVE  /\ results' \in [Jobs -> Seq(StepResult)]
           /\ Len(results'[j]) = Len(results[j]) + 1
           /\ results'[j][Len(results[j]) + 1] =
                 [step |-> k[j], exit |-> exit, err |-> err]
           /\ \A i \in 1..Len(results[j]) : results'[j][i] = results[j][i]
           /\ \A i \in Jobs : i # j => results'[i] = results[i]
<1> DEFINE r == [step |-> k[j], exit |-> exit, err |-> err]
<1>1. results[j] \in Seq(StepResult) /\ results \in [Jobs -> Seq(StepResult)]
  BY DEF TypeOK
<1>2. r \in StepResult
  BY NumStepsAssumption DEF TypeOK, StepResult
<1>3. results' = [results EXCEPT ![j] = Append(results[j], r)]
  BY DEF Record
<1>4. /\ Append(results[j], r) \in Seq(StepResult)
      /\ Len(Append(results[j], r)) = Len(results[j]) + 1
      /\ Append(results[j], r)[Len(results[j]) + 1] = r
      /\ \A i \in 1..Len(results[j]) : Append(results[j], r)[i] = results[j][i]
  BY <1>1, <1>2, AppendProperties
<1>5. QED
  BY <1>1, <1>3, <1>4

(***************************************************************************)
(* A publication appends an event or loses it.                             *)
(***************************************************************************)
LEMMA EmitTyped ==
    ASSUME TypeOK, NEW j \in Jobs, NEW e \in Event, emitStep(j, e)
    PROVE  log' \in [Jobs -> Seq(Event)] /\ lost' \in [Jobs -> BOOLEAN]
<1>1. log \in [Jobs -> Seq(Event)] /\ lost \in [Jobs -> BOOLEAN]
  BY DEF TypeOK
<1>2. Append(log[j], e) \in Seq(Event)
  BY <1>1, AppendProperties
<1>3. QED
  BY <1>1, <1>2 DEF emitStep

(***************************************************************************)
(* The event of a result is an event.                                      *)
(***************************************************************************)
LEMMA FinishedEventTyped ==
    ASSUME TypeOK, NEW j \in Jobs, Len(results[j]) >= 1
    PROVE  FinishedEvent(j) \in Event
<1> DEFINE r == results[j][Len(results[j])]
<1>1. results[j] \in Seq(StepResult)
  BY DEF TypeOK
<1>2. r \in StepResult
  BY <1>1, ElementOfSeq, LenProperties
<1>3. StepStatus(r) \in Statuses
  BY DEF StepStatus, Statuses
<1>4. QED
  BY <1>2, <1>3 DEF FinishedEvent, Event, StepResult

(***************************************************************************)
(* An execCommand that fails leaves an outcome and, at most, a step that   *)
(* overran.                                                                *)
(***************************************************************************)
LEMMA ExecFailsTyped ==
    ASSUME TypeOK, NEW j \in Jobs, NEW ended, ExecFails(j, ended)
    PROVE  out' \in [Jobs -> Outcomes] /\ overran' \in [Jobs -> SUBSET (1..NumSteps)]
<1>1. PICK e \in ExecErrors(j, ended) :
         /\ out' = [out EXCEPT ![j] = e]
         /\ overran' = IF e = "stepDeadline"
                       THEN [overran EXCEPT ![j] = @ \cup {k[j]}] ELSE overran
  BY DEF ExecFails
<1>2. e \in Outcomes
  BY DEF ExecErrors, Outcomes
<1>3. e = "stepDeadline" => k[j] \in 1..NumSteps
  BY TimedAssumption DEF ExecErrors, StepDeadlineArmed
<1>4. QED
  BY <1>1, <1>2, <1>3 DEF TypeOK

USE DEF envVars, resultVars, truth, busVars, progress, boxVars

(***************************************************************************)
(* Every step keeps the types.                                             *)
(***************************************************************************)
LEMMA TypeStep == IInv /\ [Next]_vars => TypeOK'
<1> SUFFICES ASSUME IInv, [Next]_vars PROVE TypeOK'
  OBVIOUS
<1> TypeOK
  BY DEF IInv
<1>1. CASE UNCHANGED vars
  BY <1>1 DEF TypeOK, vars
<1>2. CASE Cancel
  BY <1>2 DEF Cancel, TypeOK
<1>3. ASSUME NEW j \in Jobs, Begin(j) PROVE TypeOK'
  BY <1>3 DEF Begin, TypeOK, Goto, Labels
<1>4. ASSUME NEW j \in Jobs, CommandActs(j) PROVE TypeOK'
  <2>1. PICK c \in Commands : ClosesOutput(j, c) \/ ProcessExits(j, c)
    BY <1>4 DEF CommandActs
  <2>2. proc' \in [Jobs -> [Commands -> ProcStates]]
    <3>1. proc' = proc \/ \E state \in ProcStates : Becomes(j, c, state)
      BY <2>1 DEF ClosesOutput, ProcessExits, ProcStates
    <3>2. QED
      BY <3>1, BecomesTyped DEF TypeOK
  <2>3. quiet' \in [Jobs -> SUBSET Commands] /\ envFile' \in [Jobs -> BOOLEAN]
    <3>1. \/ quiet' = [quiet EXCEPT ![j] = quiet[j] \cup {c}] /\ envFile' = envFile
          \/ /\ quiet' = quiet
             /\ \E present \in BOOLEAN : envFile' = [envFile EXCEPT ![j] = present]
      BY <2>1 DEF ClosesOutput, ProcessExits
    <3>2. quiet \in [Jobs -> SUBSET Commands] /\ envFile \in [Jobs -> BOOLEAN]
      BY DEF TypeOK
    <3>3. [quiet EXCEPT ![j] = quiet[j] \cup {c}] \in [Jobs -> SUBSET Commands]
      BY <3>2, SetGrows
    <3>4. QED
      BY <3>1, <3>2, <3>3
  <2>4. QED
    BY <2>1, <2>2, <2>3 DEF ClosesOutput, ProcessExits, TypeOK
<1>5. ASSUME NEW j \in Jobs, pullImage(j) PROVE TypeOK'
  BY <1>5 DEF pullImage, SetupFails, TypeOK, Goto, Labels
<1>6. ASSUME NEW j \in Jobs, createContainer(j) PROVE TypeOK'
  <2>1. pc' \in [Jobs -> Labels]
    <3>1. \E label \in Labels : Goto(j, label)
      BY <1>6 DEF createContainer, SetupFails, Labels
    <3>2. QED
      BY <3>1, GotoTyped
  <2>2. container' \in [Jobs -> {"none", "created", "running", "removed"}]
    BY <1>6 DEF createContainer, TypeOK
  <2>3. setupErr' \in [Jobs -> BOOLEAN] /\ runErr' \in [Jobs -> BOOLEAN]
    BY <1>6 DEF createContainer, SetupFails, TypeOK
  <2>4. QED
    BY <1>6, <2>1, <2>2, <2>3 DEF createContainer, SetupFails, TypeOK
<1>7. ASSUME NEW j \in Jobs, mountArchive(j) PROVE TypeOK'
  <2>1. mishaps' \in [Jobs -> SUBSET {"archive", "envFile"}]
    BY <1>7 DEF mountArchive, TypeOK
  <2>2. pc' \in [Jobs -> Labels] /\ deferred' \in [Jobs -> BOOLEAN]
    BY <1>7 DEF mountArchive, TypeOK, Goto, Labels
  <2>3. QED
    BY <1>7, <2>1, <2>2 DEF mountArchive, TypeOK
<1>8. ASSUME NEW j \in Jobs, abandonContainer(j) PROVE TypeOK'
  BY <1>8 DEF abandonContainer, SetupFails, TypeOK, Goto, Labels
<1>9. ASSUME NEW j \in Jobs, startContainer(j) PROVE TypeOK'
  <2>1. pc' \in [Jobs -> Labels]
    <3>1. \E label \in Labels : Goto(j, label)
      BY <1>9 DEF startContainer, SetupFails, Labels
    <3>2. QED
      BY <3>1, GotoTyped
  <2>2. container' \in [Jobs -> {"none", "created", "running", "removed"}]
    BY <1>9 DEF startContainer, TypeOK
  <2>3. setupErr' \in [Jobs -> BOOLEAN] /\ runErr' \in [Jobs -> BOOLEAN]
    BY <1>9 DEF startContainer, SetupFails, TypeOK
  <2>4. QED
    BY <1>9, <2>1, <2>2, <2>3 DEF startContainer, SetupFails, TypeOK
<1>10. ASSUME NEW j \in Jobs, execSetup(j) PROVE TypeOK'
  <2>1. pc' \in [Jobs -> Labels]
    <3>1. \E label \in Labels : Goto(j, label)
      BY <1>10 DEF execSetup, SetupFails, Labels
    <3>2. QED
      BY <3>1, GotoTyped
  <2>2. proc' \in [Jobs -> [Commands -> ProcStates]]
    <3>1. proc' = proc \/ Becomes(j, Current(j), "running")
      BY <1>10 DEF execSetup
    <3>2. Current(j) \in Commands /\ "running" \in ProcStates
      BY <1>10, CurrentCommand, NumSetupAssumption DEF execSetup, ProcStates, TypeOK
    <3>3. QED
      BY <3>1, <3>2, BecomesTyped DEF TypeOK
  <2>3. setupErr' \in [Jobs -> BOOLEAN] /\ runErr' \in [Jobs -> BOOLEAN]
    BY <1>10 DEF execSetup, SetupFails, TypeOK
  <2>4. QED
    BY <1>10, <2>1, <2>2, <2>3 DEF execSetup, SetupFails, TypeOK
<1>11. ASSUME NEW j \in Jobs, setupReturns(j) PROVE TypeOK'
  <2>1. pc' \in [Jobs -> Labels]
    <3>1. \E label \in Labels : Goto(j, label)
      BY <1>11 DEF setupReturns, SetupFails, Labels
    <3>2. QED
      BY <3>1, GotoTyped
  <2>2. setupLeft' \in [Jobs -> 0..NumSetup]
    <3>1. setupLeft[j] >= 1
      BY <1>11 DEF setupReturns, IInv, BoxInv
    <3>2. setupLeft \in [Jobs -> 0..NumSetup]
      BY DEF TypeOK
    <3>3. setupLeft[j] - 1 \in 0..NumSetup
      BY <3>1, <3>2, NumSetupAssumption
    <3>4. \/ setupLeft' = [setupLeft EXCEPT ![j] = setupLeft[j] - 1]
          \/ setupLeft' = setupLeft
      BY <1>11 DEF setupReturns
    <3>5. QED
      BY <3>2, <3>3, <3>4
  <2>3. setupErr' \in [Jobs -> BOOLEAN] /\ runErr' \in [Jobs -> BOOLEAN]
    BY <1>11 DEF setupReturns, SetupFails, TypeOK
  <2>4. QED
    BY <1>11, <2>1, <2>2, <2>3 DEF setupReturns, SetupFails, TypeOK
<1>12. ASSUME NEW j \in Jobs, initEnvFile(j) PROVE TypeOK'
  <2>1. pc' \in [Jobs -> Labels]
    <3>1. \E label \in Labels : Goto(j, label)
      BY <1>12 DEF initEnvFile, SetupFails, Labels
    <3>2. QED
      BY <3>1, GotoTyped
  <2>2. envFile' \in [Jobs -> BOOLEAN]
    BY <1>12 DEF initEnvFile, TypeOK
  <2>3. setupErr' \in [Jobs -> BOOLEAN] /\ runErr' \in [Jobs -> BOOLEAN]
    BY <1>12 DEF initEnvFile, SetupFails, TypeOK
  <2>4. QED
    BY <1>12, <2>1, <2>2, <2>3 DEF initEnvFile, SetupFails, TypeOK
<1>13. ASSUME NEW j \in Jobs, beginStep(j) PROVE TypeOK'
  <2> DEFINE e == StartedEvent(k[j] + 1)
  <2>1. k[j] \in 0..NumSteps /\ k[j] < NumSteps
    BY <1>13 DEF beginStep, HasNextStep, TypeOK
  <2>2. k' \in [Jobs -> 0..NumSteps]
    BY <1>13, <2>1, NumStepsAssumption DEF beginStep, TypeOK
  <2>3. e \in Event
    BY <2>1, NumStepsAssumption DEF StartedEvent, Event, Statuses
  <2>4. log' \in [Jobs -> Seq(Event)] /\ lost' \in [Jobs -> BOOLEAN]
    BY <1>13, <2>3, EmitTyped DEF beginStep
  <2>5. QED
    BY <1>13, <2>2, <2>4 DEF beginStep, TypeOK, Goto, Labels
<1>14. ASSUME NEW j \in Jobs, stepsDone(j) PROVE TypeOK'
  BY <1>14 DEF stepsDone, TypeOK, Goto, Labels
<1>15. ASSUME NEW j \in Jobs, readEnvBefore(j) PROVE TypeOK'
  <2>1. results' \in [Jobs -> Seq(StepResult)]
    <3>1. CASE Record(j, "none", TRUE)
      BY <3>1, RecordAppends DEF ExitCodes
    <3>2. CASE UNCHANGED resultVars
      BY <3>2 DEF TypeOK
    <3>3. QED
      BY <1>15, <3>1, <3>2 DEF readEnvBefore
  <2>2. mishaps' \in [Jobs -> SUBSET {"archive", "envFile"}]
    <3>1. mishaps' = mishaps \/ mishaps' = [mishaps EXCEPT ![j] = mishaps[j] \cup {"envFile"}]
      BY <1>15 DEF readEnvBefore, ReadSucceeds, ReadFails
    <3>2. mishaps \in [Jobs -> SUBSET {"archive", "envFile"}]
      BY DEF TypeOK
    <3>3. [mishaps EXCEPT ![j] = mishaps[j] \cup {"envFile"}]
             \in [Jobs -> SUBSET {"archive", "envFile"}]
      BY <3>2, SetGrows
    <3>4. QED
      BY <3>1, <3>2, <3>3
  <2>3. QED
    BY <1>15, <2>1, <2>2 DEF readEnvBefore, StepsFail, TypeOK, Goto, Labels
<1>16. ASSUME NEW j \in Jobs, execStep(j) PROVE TypeOK'
  <2>1. out' \in [Jobs -> Outcomes] /\ overran' \in [Jobs -> SUBSET (1..NumSteps)]
    <3>1. CASE ExecFails(j, TRUE)
      BY <3>1, ExecFailsTyped
    <3>2. CASE ~ExecFails(j, TRUE)
      <4>1. out' = out /\ overran' = overran
        BY <1>16, <3>2 DEF execStep, resultVars
      <4>2. QED
        BY <4>1 DEF TypeOK
    <3>3. QED
      BY <3>1, <3>2
  <2>2. pc' \in [Jobs -> Labels]
    <3>1. \E label \in Labels : Goto(j, label)
      BY <1>16 DEF execStep, ExecFails, Labels
    <3>2. QED
      BY <3>1, GotoTyped
  <2>3. proc' \in [Jobs -> [Commands -> ProcStates]]
    <3>1. k[j] >= 1
      BY <1>16 DEF execStep, IInv, ResultsInv, InStep
    <3>2. k[j] \in Commands /\ "running" \in ProcStates
      BY <3>1, CurrentCommand DEF Current, ProcStates, TypeOK
    <3>3. proc' = proc \/ Becomes(j, k[j], "running")
      BY <1>16 DEF execStep
    <3>4. QED
      BY <3>2, <3>3, BecomesTyped DEF TypeOK
  <2>4. QED
    BY <1>16, <2>1, <2>2, <2>3 DEF execStep, ExecFails, TypeOK
<1>17. ASSUME NEW j \in Jobs, execReturns(j) PROVE TypeOK'
  <2>1. out' \in [Jobs -> Outcomes] /\ overran' \in [Jobs -> SUBSET (1..NumSteps)]
    <3>1. CASE ExecFails(j, WaitEnds(j))
      BY <3>1, ExecFailsTyped
    <3>2. CASE ~ExecFails(j, WaitEnds(j))
      <4>1. out' = [out EXCEPT ![j] = ExitCode(j)] /\ overran' = overran
        BY <1>17, <3>2 DEF execReturns
      <4>2. ExitCode(j) \in Outcomes
        BY DEF ExitCode, Outcomes
      <4>3. QED
        BY <4>1, <4>2 DEF TypeOK
    <3>3. QED
      BY <3>1, <3>2
  <2>2. pc' \in [Jobs -> Labels]
    <3>1. \E label \in Labels : Goto(j, label)
      BY <1>17 DEF execReturns, ExecFails, Labels
    <3>2. QED
      BY <3>1, GotoTyped
  <2>3. QED
    BY <1>17, <2>1, <2>2 DEF execReturns, ExecFails, TypeOK
<1>18. ASSUME NEW j \in Jobs, classify(j) PROVE TypeOK'
  <2>1. \E exit \in ExitCodes, err \in BOOLEAN : Record(j, exit, err)
    BY <1>18 DEF classify, ExecErred, ExitCodes, TypeOK
  <2>2. results' \in [Jobs -> Seq(StepResult)]
    BY <2>1, RecordAppends
  <2>3. QED
    BY <1>18, <2>2 DEF classify, StepsFail, TypeOK, Goto, Labels
<1>19. ASSUME NEW j \in Jobs, publishFinished(j) PROVE TypeOK'
  <2>1. Len(results[j]) >= 1
    BY <1>19 DEF publishFinished, IInv, ResultsInv, CleanSoFar, StepBroken
  <2>2. log' \in [Jobs -> Seq(Event)] /\ lost' \in [Jobs -> BOOLEAN]
    BY <1>19, <2>1, FinishedEventTyped, EmitTyped DEF publishFinished
  <2>3. QED
    BY <1>19, <2>2 DEF publishFinished, TypeOK, Goto, Labels
<1>20. ASSUME NEW j \in Jobs, readEnvAfter(j) PROVE TypeOK'
  <2>1. results' \in [Jobs -> Seq(StepResult)]
    <3>1. CASE Record(j, "none", TRUE)
      BY <3>1, RecordAppends DEF ExitCodes
    <3>2. CASE UNCHANGED resultVars
      BY <3>2 DEF TypeOK
    <3>3. QED
      BY <1>20, <3>1, <3>2 DEF readEnvAfter
  <2>2. mishaps' \in [Jobs -> SUBSET {"archive", "envFile"}]
    <3>1. mishaps' = mishaps \/ mishaps' = [mishaps EXCEPT ![j] = mishaps[j] \cup {"envFile"}]
      BY <1>20 DEF readEnvAfter, ReadSucceeds, ReadFails
    <3>2. mishaps \in [Jobs -> SUBSET {"archive", "envFile"}]
      BY DEF TypeOK
    <3>3. [mishaps EXCEPT ![j] = mishaps[j] \cup {"envFile"}]
             \in [Jobs -> SUBSET {"archive", "envFile"}]
      BY <3>2, SetGrows
    <3>4. QED
      BY <3>1, <3>2, <3>3
  <2>3. QED
    BY <1>20, <2>1, <2>2 DEF readEnvAfter, StepsFail, TypeOK, Goto, Labels
<1>21. ASSUME NEW j \in Jobs, teardown(j) PROVE TypeOK'
  <2>1. proc' \in [Jobs -> [Commands -> ProcStates]]
    <3>1. proc \in [Jobs -> [Commands -> ProcStates]]
      BY DEF TypeOK
    <3>2. [c \in Commands |-> Killed(proc[j][c])] \in [Commands -> ProcStates]
      BY <3>1 DEF Killed, ProcStates
    <3>3. \/ proc' = [proc EXCEPT ![j] = [c \in Commands |-> Killed(proc[j][c])]]
          \/ proc' = proc
      BY <1>21 DEF teardown
    <3>4. QED
      BY <3>1, <3>2, <3>3
  <2>2. QED
    BY <1>21, <2>1 DEF teardown, TypeOK, Goto, Labels
<1>22. QED
  BY <1>1, <1>2, <1>3, <1>4, <1>5, <1>6, <1>7, <1>8, <1>9, <1>10, <1>11, <1>12,
     <1>13, <1>14, <1>15, <1>16, <1>17, <1>18, <1>19, <1>20, <1>21
  DEF Next, Done, RunStep, BeforeSteps, StepLoop

-----------------------------------------------------------------------------
(* A step of one job leaves the others alone.                              *)

Untouched(j) ==
    /\ pc'[j] = pc[j] /\ k'[j] = k[j] /\ setupLeft'[j] = setupLeft[j]
    /\ out'[j] = out[j] /\ results'[j] = results[j]
    /\ setupErr'[j] = setupErr[j] /\ runErr'[j] = runErr[j]
    /\ container'[j] = container[j] /\ deferred'[j] = deferred[j]
    /\ proc'[j] = proc[j] /\ quiet'[j] = quiet[j] /\ envFile'[j] = envFile[j]
    /\ mishaps'[j] = mishaps[j] /\ overran'[j] = overran[j]

\* A context that is done stays done, and the daemon is what it is.
EnvironmentMonotone ==
    dockerFaulty' = dockerFaulty /\ (ctxErr # "none" => ctxErr' # "none")

MayStillRun ==
    {"setupExec", "exec", "classify", "publishLast", "teardown", "returned"}

OverlapInv(j) ==
    \A c \in Commands : proc[j][c] = "running" /\ c \notin quiet[j] =>
        c = Current(j) /\ pc[j] \in MayStillRun

JobInv(j) == OverlapInv(j) /\ ResultsInv(j) /\ BoxInv(j)

(***************************************************************************)
(* What holds of a job goes on to hold while others act.                   *)
(***************************************************************************)
LEMMA UntouchedInv ==
    ASSUME NEW j \in Jobs, Untouched(j), EnvironmentMonotone, JobInv(j)
    PROVE  JobInv(j)'
<1>1. OverlapInv(j)' /\ BoxInv(j)'
  BY DEF Untouched, EnvironmentMonotone, JobInv, OverlapInv, BoxInv, EnvironmentAtFault,
         Current
<1>2. ResultsInv(j)'
  BY DEF Untouched, EnvironmentMonotone, JobInv, ResultsInv, EnvironmentAtFault, Clean,
         OutcomeTrue, NoError, SetupBroken, StepBroken, CleanSoFar, InStep,
         TrueResult, SetupCause, Current
<1>3. QED
  BY <1>1, <1>2 DEF JobInv

\* The step of one job changes no other job, and no context comes back.
LEMMA OthersUntouched ==
    ASSUME TypeOK, NEW i \in Jobs, Begin(i) \/ RunStep(i) \/ CommandActs(i)
    PROVE  EnvironmentMonotone /\ \A j \in Jobs \ {i} : Untouched(j)
<1>1. CASE Begin(i)
  BY <1>1 DEF Begin, Goto, Untouched, EnvironmentMonotone, TypeOK
<1>2. CASE CommandActs(i)
  BY <1>2 DEF CommandActs, ClosesOutput, ProcessExits, Becomes, Untouched,
     EnvironmentMonotone, TypeOK
<1>3. CASE pullImage(i)
  BY <1>3 DEF pullImage, SetupFails, Goto, Untouched, EnvironmentMonotone, TypeOK
<1>4. CASE createContainer(i)
  BY <1>4 DEF createContainer, SetupFails, Goto, Untouched, EnvironmentMonotone, TypeOK
<1>5. CASE mountArchive(i)
  BY <1>5 DEF mountArchive, Goto, Untouched, EnvironmentMonotone, TypeOK
<1>6. CASE abandonContainer(i)
  BY <1>6 DEF abandonContainer, SetupFails, Goto, Untouched, EnvironmentMonotone, TypeOK
<1>7. CASE startContainer(i)
  BY <1>7 DEF startContainer, SetupFails, Goto, Untouched, EnvironmentMonotone, TypeOK
<1>8. CASE execSetup(i)
  BY <1>8 DEF execSetup, Becomes, SetupFails, Goto, Untouched, EnvironmentMonotone, TypeOK
<1>9. CASE setupReturns(i)
  BY <1>9 DEF setupReturns, SetupFails, Goto, Untouched, EnvironmentMonotone, TypeOK
<1>10. CASE initEnvFile(i)
  BY <1>10 DEF initEnvFile, SetupFails, Goto, Untouched, EnvironmentMonotone, TypeOK
<1>11. CASE beginStep(i)
  BY <1>11 DEF beginStep, Goto, Untouched, EnvironmentMonotone, TypeOK
<1>12. CASE stepsDone(i)
  BY <1>12 DEF stepsDone, Goto, Untouched, EnvironmentMonotone, TypeOK
<1>13. CASE readEnvBefore(i)
  BY <1>13 DEF readEnvBefore, ReadSucceeds, ReadFails, Record, StepsFail, Goto, Untouched,
     EnvironmentMonotone, TypeOK
<1>14. CASE execStep(i)
  <2>1. \A j \in Jobs \ {i} : proc'[j] = proc[j]
    <3>1. proc' = proc \/ Becomes(i, k[i], "running")
      BY <1>14 DEF execStep
    <3>2. QED
      BY <3>1 DEF Becomes, TypeOK
  <2>2. \A j \in Jobs \ {i} :
           /\ out'[j] = out[j] /\ overran'[j] = overran[j] /\ pc'[j] = pc[j]
           /\ results'[j] = results[j] /\ setupErr'[j] = setupErr[j]
           /\ runErr'[j] = runErr[j]
    <3>1. CASE ExecFails(i, TRUE)
      BY <3>1 DEF ExecFails, Goto, TypeOK
    <3>2. CASE Goto(i, "exec") /\ UNCHANGED <<resultVars, overran>>
      BY <3>2 DEF Goto, TypeOK
    <3>3. QED
      BY <1>14, <3>1, <3>2 DEF execStep
  <2>3. QED
    BY <1>14, <2>1, <2>2 DEF execStep, Untouched, EnvironmentMonotone
<1>15. CASE execReturns(i)
  BY <1>15 DEF execReturns, ExecFails, Goto, Untouched, EnvironmentMonotone, TypeOK
<1>16. CASE classify(i)
  BY <1>16 DEF classify, Record, StepsFail, Goto, Untouched, EnvironmentMonotone, TypeOK
<1>17. CASE publishFinished(i)
  BY <1>17 DEF publishFinished, Goto, Untouched, EnvironmentMonotone, TypeOK
<1>18. CASE readEnvAfter(i)
  BY <1>18 DEF readEnvAfter, ReadSucceeds, ReadFails, Record, StepsFail, Goto, Untouched,
     EnvironmentMonotone, TypeOK
<1>19. CASE teardown(i)
  BY <1>19 DEF teardown, Goto, Untouched, EnvironmentMonotone, TypeOK
<1>20. QED
  BY <1>1, <1>2, <1>3, <1>4, <1>5, <1>6, <1>7, <1>8, <1>9, <1>10, <1>11, <1>12, <1>13, <1>14, <1>15, <1>16, <1>17, <1>18, <1>19 DEF RunStep, BeforeSteps, StepLoop

-----------------------------------------------------------------------------
(* A step of a job keeps the invariant of that job.                        *)

(***************************************************************************)
(* Where no command is launched, commands do not come to overlap: none     *)
(* runs, or the one that does is still the last one, or its output has     *)
(* ended.                                                                  *)
(***************************************************************************)
LEMMA OverlapKept ==
    ASSUME NEW j \in Jobs, OverlapInv(j), quiet[j] \subseteq quiet'[j],
           \A c \in Commands : proc'[j][c] = "running" => proc[j][c] = "running",
           \/ pc[j] \notin MayStillRun
           \/ OutputEnded(j)
           \/ /\ pc'[j] \in MayStillRun
              /\ k'[j] = k[j] /\ setupLeft'[j] = setupLeft[j]
    PROVE  OverlapInv(j)'
<1> SUFFICES ASSUME NEW c \in Commands, proc'[j][c] = "running", c \notin quiet'[j]
             PROVE  c = Current(j)' /\ pc'[j] \in MayStillRun
  BY DEF OverlapInv
<1>1. proc[j][c] = "running" /\ c \notin quiet[j]
  OBVIOUS
<1>2. c = Current(j) /\ pc[j] \in MayStillRun /\ ~OutputEnded(j)
  BY <1>1 DEF OverlapInv, OutputEnded
<1>3. QED
  BY <1>2 DEF Current

\* A command is launched where none runs.
LEMMA OverlapStarts ==
    ASSUME TypeOK, NEW j \in Jobs, OverlapInv(j), pc[j] \notin MayStillRun,
           Becomes(j, Current(j), "running"), quiet' = quiet,
           pc'[j] \in MayStillRun, k' = k, setupLeft' = setupLeft
    PROVE  OverlapInv(j)'
<1>1. PICK c \in Commands : c = Current(j)
  BY CurrentCommand
<1>2. \A d \in Commands : d # c => proc'[j][d] = proc[j][d]
  BY <1>1, BecomesTyped DEF ProcStates
<1>3. Current(j)' = c
  BY <1>1 DEF Current
<1>4. QED
  BY <1>2, <1>3 DEF OverlapInv

(***************************************************************************)
(* A result stays true: its process has ended, or had closed its output.   *)
(***************************************************************************)
LEMMA CleanKept ==
    ASSUME NEW j \in Jobs, NEW n \in Int, Clean(j, n), quiet[j] \subseteq quiet'[j],
           \A i \in 1..n : /\ results'[j][i] = results[j][i]
                           /\ proc[j][i] \in {"zero", "nonzero"} =>
                                 proc'[j][i] = proc[j][i]
    PROVE  \A i \in 1..n : TrueResult(j, i)'
<1> SUFFICES ASSUME NEW i \in 1..n PROVE TrueResult(j, i)'
  OBVIOUS
<1>1. PICK exit \in {"zero", "nonzero"} :
         /\ results[j][i] = [step |-> i, exit |-> exit, err |-> FALSE]
         /\ proc[j][i] = exit \/ (exit = "zero" /\ i \in quiet[j])
  BY DEF Clean, TrueResult
<1>2. results'[j][i] = results[j][i]
  OBVIOUS
<1>3. proc'[j][i] = exit \/ (exit = "zero" /\ i \in quiet'[j])
  BY <1>1
<1>4. QED
  BY <1>1, <1>2, <1>3 DEF TrueResult

\* A part of the set-up that succeeds leaves the results empty.
LEMMA SetupGoesOn ==
    ASSUME NEW j \in Jobs, ResultsInv(j), pc[j] \in BeforeLoop, pc'[j] \in BeforeLoop,
           results' = results, setupErr' = setupErr, runErr' = runErr,
           k' = k, overran' = overran
    PROVE  ResultsInv(j)'
<1>1. NoError(j) /\ k[j] = 0 /\ results[j] = <<>> /\ overran[j] = {}
  BY DEF ResultsInv
<1>2. (NoError(j) /\ k[j] = 0 /\ results[j] = <<>> /\ overran[j] = {})'
  BY <1>1 DEF NoError
<1>3. QED
  BY <1>2 DEF ResultsInv, BeforeLoop

\* A part of the set-up that fails, for a reason, breaks it.
LEMMA SetupBreaks ==
    ASSUME TypeOK, NEW j \in Jobs, ResultsInv(j), pc[j] \in BeforeLoop,
           NEW label \in {"teardown", "returned"}, SetupFails(j, label),
           UNCHANGED <<ctxErr, dockerFaulty, k, setupLeft, mishaps>>,
           SetupCause(j), EnvironmentAtFault \/ proc' = proc
    PROVE  ResultsInv(j)'
<1>1. k'[j] = 0 /\ results'[j] = <<>>
  BY DEF ResultsInv, SetupFails
<1>2. setupErr'[j] /\ runErr'[j] /\ pc'[j] = label
  BY DEF SetupFails, Goto, TypeOK
<1>3. SetupCause(j)'
  BY DEF SetupCause, EnvironmentAtFault, Current
<1>4. SetupBroken(j)'
  BY <1>1, <1>2, <1>3 DEF SetupBroken
<1>5. QED
  BY <1>2, <1>4 DEF ResultsInv, BeforeLoop

\* Calling Run changes the program counter only.
LEMMA BeginInv ==
    ASSUME TypeOK, NEW j \in Jobs, JobInv(j), Begin(j)
    PROVE  JobInv(j)'
<1>1. OverlapInv(j)' /\ BoxInv(j)'
  <2>1. OverlapInv(j)'
    BY OverlapKept DEF JobInv, Begin, MayStillRun
  <2>2. BoxInv(j)'
    BY DEF JobInv, BoxInv, EnvironmentAtFault, Begin, Goto, TypeOK
  <2>3. QED
    BY <2>1, <2>2
<1>2. ResultsInv(j)'
  <2>1. pc[j] \in BeforeLoop /\ pc'[j] \in BeforeLoop
    BY DEF Begin, Goto, BeforeLoop, TypeOK
  <2>2. QED
    BY <2>1, SetupGoesOn DEF JobInv, Begin
<1>3. QED
  BY <1>1, <1>2 DEF JobInv

\* A pull that fails leaves a broken set-up and no container.
LEMMA pullImageInv ==
    ASSUME TypeOK, NEW j \in Jobs, JobInv(j), pullImage(j)
    PROVE  JobInv(j)'
<1>1. OverlapInv(j)' /\ BoxInv(j)'
  <2>1. OverlapInv(j)'
    BY OverlapKept DEF JobInv, pullImage, MayStillRun
  <2>2. BoxInv(j)'
    BY DEF JobInv, BoxInv, EnvironmentAtFault, pullImage, SetupFails, Goto, CallFails, CallSucceeds, TypeOK
  <2>3. QED
    BY <2>1, <2>2
<1>2. ResultsInv(j)'
  <2>1. pc[j] \in BeforeLoop
    BY DEF pullImage, BeforeLoop
  <2>2. \/ SetupFails(j, "returned") /\ EnvironmentAtFault
        \/ Goto(j, "create") /\ UNCHANGED resultVars
    BY DEF pullImage, CallFails, EnvironmentAtFault
  <2>3. UNCHANGED <<ctxErr, dockerFaulty, k, setupLeft, proc, overran, mishaps>>
    BY DEF pullImage
  <2>4. ASSUME SetupFails(j, "returned"), EnvironmentAtFault PROVE ResultsInv(j)'
    BY <2>1, <2>3, <2>4, SetupBreaks DEF JobInv, SetupCause
  <2>5. ASSUME Goto(j, "create"), UNCHANGED resultVars PROVE ResultsInv(j)'
    <3>1. pc'[j] \in BeforeLoop
      BY <2>5 DEF Goto, BeforeLoop, TypeOK
    <3>2. QED
      BY <2>1, <2>3, <2>5, <3>1, SetupGoesOn DEF JobInv
  <2>6. QED
    BY <2>2, <2>4, <2>5
<1>3. QED
  BY <1>1, <1>2 DEF JobInv

\* A creation that fails leaves a broken set-up and nothing deferred.
LEMMA createContainerInv ==
    ASSUME TypeOK, NEW j \in Jobs, JobInv(j), createContainer(j)
    PROVE  JobInv(j)'
<1>1. OverlapInv(j)' /\ BoxInv(j)'
  <2>1. OverlapInv(j)'
    BY OverlapKept DEF JobInv, createContainer, MayStillRun
  <2>2. BoxInv(j)'
    BY DEF JobInv, BoxInv, EnvironmentAtFault, createContainer, SetupFails, Goto, CallFails, CallSucceeds, TypeOK
  <2>3. QED
    BY <2>1, <2>2
<1>2. ResultsInv(j)'
  <2>1. pc[j] \in BeforeLoop
    BY DEF createContainer, BeforeLoop
  <2>2. \/ SetupFails(j, "returned") /\ EnvironmentAtFault
        \/ Goto(j, "copy") /\ UNCHANGED resultVars
    BY DEF createContainer, CallFails, EnvironmentAtFault
  <2>3. UNCHANGED <<ctxErr, dockerFaulty, k, setupLeft, proc, overran, mishaps>>
    BY DEF createContainer
  <2>4. ASSUME SetupFails(j, "returned"), EnvironmentAtFault PROVE ResultsInv(j)'
    BY <2>1, <2>3, <2>4, SetupBreaks DEF JobInv, SetupCause
  <2>5. ASSUME Goto(j, "copy"), UNCHANGED resultVars PROVE ResultsInv(j)'
    <3>1. pc'[j] \in BeforeLoop
      BY <2>5 DEF Goto, BeforeLoop, TypeOK
    <3>2. QED
      BY <2>1, <2>3, <2>5, <3>1, SetupGoesOn DEF JobInv
  <2>6. QED
    BY <2>2, <2>4, <2>5
<1>3. QED
  BY <1>1, <1>2 DEF JobInv

\* The removal is deferred exactly when the copy succeeds.
LEMMA mountArchiveInv ==
    ASSUME TypeOK, NEW j \in Jobs, JobInv(j), mountArchive(j)
    PROVE  JobInv(j)'
<1>1. OverlapInv(j)' /\ BoxInv(j)'
  <2>1. OverlapInv(j)'
    BY OverlapKept DEF JobInv, mountArchive, MayStillRun
  <2>2. BoxInv(j)'
    BY DEF JobInv, BoxInv, EnvironmentAtFault, mountArchive, Goto, CallFails, CallSucceeds, TypeOK
  <2>3. QED
    BY <2>1, <2>2
<1>2. ResultsInv(j)'
  <2>1. pc[j] \in BeforeLoop /\ pc'[j] \in BeforeLoop
    BY DEF mountArchive, Goto, BeforeLoop, TypeOK
  <2>2. QED
    BY <2>1, SetupGoesOn DEF JobInv, mountArchive
<1>3. QED
  BY <1>1, <1>2 DEF JobInv

\* The clean-up after a failed copy: what it may leave behind is not
\* deferred, and the copy had a reason to fail.
LEMMA abandonContainerInv ==
    ASSUME TypeOK, NEW j \in Jobs, JobInv(j), abandonContainer(j)
    PROVE  JobInv(j)'
<1>1. OverlapInv(j)' /\ BoxInv(j)'
  <2>1. pc'[j] = "returned" /\ ~deferred'[j] /\ ctxErr' = ctxErr
        /\ dockerFaulty' = dockerFaulty
    BY DEF JobInv, BoxInv, abandonContainer, SetupFails, Goto, TypeOK
  <2>2. container'[j] = "removed" \/ ctxErr # "none" \/ dockerFaulty
    BY DEF abandonContainer, CallFails, CallSucceeds, TypeOK
  <2>3. OverlapInv(j)'
    BY OverlapKept DEF JobInv, abandonContainer, MayStillRun
  <2>4. QED
    BY <2>1, <2>2, <2>3 DEF BoxInv
<1>2. ResultsInv(j)'
  <2>1. pc[j] \in BeforeLoop /\ SetupCause(j)
    BY DEF abandonContainer, BeforeLoop, JobInv, BoxInv, SetupCause
  <2>2. UNCHANGED <<ctxErr, dockerFaulty, k, setupLeft, proc, mishaps>>
        /\ SetupFails(j, "returned")
    BY DEF abandonContainer
  <2>3. QED
    BY <2>1, <2>2, SetupBreaks DEF JobInv
<1>3. QED
  BY <1>1, <1>2 DEF JobInv

\* From the start on, a failure goes through the removal.
LEMMA startContainerInv ==
    ASSUME TypeOK, NEW j \in Jobs, JobInv(j), startContainer(j)
    PROVE  JobInv(j)'
<1>1. OverlapInv(j)' /\ BoxInv(j)'
  <2>1. OverlapInv(j)'
    BY OverlapKept DEF JobInv, startContainer, MayStillRun
  <2>2. BoxInv(j)'
    BY DEF JobInv, BoxInv, EnvironmentAtFault, startContainer, SetupFails, Goto, CallFails, CallSucceeds, TypeOK
  <2>3. QED
    BY <2>1, <2>2
<1>2. ResultsInv(j)'
  <2>1. pc[j] \in BeforeLoop
    BY DEF startContainer, BeforeLoop
  <2>2. \/ SetupFails(j, "teardown") /\ EnvironmentAtFault
        \/ Goto(j, "setup") /\ UNCHANGED resultVars
    BY DEF startContainer, CallFails, EnvironmentAtFault
  <2>3. UNCHANGED <<ctxErr, dockerFaulty, k, setupLeft, proc, overran, mishaps>>
    BY DEF startContainer
  <2>4. ASSUME SetupFails(j, "teardown"), EnvironmentAtFault PROVE ResultsInv(j)'
    BY <2>1, <2>3, <2>4, SetupBreaks DEF JobInv, SetupCause
  <2>5. ASSUME Goto(j, "setup"), UNCHANGED resultVars PROVE ResultsInv(j)'
    <3>1. pc'[j] \in BeforeLoop
      BY <2>5 DEF Goto, BeforeLoop, TypeOK
    <3>2. QED
      BY <2>1, <2>3, <2>5, <3>1, SetupGoesOn DEF JobInv
  <2>6. QED
    BY <2>2, <2>4, <2>5
<1>3. QED
  BY <1>1, <1>2 DEF JobInv

\* A setup command that cannot be started breaks the set-up.
LEMMA execSetupInv ==
    ASSUME TypeOK, NEW j \in Jobs, JobInv(j), execSetup(j)
    PROVE  JobInv(j)'
<1>1. BoxInv(j)'
  BY NumSetupAssumption DEF JobInv, BoxInv, execSetup, SetupFails, Goto, TypeOK
<1>2. OverlapInv(j)'
  <2>1. /\ pc[j] \notin MayStillRun /\ pc'[j] \in MayStillRun
        /\ quiet' = quiet /\ k' = k /\ setupLeft' = setupLeft /\ setupLeft[j] >= 1
    BY NumSetupAssumption DEF execSetup, SetupFails, Goto, MayStillRun, TypeOK
  <2>2. CASE Becomes(j, Current(j), "running")
    BY <2>1, <2>2, OverlapStarts DEF JobInv
  <2>3. CASE proc' = proc
    BY <2>1, <2>3, OverlapKept DEF JobInv
  <2>4. QED
    BY <2>2, <2>3 DEF execSetup
<1>3. ResultsInv(j)'
  <2>1. pc[j] \in BeforeLoop
    BY DEF execSetup, BeforeLoop
  <2>2. \/ SetupFails(j, "teardown") /\ EnvironmentAtFault
        \/ Goto(j, "setupExec") /\ UNCHANGED resultVars
    BY DEF execSetup, CallFails, EnvironmentAtFault
  <2>3. UNCHANGED <<ctxErr, dockerFaulty, k, setupLeft, overran, mishaps>>
    BY DEF execSetup
  <2>4. ASSUME SetupFails(j, "teardown"), EnvironmentAtFault PROVE ResultsInv(j)'
    BY <2>1, <2>3, <2>4, SetupBreaks DEF JobInv, SetupCause
  <2>5. ASSUME Goto(j, "setupExec"), UNCHANGED resultVars PROVE ResultsInv(j)'
    <3>1. pc'[j] \in BeforeLoop
      BY <2>5 DEF Goto, BeforeLoop, TypeOK
    <3>2. QED
      BY <2>1, <2>3, <2>5, <3>1, SetupGoesOn DEF JobInv
  <2>6. QED
    BY <2>2, <2>4, <2>5
<1>4. QED
  BY <1>1, <1>2, <1>3 DEF JobInv

\* The output of a setup command ends, or the set-up breaks for a reason.
LEMMA setupReturnsInv ==
    ASSUME TypeOK, NEW j \in Jobs, JobInv(j), setupReturns(j)
    PROVE  JobInv(j)'
<1>1. /\ pc[j] = "setupExec"
      /\ UNCHANGED <<ctxErr, dockerFaulty, k, container, deferred, proc, quiet,
                     overran, mishaps>>
      /\ \/ OutputEnded(j) /\ Goto(j, "setup") /\ UNCHANGED resultVars
         \/ SetupFails(j, "teardown") /\ SetupCause(j) /\ setupLeft' = setupLeft
  BY DEF setupReturns, SetupExecErrs, SetupCause, EnvironmentAtFault, ExitCode
<1>2. CASE OutputEnded(j) /\ Goto(j, "setup") /\ UNCHANGED resultVars
  <2>1. pc'[j] = "setup" /\ BoxInv(j)'
    BY <1>1, <1>2 DEF Goto, TypeOK, JobInv, BoxInv
  <2>2. OverlapInv(j)'
    BY <1>1, <1>2, OverlapKept DEF JobInv
  <2>3. ResultsInv(j)'
    BY <1>1, <1>2, <2>1, SetupGoesOn DEF JobInv, BeforeLoop
  <2>4. QED
    BY <2>1, <2>2, <2>3 DEF JobInv
<1>3. CASE SetupFails(j, "teardown") /\ SetupCause(j) /\ setupLeft' = setupLeft
  <2>1. pc'[j] = "teardown" /\ BoxInv(j)'
    BY <1>1, <1>3 DEF SetupFails, Goto, TypeOK, JobInv, BoxInv
  <2>2. OverlapInv(j)'
    BY <1>1, <1>3, <2>1, OverlapKept DEF JobInv, MayStillRun
  <2>3. ResultsInv(j)'
    BY <1>1, <1>3, SetupBreaks DEF JobInv, BeforeLoop
  <2>4. QED
    BY <2>1, <2>2, <2>3 DEF JobInv
<1>4. QED
  BY <1>1, <1>2, <1>3

\* The steps begin with no result and no error.
LEMMA initEnvFileInv ==
    ASSUME TypeOK, NEW j \in Jobs, JobInv(j), initEnvFile(j)
    PROVE  JobInv(j)'
<1>1. OverlapInv(j)' /\ BoxInv(j)'
  <2>1. OverlapInv(j)'
    BY OverlapKept DEF JobInv, initEnvFile, MayStillRun
  <2>2. BoxInv(j)'
    BY DEF JobInv, BoxInv, EnvironmentAtFault, initEnvFile, SetupFails, Goto, CallFails, CallSucceeds, TypeOK
  <2>3. QED
    BY <2>1, <2>2
<1>2. ResultsInv(j)'
  <2>1. /\ NoError(j) /\ k[j] = 0 /\ results[j] = <<>> /\ overran[j] = {}
        /\ k' = k /\ results' = results /\ overran' = overran
    BY DEF JobInv, ResultsInv, BeforeLoop, initEnvFile, SetupFails
  <2>2. CASE pc'[j] = "step" /\ UNCHANGED resultVars
    <3>1. CleanSoFar(j)'
      BY <2>1, <2>2 DEF CleanSoFar, NoError, Clean
    <3>2. QED
      BY <2>2, <3>1 DEF ResultsInv, BeforeLoop
  <2>3. CASE CallFails /\ pc'[j] = "teardown" /\ setupErr'[j] /\ runErr'[j]
    <3>1. SetupBroken(j)'
      BY <2>1, <2>3 DEF SetupBroken, SetupCause, EnvironmentAtFault, CallFails, initEnvFile
    <3>2. QED
      BY <2>3, <3>1 DEF ResultsInv, BeforeLoop
  <2>4. QED
    BY <2>2, <2>3 DEF initEnvFile, SetupFails, Goto, TypeOK
<1>3. QED
  BY <1>1, <1>2 DEF JobInv

\* No command is launched, and what has ended stays as it is.
Advances(j) ==
    /\ quiet[j] \subseteq quiet'[j]
    /\ \A c \in Commands :
          /\ proc'[j][c] = "running" => proc[j][c] = "running"
          /\ proc[j][c] \in {"zero", "nonzero"} => proc'[j][c] = proc[j][c]

\* The results up to a step stay true.
LEMMA ResultsKept ==
    ASSUME NEW j \in Jobs, Advances(j), NEW n \in Int, n <= NumSteps, Clean(j, n),
           \A i \in 1..n : results'[j][i] = results[j][i]
    PROVE  \A i \in 1..n : TrueResult(j, i)'
<1>1. 1..n \subseteq Commands
  BY NumStepsAssumption, NumSetupAssumption DEF Commands
<1>2. QED
  BY <1>1, CleanKept DEF Advances

(***************************************************************************)
(* Whatever the commands do meanwhile, what the runner has found out stays *)
(* true.                                                                   *)
(***************************************************************************)
LEMMA ClaimsKept ==
    ASSUME TypeOK, NEW j \in Jobs, Advances(j),
           UNCHANGED <<k, setupLeft, out, results, setupErr, runErr, overran,
                       mishaps, ctxErr, dockerFaulty>>
    PROVE  /\ SetupBroken(j) => SetupBroken(j)'
           /\ StepBroken(j) => StepBroken(j)'
           /\ CleanSoFar(j) => CleanSoFar(j)'
           /\ InStep(j) => InStep(j)'
           /\ OutcomeTrue(j) /\ k[j] >= 1 => OutcomeTrue(j)'
<1>1. /\ k[j] \in 0..NumSteps /\ NumSteps \in Nat /\ NumSetup \in Nat
      /\ results[j] \in Seq(StepResult) /\ Len(results[j]) \in Nat
  BY NumStepsAssumption, NumSetupAssumption DEF TypeOK
<1>2. 1..NumSteps \subseteq Commands
  BY <1>1 DEF Commands
<1>3. ASSUME NEW n \in Int, n <= NumSteps, Clean(j, n)
      PROVE  \A i \in 1..n : TrueResult(j, i)'
  BY <1>3, ResultsKept
<1>4. ASSUME SetupBroken(j) PROVE SetupBroken(j)'
  <2>1. SetupCause(j)'
    BY <1>4, CurrentCommand DEF SetupBroken, SetupCause, Advances, Current,
       EnvironmentAtFault
  <2>2. QED
    BY <1>4, <2>1 DEF SetupBroken
<1>5. ASSUME StepBroken(j) PROVE StepBroken(j)'
  <2> DEFINE n == Len(results[j])
  <2>1. n - 1 \in Int /\ n - 1 <= NumSteps /\ Clean(j, n - 1)
    BY <1>1, <1>5 DEF StepBroken
  <2>2. \A i \in 1..(n - 1) : TrueResult(j, i)'
    BY <1>3, <2>1
  <2>3. Clean(j, n - 1)'
    BY <2>2 DEF Clean
  <2>4. QED
    BY <1>5, <2>3 DEF StepBroken, EnvironmentAtFault
<1>6. ASSUME CleanSoFar(j) PROVE CleanSoFar(j)'
  <2>1. \A i \in 1..k[j] : TrueResult(j, i)'
    BY <1>1, <1>3, <1>6 DEF CleanSoFar
  <2>2. Clean(j, k[j])'
    BY <2>1 DEF Clean
  <2>3. QED
    BY <1>6, <2>2 DEF CleanSoFar, NoError
<1>7. ASSUME InStep(j) PROVE InStep(j)'
  <2>1. k[j] - 1 \in Int /\ k[j] - 1 <= NumSteps
    BY <1>1
  <2>2. \A i \in 1..(k[j] - 1) : TrueResult(j, i)'
    BY <1>3, <1>7, <2>1 DEF InStep
  <2>3. Clean(j, k[j] - 1)'
    BY <2>2 DEF Clean
  <2>4. QED
    BY <1>7, <2>3 DEF InStep, NoError
<1>8. ASSUME OutcomeTrue(j), k[j] >= 1 PROVE OutcomeTrue(j)'
  <2>1. k[j] \in Commands
    BY <1>1, <1>2, <1>8
  <2>2. QED
    BY <1>8, <2>1 DEF OutcomeTrue, Advances
<1>9. QED
  BY <1>4, <1>5, <1>6, <1>7, <1>8

(***************************************************************************)
(* The commands act: nothing the runner has found out becomes false, and   *)
(* none is launched.                                                       *)
(***************************************************************************)
LEMMA CommandActsInv ==
    ASSUME TypeOK, NEW j \in Jobs, JobInv(j), CommandActs(j)
    PROVE  JobInv(j)'
<1>1. PICK c \in Commands : ClosesOutput(j, c) \/ ProcessExits(j, c)
  BY DEF CommandActs
<1>2. UNCHANGED <<pc, k, setupLeft, out, results, setupErr, runErr, container,
                  deferred, overran, mishaps, ctxErr, dockerFaulty>>
  BY <1>1 DEF ClosesOutput, ProcessExits
<1>3. Advances(j)
  <2>1. CASE ClosesOutput(j, c)
    BY <2>1 DEF ClosesOutput, Advances, TypeOK
  <2>2. CASE ProcessExits(j, c)
    <3>1. PICK exit \in {"zero", "nonzero"} : Becomes(j, c, exit)
      BY <2>2 DEF ProcessExits
    <3>2. /\ proc'[j][c] = exit /\ proc[j][c] = "running" /\ quiet' = quiet
          /\ \A d \in Commands : d # c => proc'[j][d] = proc[j][d]
      BY <2>2, <3>1, BecomesTyped DEF ProcessExits, ProcStates
    <3>3. QED
      BY <3>2 DEF Advances
  <2>3. QED
    BY <1>1, <2>1, <2>2
<1>4. pc[j] \in {"setupExec", "exec", "classify", "publishLast", "teardown", "returned"}
         \/ pc[j] \notin MayStillRun
  BY DEF MayStillRun
<1>5. OverlapInv(j)'
  BY <1>2, <1>3, <1>4, OverlapKept DEF JobInv, Advances, MayStillRun
<1>6. BoxInv(j)'
  BY <1>2 DEF JobInv, BoxInv, EnvironmentAtFault
<1>7. /\ SetupBroken(j) => SetupBroken(j)'
      /\ StepBroken(j) => StepBroken(j)'
      /\ CleanSoFar(j) => CleanSoFar(j)'
      /\ InStep(j) => InStep(j)'
      /\ OutcomeTrue(j) /\ k[j] >= 1 => OutcomeTrue(j)'
  BY <1>2, <1>3, ClaimsKept
<1>8. InStep(j) => k[j] >= 1
  BY DEF InStep
<1>9. NoError(j) => NoError(j)'
  BY <1>2 DEF NoError
<1>10. pc[j] = "exec" => proc'[j][k'[j]] \in {"running", "zero", "nonzero"}
  <2>1. pc[j] = "exec" /\ proc[j][k[j]] \in {"running", "zero", "nonzero"}
           => proc'[j][k[j]] \in {"running", "zero", "nonzero"}
    <3>1. CASE ClosesOutput(j, c)
      BY <3>1 DEF ClosesOutput
    <3>2. CASE ProcessExits(j, c)
      <4>1. PICK exit \in {"zero", "nonzero"} : Becomes(j, c, exit)
        BY <3>2 DEF ProcessExits
      <4>2. \A d \in Commands : proc'[j][d] \in {proc[j][d], exit}
        BY <4>1, BecomesTyped DEF ProcStates
      <4>3. k[j] \in 1..NumSteps => k[j] \in Commands
        BY NumStepsAssumption, NumSetupAssumption DEF Commands
      <4>4. pc[j] = "exec" => k[j] \in 1..NumSteps
        BY <1>8 DEF JobInv, ResultsInv, TypeOK
      <4>5. QED
        BY <4>1, <4>2, <4>3, <4>4
    <3>3. QED
      BY <1>1, <3>1, <3>2
  <2>2. QED
    BY <1>2, <2>1 DEF JobInv, ResultsInv
<1>11. ResultsInv(j)'
  BY <1>2, <1>7, <1>8, <1>9, <1>10 DEF JobInv, ResultsInv
<1>12. QED
  BY <1>5, <1>6, <1>11 DEF JobInv

\* A step begins where all earlier ones are clean.
LEMMA beginStepInv ==
    ASSUME TypeOK, NEW j \in Jobs, JobInv(j), beginStep(j)
    PROVE  JobInv(j)'
<1>1. /\ pc[j] = "step" /\ CleanSoFar(j) /\ pc'[j] = "readBefore"
      /\ k'[j] = k[j] + 1 /\ k[j] \in Nat
      /\ results' = results /\ overran' = overran /\ proc' = proc /\ quiet' = quiet
      /\ setupErr' = setupErr /\ runErr' = runErr
  BY NumStepsAssumption DEF JobInv, ResultsInv, beginStep, Goto, TypeOK
<1>2. OverlapInv(j)' /\ BoxInv(j)'
  BY <1>1, OverlapKept DEF JobInv, MayStillRun, BoxInv
<1>3. \A i \in 1..k[j] : TrueResult(j, i)'
  BY <1>1, CleanKept DEF CleanSoFar
<1>4. InStep(j)'
  <2>1. k'[j] - 1 = k[j]
    BY <1>1
  <2>2. Clean(j, k[j] - 1)'
    BY <1>3, <2>1 DEF Clean
  <2>3. QED
    BY <1>1, <2>1, <2>2 DEF InStep, CleanSoFar, NoError
<1>5. ResultsInv(j)'
  BY <1>1, <1>4 DEF ResultsInv, BeforeLoop, CleanSoFar
<1>6. QED
  BY <1>2, <1>5 DEF JobInv

\* The loop ends after the last step, with one clean result each.
LEMMA stepsDoneInv ==
    ASSUME TypeOK, NEW j \in Jobs, JobInv(j), stepsDone(j)
    PROVE  JobInv(j)'
<1>1. /\ pc[j] = "step" /\ CleanSoFar(j) /\ pc'[j] = "teardown" /\ k[j] = NumSteps
      /\ UNCHANGED <<envVars, progress, resultVars, boxVars, truth>>
  BY NumStepsAssumption DEF JobInv, ResultsInv, stepsDone, HasNextStep, Goto, TypeOK
<1>2. CleanSoFar(j)' /\ k'[j] = NumSteps
  BY <1>1, ClaimsKept DEF Advances
<1>3. OverlapInv(j)' /\ BoxInv(j)'
  BY <1>1, OverlapKept DEF JobInv, MayStillRun, BoxInv
<1>4. ResultsInv(j)'
  BY <1>1, <1>2 DEF ResultsInv, BeforeLoop
<1>5. QED
  BY <1>3, <1>4 DEF JobInv

(***************************************************************************)
(* The loop breaks at a step that has no result yet: an errored result is  *)
(* the last one.                                                           *)
(***************************************************************************)
LEMMA BreaksInStep ==
    ASSUME TypeOK, NEW j \in Jobs, InStep(j), NEW exit \in ExitCodes,
           NEW err \in BOOLEAN, Record(j, exit, err), StepsFail(j), Advances(j),
           UNCHANGED <<k, setupErr, ctxErr, dockerFaulty, overran>>,
           \/ err /\ (EnvironmentAtFault \/ "envFile" \in mishaps'[j])
           \/ ~err /\ exit = "nonzero" /\ overran[j] # {}
    PROVE  StepBroken(j)'
<1> DEFINE n == Len(results[j])
<1>1. /\ n \in Nat /\ Len(results'[j]) = n + 1 /\ n + 1 = k[j]
      /\ results'[j][n + 1] = [step |-> k[j], exit |-> exit, err |-> err]
      /\ \A i \in 1..n : results'[j][i] = results[j][i]
  BY RecordAppends DEF InStep, TypeOK
<1>2. Clean(j, n) /\ n <= NumSteps
  <2>1. k[j] \in 0..NumSteps /\ NumSteps \in Nat
    BY NumStepsAssumption DEF TypeOK
  <2>2. k[j] - 1 = n
    BY <1>1, <2>1
  <2>3. QED
    BY <1>1, <2>1, <2>2 DEF InStep
<1>3. \A i \in 1..n : TrueResult(j, i)'
  BY <1>1, <1>2, ResultsKept
<1>4. Clean(j, Len(results[j]) - 1)'
  BY <1>1, <1>3 DEF Clean
<1>5. runErr'[j] /\ ~setupErr'[j]
  BY DEF StepsFail, InStep, NoError, TypeOK
<1>6. \/ results'[j][n + 1].err /\ (EnvironmentAtFault' \/ "envFile" \in mishaps'[j])
      \/ /\ ~results'[j][n + 1].err /\ results'[j][n + 1].exit = "nonzero"
         /\ overran'[j] # {}
  BY <1>1 DEF EnvironmentAtFault
<1>7. k'[j] = k[j] /\ k[j] >= 1
  BY DEF InStep
<1>8. QED
  BY <1>1, <1>4, <1>5, <1>6, <1>7 DEF StepBroken

(***************************************************************************)
(* It may also break after the step's own result.                          *)
(***************************************************************************)
LEMMA BreaksAfterStep ==
    ASSUME TypeOK, NEW j \in Jobs, CleanSoFar(j), k[j] >= 1,
           Record(j, "none", TRUE), StepsFail(j), Advances(j),
           UNCHANGED <<k, setupErr, ctxErr, dockerFaulty, overran>>,
           EnvironmentAtFault \/ "envFile" \in mishaps'[j]
    PROVE  StepBroken(j)'
<1> DEFINE n == Len(results[j])
<1>1. /\ n \in Nat /\ Len(results'[j]) = n + 1 /\ n = k[j]
      /\ results'[j][n + 1] = [step |-> k[j], exit |-> "none", err |-> TRUE]
      /\ \A i \in 1..n : results'[j][i] = results[j][i]
  <2>1. "none" \in ExitCodes
    BY DEF ExitCodes
  <2>2. results[j] \in Seq(StepResult) /\ n = k[j] /\ n \in Nat
    BY DEF TypeOK, CleanSoFar
  <2>3. QED
    BY <2>1, <2>2, RecordAppends
<1>2. Clean(j, n) /\ n <= NumSteps
  BY <1>1 DEF CleanSoFar, TypeOK
<1>3. \A i \in 1..n : TrueResult(j, i)'
  BY <1>1, <1>2, ResultsKept
<1>4. Clean(j, Len(results[j]) - 1)'
  BY <1>1, <1>3 DEF Clean
<1>5. runErr'[j] /\ ~setupErr'[j]
  BY DEF StepsFail, CleanSoFar, NoError, TypeOK
<1>6. /\ Len(results'[j]) >= 1 /\ Len(results'[j]) = k'[j] + 1 /\ k'[j] >= 1
      /\ results'[j][Len(results'[j])].err
  BY <1>1
<1>7. EnvironmentAtFault' \/ "envFile" \in mishaps'[j]
  BY DEF EnvironmentAtFault
<1>8. QED
  BY <1>4, <1>5, <1>6, <1>7 DEF StepBroken

\* A failed read before a step breaks it.
LEMMA readEnvBeforeInv ==
    ASSUME TypeOK, NEW j \in Jobs, JobInv(j), readEnvBefore(j)
    PROVE  JobInv(j)'
<1>1. /\ pc[j] = "readBefore" /\ InStep(j) /\ overran[j] = {}
      /\ UNCHANGED <<envVars, progress, boxVars, overran>> /\ Advances(j)
  BY DEF JobInv, ResultsInv, readEnvBefore, Advances
<1>2. CASE pc'[j] = "launch" /\ UNCHANGED <<resultVars, mishaps>>
  <2>1. InStep(j)'
    BY <1>1, <1>2, ClaimsKept
  <2>2. OverlapInv(j)'
    BY <1>1, OverlapKept DEF JobInv, MayStillRun
  <2>3. QED
    BY <1>1, <1>2, <2>1, <2>2 DEF JobInv, BoxInv, ResultsInv, BeforeLoop
<1>3. CASE /\ ReadFails(j) /\ Record(j, "none", TRUE) /\ StepsFail(j)
           /\ pc'[j] = "publishLast" /\ UNCHANGED setupErr
  <2>1. EnvironmentAtFault \/ "envFile" \in mishaps'[j]
    BY <1>3 DEF EnvironmentAtFault, ReadFails, CallFails, TypeOK
  <2>2. StepBroken(j)'
    BY <1>1, <1>3, <2>1, BreaksInStep DEF ExitCodes
  <2>3. OverlapInv(j)'
    BY <1>1, OverlapKept DEF JobInv, MayStillRun
  <2>4. QED
    BY <1>1, <1>3, <2>2, <2>3 DEF JobInv, BoxInv, ResultsInv, BeforeLoop
<1>4. QED
  BY <1>2, <1>3 DEF readEnvBefore, ReadSucceeds, Goto, TypeOK

\* A failed read after a step breaks it, with one result more.
LEMMA readEnvAfterInv ==
    ASSUME TypeOK, NEW j \in Jobs, JobInv(j), readEnvAfter(j)
    PROVE  JobInv(j)'
<1>1. /\ pc[j] = "readAfter" /\ CleanSoFar(j) /\ k[j] >= 1
      /\ UNCHANGED <<envVars, progress, boxVars, overran>> /\ Advances(j)
  BY DEF JobInv, ResultsInv, readEnvAfter, Advances
<1>2. CASE pc'[j] = "step" /\ UNCHANGED <<resultVars, mishaps>>
  <2>1. CleanSoFar(j)'
    BY <1>1, <1>2, ClaimsKept
  <2>2. OverlapInv(j)'
    BY <1>1, OverlapKept DEF JobInv, MayStillRun
  <2>3. QED
    BY <1>1, <1>2, <2>1, <2>2 DEF JobInv, BoxInv, ResultsInv, BeforeLoop
<1>3. CASE /\ ReadFails(j) /\ Record(j, "none", TRUE) /\ StepsFail(j)
           /\ pc'[j] = "publishLast" /\ UNCHANGED setupErr
  <2>1. EnvironmentAtFault \/ "envFile" \in mishaps'[j]
    BY <1>3 DEF EnvironmentAtFault, ReadFails, CallFails, TypeOK
  <2>2. StepBroken(j)'
    BY <1>1, <1>3, <2>1, BreaksAfterStep
  <2>3. OverlapInv(j)'
    BY <1>1, OverlapKept DEF JobInv, MayStillRun
  <2>4. QED
    BY <1>1, <1>3, <2>2, <2>3 DEF JobInv, BoxInv, ResultsInv, BeforeLoop
<1>4. QED
  BY <1>2, <1>3 DEF readEnvAfter, ReadSucceeds, Goto, TypeOK

(***************************************************************************)
(* Why execCommand failed is what it says.                                 *)
(***************************************************************************)
LEMMA ExecFailsTrue ==
    ASSUME TypeOK, NEW j \in Jobs, NEW ended, InStep(j), overran[j] = {},
           ExecFails(j, ended), UNCHANGED <<envVars, k>>, quiet' = quiet,
           \A i \in 1..(k[j] - 1) : proc'[j][i] = proc[j][i]
    PROVE  /\ pc'[j] = "classify" /\ InStep(j)' /\ OutcomeTrue(j)'
<1>1. PICK e \in ExecErrors(j, ended) :
         /\ out' = [out EXCEPT ![j] = e]
         /\ overran' = IF e = "stepDeadline"
                       THEN [overran EXCEPT ![j] = @ \cup {k[j]}] ELSE overran
         /\ Goto(j, "classify")
         /\ UNCHANGED <<results, setupErr, runErr>>
  BY DEF ExecFails
<1>2. pc'[j] = "classify" /\ out'[j] = e
  BY <1>1 DEF Goto, TypeOK
<1>3. InStep(j)'
  <2>1. k[j] - 1 \in Int /\ Clean(j, k[j] - 1)
    BY DEF InStep, TypeOK
  <2>2. \A i \in 1..(k[j] - 1) : TrueResult(j, i)'
    BY <1>1, <2>1, CleanKept
  <2>3. Clean(j, k[j] - 1)'
    BY <2>2 DEF Clean
  <2>4. QED
    BY <1>1, <2>3 DEF InStep, NoError
<1>4. e = "stepDeadline" => overran'[j] # {} /\ k'[j] \in Timed
  BY <1>1 DEF ExecErrors, StepDeadlineArmed, TypeOK
<1>5. /\ e \notin {"zero", "nonzero"}
      /\ e = "ctxDone" => ctxErr' # "none"
      /\ e = "fault" => dockerFaulty'
  BY DEF ExecErrors
<1>6. OutcomeTrue(j)'
  BY <1>2, <1>4, <1>5 DEF OutcomeTrue
<1>7. QED
  BY <1>2, <1>3, <1>6

\* A command starts only where none runs that keeps its output open.
LEMMA execStepInv ==
    ASSUME TypeOK, NEW j \in Jobs, JobInv(j), execStep(j)
    PROVE  JobInv(j)'
<1>1. /\ pc[j] = "launch" /\ InStep(j) /\ overran[j] = {} /\ k[j] >= 1
      /\ UNCHANGED <<envVars, progress, container, deferred, quiet, envFile, mishaps>>
      /\ pc'[j] \in {"exec", "classify"} /\ pc[j] \notin MayStillRun
      /\ k[j] \in 0..NumSteps /\ NumSteps \in Nat /\ NumSetup \in Nat
  BY NumStepsAssumption, NumSetupAssumption
  DEF JobInv, ResultsInv, execStep, InStep, ExecFails, Goto, MayStillRun, TypeOK
<1>2. /\ OverlapInv(j)' /\ quiet' = quiet
      /\ \A i \in 1..(k[j] - 1) : proc'[j][i] = proc[j][i]
  <2>1. CASE proc' = proc
    BY <1>1, <2>1, OverlapKept DEF JobInv
  <2>2. CASE Becomes(j, k[j], "running")
    <3>1. Current(j) = k[j] /\ Current(j) \in Commands
      BY <1>1, CurrentCommand DEF Current
    <3>2. OverlapInv(j)'
      BY <1>1, <2>2, <3>1, OverlapStarts DEF JobInv, MayStillRun
    <3>3. \A d \in Commands : d # k[j] => proc'[j][d] = proc[j][d]
      BY <2>2, <3>1, BecomesTyped DEF ProcStates
    <3>4. \A i \in 1..(k[j] - 1) : i \in Commands /\ i # k[j]
      BY <1>1 DEF Commands
    <3>5. QED
      BY <1>1, <3>2, <3>3, <3>4
  <2>3. QED
    BY <2>1, <2>2 DEF execStep
<1>3. CASE /\ pc'[j] = "exec" /\ UNCHANGED <<resultVars, overran>>
           /\ Becomes(j, k[j], "running")
  <2>0. proc'[j][k'[j]] = "running"
    BY <1>1, <1>3, BecomesTyped DEF Commands, ProcStates
  <2>1. InStep(j)'
    <3>1. k[j] - 1 \in Int /\ Clean(j, k[j] - 1)
      BY <1>1 DEF InStep
    <3>2. \A i \in 1..(k[j] - 1) : TrueResult(j, i)'
      BY <1>2, <1>3, <3>1, CleanKept
    <3>3. Clean(j, k[j] - 1)'
      BY <1>1, <3>2 DEF Clean
    <3>4. QED
      BY <1>1, <1>3, <3>3 DEF InStep, NoError
  <2>2. QED
    BY <1>1, <1>2, <1>3, <2>0, <2>1 DEF JobInv, BoxInv, ResultsInv, BeforeLoop
<1>4. CASE ExecFails(j, TRUE)
  <2>1. pc'[j] = "classify" /\ InStep(j)' /\ OutcomeTrue(j)'
    BY <1>1, <1>2, <1>4, ExecFailsTrue
  <2>2. QED
    BY <1>1, <1>2, <2>1 DEF JobInv, BoxInv, ResultsInv, BeforeLoop
<1>5. QED
  BY <1>3, <1>4 DEF execStep, Goto, TypeOK

\* What execCommand returns is what happened.
LEMMA execReturnsInv ==
    ASSUME TypeOK, NEW j \in Jobs, JobInv(j), execReturns(j)
    PROVE  JobInv(j)'
<1>1. /\ pc[j] = "exec" /\ InStep(j) /\ overran[j] = {} /\ k[j] >= 1
      /\ UNCHANGED <<envVars, progress, boxVars, mishaps>> /\ Advances(j)
      /\ pc'[j] = "classify"
  BY DEF JobInv, ResultsInv, execReturns, ExecFails, InStep, Advances, Goto, TypeOK
<1>2. OverlapInv(j)'
  BY <1>1, OverlapKept DEF JobInv, MayStillRun
<1>3. CASE /\ OutputEnded(j) /\ out'[j] = ExitCode(j)
           /\ UNCHANGED <<results, setupErr, runErr, overran>>
  <2>1. InStep(j)'
    <3>1. k[j] - 1 \in Int /\ k[j] - 1 <= NumSteps /\ Clean(j, k[j] - 1)
      BY <1>1, NumStepsAssumption DEF InStep, TypeOK
    <3>2. \A i \in 1..(k[j] - 1) : TrueResult(j, i)'
      BY <1>1, <1>3, <3>1, ResultsKept
    <3>3. Clean(j, k[j] - 1)'
      BY <1>1, <3>2 DEF Clean
    <3>4. QED
      BY <1>1, <1>3, <3>3 DEF InStep, NoError
  <2>2. OutcomeTrue(j)'
    <3>1. Current(j) = k[j] /\ Current(j) \in Commands
      BY <1>1, CurrentCommand DEF Current, TypeOK
    <3>2. \/ proc[j][k[j]] = ExitCode(j)
          \/ ExitCode(j) = "zero" /\ k[j] \in quiet[j]
      BY <1>1, <1>3, <3>1 DEF OutputEnded, ExitCode, JobInv, ResultsInv
    <3>3. ExitCode(j) \in {"zero", "nonzero"}
      BY DEF ExitCode
    <3>4. QED
      BY <1>1, <1>3, <3>2, <3>3 DEF OutcomeTrue
  <2>3. QED
    BY <1>1, <1>2, <2>1, <2>2 DEF JobInv, BoxInv, ResultsInv, BeforeLoop
<1>4. CASE ExecFails(j, WaitEnds(j))
  <2>1. InStep(j)' /\ OutcomeTrue(j)'
    BY <1>1, <1>4, ExecFailsTrue
  <2>2. QED
    BY <1>1, <1>2, <2>1 DEF JobInv, BoxInv, ResultsInv, BeforeLoop
<1>5. QED
  BY <1>3, <1>4 DEF execReturns, TypeOK

(***************************************************************************)
(* The switch of runSteps blames the cause that occurred.                  *)
(***************************************************************************)
LEMMA classifyInv ==
    ASSUME TypeOK, NEW j \in Jobs, JobInv(j), classify(j)
    PROVE  JobInv(j)'
<1>1. /\ pc[j] = "classify" /\ InStep(j) /\ OutcomeTrue(j)
      /\ UNCHANGED <<envVars, progress, out, setupErr, boxVars, truth>>
  BY DEF JobInv, ResultsInv, classify
<1>2. CASE ~ExecErred(j)
  <2> DEFINE n == Len(results[j])
  <2>1. /\ Record(j, out[j], FALSE) /\ pc'[j] = "publish" /\ runErr' = runErr
        /\ out[j] \in {"zero", "nonzero"}
    BY <1>2 DEF classify, ExecErred, Goto, TypeOK
  <2>2. /\ overran[j] = {} /\ OutputEnded(j)
        /\ proc[j][k[j]] = out[j] \/ (out[j] = "zero" /\ k[j] \in quiet[j])
    <3>1. Current(j) = k[j]
      BY <1>1 DEF InStep, Current, TypeOK
    <3>2. QED
      BY <1>1, <2>1, <3>1 DEF OutcomeTrue, OutputEnded
  <2>3. /\ n \in Nat /\ n + 1 = k[j] /\ Len(results'[j]) = n + 1
        /\ results'[j][n + 1] = [step |-> k[j], exit |-> out[j], err |-> FALSE]
        /\ \A i \in 1..n : results'[j][i] = results[j][i]
    <3>1. out[j] \in ExitCodes
      BY <2>1 DEF ExitCodes
    <3>2. results[j] \in Seq(StepResult) /\ n + 1 = k[j] /\ n \in Nat
      BY <1>1 DEF TypeOK, InStep
    <3>3. QED
      BY <2>1, <3>1, <3>2, RecordAppends
  <2>4. Clean(j, k[j])'
    <3>1. \A i \in 1..n : TrueResult(j, i)'
      <4>1. k[j] \in 0..NumSteps /\ NumSteps \in Nat
        BY NumStepsAssumption DEF TypeOK
      <4>2. k[j] - 1 = n /\ n \in Int /\ n <= NumSteps
        BY <2>3, <4>1
      <4>3. Clean(j, n) /\ Advances(j)
        BY <1>1, <4>2 DEF InStep, Advances
      <4>4. QED
        BY <2>3, <4>2, <4>3, ResultsKept
    <3>2. results'[j][n + 1] = [step |-> n + 1, exit |-> out[j], err |-> FALSE]
          /\ (proc'[j][n + 1] = out[j] \/ (out[j] = "zero" /\ (n + 1) \in quiet'[j]))
      BY <1>1, <2>2, <2>3
    <3>3. PICK m \in Nat : m = n + 1
      BY <2>3
    <3>4. TrueResult(j, m)'
      BY <2>1, <3>2, <3>3 DEF TrueResult
    <3>5. \A i \in 1..m : i \in 1..n \/ i = m
      BY <2>3, <3>3
    <3>6. \A i \in 1..m : TrueResult(j, i)'
      BY <3>1, <3>4, <3>5
    <3>7. k'[j] = m
      BY <1>1, <2>3, <3>3
    <3>8. QED
      BY <3>6, <3>7 DEF Clean
  <2>5. CleanSoFar(j)' /\ k'[j] >= 1
    BY <1>1, <2>1, <2>2, <2>3, <2>4 DEF CleanSoFar, InStep, NoError
  <2>6. OverlapInv(j)'
    BY <1>1, <2>2, OverlapKept DEF JobInv
  <2>7. QED
    BY <1>1, <2>1, <2>5, <2>6 DEF JobInv, BoxInv, ResultsInv, BeforeLoop
<1>3. CASE ExecErred(j)
  <2>1. /\ \/ ~RunCancelled(j) /\ StepTimedOut(j) /\ Record(j, "nonzero", FALSE)
           \/ ~(~RunCancelled(j) /\ StepTimedOut(j)) /\ Record(j, "none", TRUE)
        /\ StepsFail(j) /\ pc'[j] = "publishLast"
    BY <1>3 DEF classify, Goto, TypeOK
  <2>2. ASSUME ~RunCancelled(j), StepTimedOut(j), Record(j, "nonzero", FALSE)
        PROVE  StepBroken(j)'
    <3>1. out[j] = "stepDeadline"
      BY <1>1, <1>3, <2>2 DEF RunCancelled, StepTimedOut, IsDeadlineExceeded, OutcomeTrue
    <3>2. overran[j] # {} /\ "nonzero" \in ExitCodes
      BY <1>1, <3>1 DEF OutcomeTrue, ExitCodes
    <3>3. QED
      BY <1>1, <2>1, <2>2, <3>2, BreaksInStep DEF Advances
  <2>3. ASSUME ~(~RunCancelled(j) /\ StepTimedOut(j)), Record(j, "none", TRUE)
        PROVE  StepBroken(j)'
    <3>1. EnvironmentAtFault
      <4>1. CASE out[j] = "stepDeadline"
        BY <1>1, <2>3, <4>1 DEF OutcomeTrue, RunCancelled, StepTimedOut, ExecErred,
           StepDeadlineArmed, IsDeadlineExceeded, EnvironmentAtFault
      <4>2. CASE out[j] # "stepDeadline"
        BY <1>1, <1>3, <4>2 DEF OutcomeTrue, ExecErred, EnvironmentAtFault, TypeOK, Outcomes
      <4>3. QED
        BY <4>1, <4>2
    <3>2. "none" \in ExitCodes
      BY DEF ExitCodes
    <3>3. QED
      BY <1>1, <2>1, <2>3, <3>1, <3>2, BreaksInStep DEF Advances
  <2>4. StepBroken(j)'
    BY <2>1, <2>2, <2>3
  <2>5. OverlapInv(j)'
    BY <1>1, <2>1, OverlapKept DEF JobInv, MayStillRun
  <2>6. QED
    BY <1>1, <2>1, <2>4, <2>5 DEF JobInv, BoxInv, ResultsInv, BeforeLoop
<1>4. QED
  BY <1>2, <1>3

\* A publication touches the event stream only.
LEMMA publishFinishedInv ==
    ASSUME TypeOK, NEW j \in Jobs, JobInv(j), publishFinished(j)
    PROVE  JobInv(j)'
<1>1. UNCHANGED <<envVars, progress, resultVars, boxVars, truth>> /\ Advances(j)
  BY DEF publishFinished, Advances
<1>2. /\ StepBroken(j) => StepBroken(j)'
      /\ CleanSoFar(j) => CleanSoFar(j)'
  BY <1>1, ClaimsKept
<1>3. CASE pc[j] = "publish" /\ pc'[j] = "readAfter"
  <2>1. OverlapInv(j)'
    BY <1>1, <1>3, OverlapKept DEF JobInv, MayStillRun
  <2>2. QED
    BY <1>1, <1>2, <1>3, <2>1 DEF JobInv, BoxInv, ResultsInv, BeforeLoop
<1>4. CASE pc[j] = "publishLast" /\ pc'[j] = "teardown"
  <2>1. OverlapInv(j)'
    BY <1>1, <1>4, OverlapKept DEF JobInv, MayStillRun
  <2>2. QED
    BY <1>1, <1>2, <1>4, <2>1 DEF JobInv, BoxInv, ResultsInv, BeforeLoop
<1>5. QED
  BY <1>3, <1>4 DEF publishFinished, Goto, TypeOK

(***************************************************************************)
(* The removal kills what runs; what has ended stays as it is.             *)
(***************************************************************************)
LEMMA teardownInv ==
    ASSUME TypeOK, NEW j \in Jobs, JobInv(j), teardown(j)
    PROVE  JobInv(j)'
<1>1. /\ pc[j] = "teardown" /\ pc'[j] = "returned"
      /\ UNCHANGED <<envVars, progress, resultVars, deferred, quiet, envFile, truth>>
      /\ container'[j] = "removed" \/ (dockerFaulty /\ container' = container)
  BY DEF teardown, TeardownFails, Goto, TypeOK
<1>2. Advances(j)
  <2>1. \/ proc' = proc
        \/ proc' = [proc EXCEPT ![j] = [c \in Commands |-> Killed(proc[j][c])]]
    BY DEF teardown
  <2>2. \/ proc' = proc
        \/ \A c \in Commands : proc'[j][c] = Killed(proc[j][c])
    BY <2>1 DEF TypeOK
  <2>3. QED
    BY <1>1, <2>2 DEF Advances, Killed
<1>3. OverlapInv(j)' /\ BoxInv(j)'
  <2>1. OverlapInv(j)'
    BY <1>1, <1>2, OverlapKept DEF JobInv, MayStillRun, Advances
  <2>2. QED
    BY <1>1, <2>1 DEF BoxInv
<1>4. SetupBroken(j) \/ StepBroken(j) \/ (CleanSoFar(j) /\ k[j] = NumSteps)
  BY <1>1 DEF JobInv, ResultsInv
<1>5. /\ SetupBroken(j) => SetupBroken(j)'
      /\ StepBroken(j) => StepBroken(j)'
      /\ CleanSoFar(j) => CleanSoFar(j)'
  BY <1>1, <1>2, ClaimsKept
<1>6. QED
  BY <1>1, <1>3, <1>4, <1>5 DEF JobInv, ResultsInv, BeforeLoop

-----------------------------------------------------------------------------
(* The invariant.                                                          *)

\* The invariant, job by job.
LEMMA InvPerJob == IInv <=> TypeOK /\ \A j \in Jobs : JobInv(j)
BY DEF IInv, NoOverlap, JobInv, OverlapInv, MayStillRun

\* The initial states satisfy the invariant.
LEMMA InitInv == Init => IInv
<1> SUFFICES ASSUME Init PROVE IInv
  OBVIOUS
<1>1. /\ "idle" \in Labels /\ "zero" \in Outcomes
      /\ <<>> \in Seq(StepResult) /\ <<>> \in Seq(Event)
  BY DEF Labels, Outcomes
<1>2. 0 \in 0..NumSteps /\ NumSetup \in 0..NumSetup
  BY NumStepsAssumption, NumSetupAssumption
<1>3. TypeOK
  BY <1>1, <1>2 DEF Init, TypeOK, ProcStates
<1>4. ASSUME NEW j \in Jobs PROVE JobInv(j)
  BY DEF Init, JobInv, OverlapInv, BoxInv, ResultsInv, BeforeLoop, NoError
<1>5. QED
  BY <1>3, <1>4, InvPerJob

(***************************************************************************)
(* Every step keeps the invariant: the job that acts by its own lemma, the *)
(* others because it leaves them alone.                                    *)
(***************************************************************************)
LEMMA StepInv == IInv /\ [Next]_vars => IInv'
<1> SUFFICES ASSUME IInv, [Next]_vars PROVE IInv'
  OBVIOUS
<1>1. TypeOK /\ TypeOK' /\ \A j \in Jobs : JobInv(j)
  BY TypeStep, InvPerJob
<1>2. CASE UNCHANGED vars
  <2>1. \A j \in Jobs : Untouched(j)
    BY <1>2 DEF vars, Untouched
  <2>2. EnvironmentMonotone
    BY <1>2 DEF vars, EnvironmentMonotone
  <2>3. \A j \in Jobs : JobInv(j)'
    BY <1>1, <2>1, <2>2, UntouchedInv
  <2>4. QED
    BY <1>1, <2>3 DEF IInv, NoOverlap, JobInv, OverlapInv, MayStillRun
<1>3. CASE Cancel
  <2>1. \A j \in Jobs : Untouched(j)
    BY <1>3 DEF Cancel, Untouched
  <2>2. EnvironmentMonotone
    BY <1>3 DEF Cancel, EnvironmentMonotone
  <2>3. \A j \in Jobs : JobInv(j)'
    BY <1>1, <2>1, <2>2, UntouchedInv
  <2>4. QED
    BY <1>1, <2>3 DEF IInv, NoOverlap, JobInv, OverlapInv, MayStillRun
<1>4. ASSUME NEW i \in Jobs, Begin(i) \/ RunStep(i) \/ CommandActs(i)
      PROVE  IInv'
  <2>1. JobInv(i)'
    BY <1>1, <1>4, BeginInv, CommandActsInv, pullImageInv, createContainerInv,
       mountArchiveInv, abandonContainerInv, startContainerInv, execSetupInv,
       setupReturnsInv, initEnvFileInv, beginStepInv, stepsDoneInv,
       readEnvBeforeInv, execStepInv, execReturnsInv, classifyInv,
       publishFinishedInv, readEnvAfterInv, teardownInv
    DEF RunStep, BeforeSteps, StepLoop
  <2>2. \A j \in Jobs \ {i} : JobInv(j)'
    BY <1>1, <1>4, OthersUntouched, UntouchedInv
  <2>3. \A j \in Jobs : JobInv(j)'
    BY <2>1, <2>2
  <2>4. QED
    BY <1>1, <2>3 DEF IInv, NoOverlap, JobInv, OverlapInv, MayStillRun
<1>5. QED
  BY <1>2, <1>3, <1>4 DEF Next, Done

-----------------------------------------------------------------------------
(* The properties follow from the invariant.                               *)

StatusesOf(j) == {StepStatus(results[j][i]) : i \in DOMAIN results[j]}

(***************************************************************************)
(* A job whose steps all have an exit code passed or failed: it failed     *)
(* exactly when one of them did.                                           *)
(***************************************************************************)
LEMMA VerdictOfExits ==
    ASSUME TypeOK, NEW j \in Jobs, results[j] # <<>>, ~setupErr[j],
           \A i \in DOMAIN results[j] : ~results[j][i].err
    PROVE  JobStatus(j) =
              IF \A i \in DOMAIN results[j] : results[j][i].exit = "zero"
              THEN "passed" ELSE "failed"
<1>1. DOMAIN results[j] # {}
  <2>1. results[j] \in Seq(StepResult)
    BY DEF TypeOK
  <2>2. Len(results[j]) \in Nat \ {0}
    BY <2>1, EmptySeq
  <2>3. DOMAIN results[j] = 1..Len(results[j])
    BY <2>1, LenProperties
  <2>4. 1 \in DOMAIN results[j]
    BY <2>2, <2>3
  <2>5. QED
    BY <2>4
<1>2. StatusesOf(j) \in SUBSET Statuses /\ StatusesOf(j) # {}
  BY <1>1 DEF StatusesOf, StepStatus, Statuses
<1>3. JobStatus(j) = WorstOf(StatusesOf(j))
  BY <1>2 DEF JobStatus, JobResultStatus, AggregateStatus, StatusesOf
<1>4. CASE \A i \in DOMAIN results[j] : results[j][i].exit = "zero"
  <2>1. \A t \in StatusesOf(j) : t = "passed"
    BY <1>4 DEF StatusesOf, StepStatus
  <2>2. QED
    BY <1>2, <1>3, <1>4, <2>1, WorstOfPassed
<1>5. CASE \E i \in DOMAIN results[j] : results[j][i].exit # "zero"
  <2>1. "failed" \in StatusesOf(j) /\ StatusesOf(j) \subseteq {"passed", "failed"}
    BY <1>5 DEF StatusesOf, StepStatus
  <2>2. \A t \in StatusesOf(j) \cup {"passed"} : statusRank(t) <= statusRank("failed")
    BY <2>1 DEF statusRank
  <2>3. WorstOf(StatusesOf(j)) = "failed"
    BY <1>2, <2>1, <2>2, WorstOfUnique
  <2>4. QED
    BY <1>3, <1>5, <2>3
<1>6. QED
  BY <1>4, <1>5

(***************************************************************************)
(* One result with an error makes the job errored.                         *)
(***************************************************************************)
LEMMA VerdictOfError ==
    ASSUME TypeOK, NEW j \in Jobs, ~setupErr[j],
           NEW i \in DOMAIN results[j], results[j][i].err
    PROVE  JobStatus(j) = "errored"
<1>1. "errored" \in StatusesOf(j) /\ StatusesOf(j) \in SUBSET Statuses
  BY DEF StatusesOf, StepStatus, Statuses
<1>2. \A t \in StatusesOf(j) \cup {"passed"} : statusRank(t) <= statusRank("errored")
  BY <1>1 DEF statusRank, Statuses
<1>3. WorstOf(StatusesOf(j)) = "errored"
  BY <1>1, <1>2, WorstOfUnique
<1>4. QED
  BY <1>1, <1>3 DEF JobStatus, JobResultStatus, AggregateStatus, StatusesOf

\* What a true result says of its process.
LEMMA CleanResult ==
    ASSUME NEW j \in Jobs, NEW i, TrueResult(j, i)
    PROVE  /\ ~results[j][i].err
           /\ results[j][i].exit = "zero" => proc[j][i] = "zero" \/ i \in quiet[j]
           /\ results[j][i].exit # "zero" => proc[j][i] = "nonzero"
<1>1. PICK exit \in {"zero", "nonzero"} :
         /\ results[j][i] = [step |-> i, exit |-> exit, err |-> FALSE]
         /\ proc[j][i] = exit \/ (exit = "zero" /\ i \in quiet[j])
  BY DEF TrueResult
<1>2. results[j][i].exit = exit /\ ~results[j][i].err
  BY <1>1
<1>3. QED
  BY <1>1, <1>2

(***************************************************************************)
(* The verdict of a job that has returned is the truth about its steps.    *)
(***************************************************************************)
LEMMA InvVerdictHonest == IInv => VerdictHonest
<1> SUFFICES ASSUME IInv, NEW j \in Jobs, Returned(j)
             PROVE  \/ /\ JobStatus(j) = "passed"
                       /\ \A s \in 1..NumSteps : proc[j][s] = "zero" \/ s \in quiet[j]
                    \/ /\ JobStatus(j) = "failed"
                       /\ \/ \E s \in 1..NumSteps : proc[j][s] = "nonzero"
                          \/ overran[j] # {}
                    \/ /\ JobStatus(j) = "errored"
                       /\ \/ ctxErr # "none" \/ dockerFaulty
                          \/ k[j] = 0 /\ (\/ "archive" \in mishaps[j]
                                          \/ proc[j][Current(j)] = "nonzero")
                          \/ k[j] > 0 /\ "envFile" \in mishaps[j]
  BY DEF VerdictHonest
<1>1. TypeOK /\ JobInv(j)
  BY InvPerJob
<1>2. SetupBroken(j) \/ StepBroken(j) \/ (CleanSoFar(j) /\ k[j] = NumSteps)
  BY <1>1 DEF JobInv, ResultsInv, Returned
<1> DEFINE n == Len(results[j])
<1>3. /\ results[j] \in Seq(StepResult) /\ DOMAIN results[j] = 1..n /\ n \in Nat
      /\ k[j] \in 0..NumSteps
  BY <1>1, LenProperties DEF TypeOK
<1>4. CASE SetupBroken(j)
  BY <1>4 DEF SetupBroken, SetupCause, JobStatus, JobResultStatus, EnvironmentAtFault
<1>5. CASE StepBroken(j)
  <2>1. n >= 1 /\ n \in DOMAIN results[j] /\ ~setupErr[j] /\ k[j] > 0
    BY <1>3, <1>5 DEF StepBroken
  <2>2. CASE results[j][n].err
    <3>1. JobStatus(j) = "errored"
      BY <1>1, <2>1, <2>2, VerdictOfError
    <3>2. EnvironmentAtFault \/ "envFile" \in mishaps[j]
      BY <1>5, <2>2 DEF StepBroken
    <3>3. QED
      BY <2>1, <3>1, <3>2 DEF EnvironmentAtFault
  <2>3. CASE ~results[j][n].err
    <3>1. results[j][n].exit = "nonzero" /\ overran[j] # {}
      BY <1>5, <2>3 DEF StepBroken
    <3>2. \A i \in 1..(n - 1) : ~results[j][i].err
      BY <1>5, CleanResult DEF StepBroken, Clean
    <3>3. \A i \in DOMAIN results[j] : i \in 1..(n - 1) \/ i = n
      BY <1>3
    <3>4. \A i \in DOMAIN results[j] : ~results[j][i].err
      BY <2>3, <3>2, <3>3
    <3>5. results[j] # <<>>
      BY <2>1
    <3>6. JobStatus(j) = "failed"
      BY <1>1, <2>1, <3>1, <3>4, <3>5, VerdictOfExits
    <3>7. QED
      BY <3>1, <3>6
  <2>4. QED
    BY <2>2, <2>3
<1>6. CASE CleanSoFar(j) /\ k[j] = NumSteps
  <2>1. n = NumSteps /\ ~setupErr[j] /\ n >= 1
    BY <1>6, NumStepsAssumption DEF CleanSoFar, NoError
  <2>2. \A i \in 1..n :
           /\ ~results[j][i].err
           /\ results[j][i].exit = "zero" => proc[j][i] = "zero" \/ i \in quiet[j]
           /\ results[j][i].exit # "zero" => proc[j][i] = "nonzero"
    BY <1>6, CleanResult DEF CleanSoFar, Clean
  <2>3. results[j] # <<>>
    BY <2>1
  <2>4. JobStatus(j) = IF \A i \in 1..n : results[j][i].exit = "zero"
                       THEN "passed" ELSE "failed"
    BY <1>1, <1>3, <2>1, <2>2, <2>3, VerdictOfExits
  <2>5. QED
    BY <2>1, <2>2, <2>4
<1>7. QED
  BY <1>2, <1>4, <1>5, <1>6

(***************************************************************************)
(* An error is returned exactly by the runs that did not complete.         *)
(***************************************************************************)
LEMMA InvNilError == IInv => NilErrorMeansEveryStepRan
<1> SUFFICES ASSUME IInv, NEW j \in Jobs, Returned(j)
             PROVE  ~runErr[j] <=>
                       /\ Len(results[j]) = NumSteps
                       /\ \A i \in 1..Len(results[j]) : TrueResult(j, i)
                       /\ overran[j] = {}
  BY DEF NilErrorMeansEveryStepRan
<1>1. TypeOK /\ JobInv(j)
  BY InvPerJob
<1>2. SetupBroken(j) \/ StepBroken(j) \/ (CleanSoFar(j) /\ k[j] = NumSteps)
  BY <1>1 DEF JobInv, ResultsInv, Returned
<1>3. CASE SetupBroken(j)
  BY <1>3, EmptySeq, NumStepsAssumption DEF SetupBroken
<1>4. CASE StepBroken(j)
  <2>1. runErr[j] /\ Len(results[j]) >= 1
    BY <1>4 DEF StepBroken
  <2>2. \/ results[j][Len(results[j])].err
        \/ overran[j] # {}
    BY <1>4 DEF StepBroken
  <2>3. Len(results[j]) \in 1..Len(results[j])
    BY <1>1, <2>1 DEF TypeOK
  <2>4. TrueResult(j, Len(results[j])) => ~results[j][Len(results[j])].err
    BY CleanResult
  <2>5. QED
    BY <2>1, <2>2, <2>3, <2>4
<1>5. CASE CleanSoFar(j) /\ k[j] = NumSteps
  BY <1>5 DEF CleanSoFar, Clean, NoError
<1>6. QED
  BY <1>2, <1>3, <1>4, <1>5

\* What may outlive a returned Run was never handed over.
LEMMA InvLeaks == IInv => OnlyUnfinishedCreateLeaks
BY InvPerJob DEF JobInv, BoxInv, OnlyUnfinishedCreateLeaks, Returned

-----------------------------------------------------------------------------
(* The event stream.                                                       *)

\* The results the stream has told of: the last one is told by `publish` and
\* `publishLast`, all of them elsewhere.
ToldResults(j) ==
    IF pc[j] \in {"publish", "publishLast"}
    THEN Len(results[j]) - 1 ELSE Len(results[j])

EventInv(j) == ~lost[j] => Told(j, ToldResults(j))

(***************************************************************************)
(* A publication that is not lost appends one event and keeps the rest.    *)
(***************************************************************************)
LEMMA EmitAppends ==
    ASSUME TypeOK, NEW j \in Jobs, NEW e \in Event, emitStep(j, e), ~lost'[j]
    PROVE  /\ ~lost[j]
           /\ Len(log'[j]) = Len(log[j]) + 1
           /\ log'[j][Len(log[j]) + 1] = e
           /\ \A p \in 1..Len(log[j]) : log'[j][p] = log[j][p]
<1>1. /\ log \in [Jobs -> Seq(Event)] /\ lost \in [Jobs -> BOOLEAN]
      /\ log[j] \in Seq(Event)
  BY DEF TypeOK
<1>2. log'[j] = Append(log[j], e) /\ ~lost[j]
  BY <1>1 DEF emitStep
<1>3. /\ Len(Append(log[j], e)) = Len(log[j]) + 1
      /\ Append(log[j], e)[Len(log[j]) + 1] = e
      /\ \A p \in 1..Len(log[j]) : Append(log[j], e)[p] = log[j][p]
  BY <1>1, AppendProperties
<1>4. QED
  BY <1>2, <1>3

(***************************************************************************)
(* A step that publishes nothing and leaves the results alone, or appends  *)
(* one that is yet to be told, keeps the stream's invariant.               *)
(***************************************************************************)
LEMMA SilentStep ==
    ASSUME NEW j \in Jobs, EventInv(j),
           log'[j] = log[j], lost'[j] = lost[j], k'[j] = k[j],
           results[j] \in Seq(StepResult), ToldResults(j)' = ToldResults(j),
           ToldResults(j) <= Len(results[j]),
           \A i \in 1..Len(results[j]) : results'[j][i] = results[j][i]
    PROVE  EventInv(j)'
<1> SUFFICES ASSUME ~lost'[j] PROVE Told(j, ToldResults(j))'
  BY DEF EventInv
<1> DEFINE n == ToldResults(j)
<1>1. Told(j, n)
  BY DEF EventInv
<1>2. \A i \in 1..n : results'[j][i] = results[j][i] /\ FinishedAt(j, i)' = FinishedAt(j, i)
  BY LenProperties DEF FinishedAt, ToldResults
<1>3. Len(log'[j]) = k'[j] + n
      /\ \A s \in 1..k'[j] : log'[j][2 * s - 1] = StartedEvent(s)
  BY <1>1 DEF Told
<1>4. \A i \in 1..n : log'[j][FinishedAt(j, i)'] =
             [type |-> "step.finished", step |-> results'[j][i].step,
              status |-> StepStatus(results'[j][i])]
  BY <1>1, <1>2 DEF Told
<1>5. QED
  BY <1>3, <1>4 DEF Told

(***************************************************************************)
(* The announcement of the next step comes behind everything told so far.  *)
(***************************************************************************)
LEMMA beginStepTold ==
    ASSUME TypeOK, NEW j \in Jobs, JobInv(j), EventInv(j), beginStep(j)
    PROVE  EventInv(j)'
<1> SUFFICES ASSUME ~lost'[j] PROVE Told(j, ToldResults(j))'
  BY DEF EventInv
<1> DEFINE n == k[j]
           e == StartedEvent(n + 1)
<1>1. /\ n \in 0..NumSteps /\ n < NumSteps /\ NumSteps \in Nat
      /\ k'[j] = n + 1 /\ pc'[j] = "readBefore" /\ results' = results
      /\ pc[j] = "step" /\ emitStep(j, e)
  BY NumStepsAssumption DEF beginStep, HasNextStep, Goto, TypeOK
<1>2. Len(results[j]) = n
  BY <1>1 DEF JobInv, ResultsInv, CleanSoFar
<1>3. e \in Event
  BY <1>1 DEF StartedEvent, Event, Statuses
<1>4. /\ ~lost[j] /\ Len(log'[j]) = Len(log[j]) + 1 /\ log'[j][Len(log[j]) + 1] = e
      /\ \A p \in 1..Len(log[j]) : log'[j][p] = log[j][p]
  BY <1>1, <1>3, EmitAppends
<1>5. ToldResults(j) = n /\ ToldResults(j)' = n
  BY <1>1, <1>2 DEF ToldResults
<1>6. Told(j, n)
  BY <1>4, <1>5 DEF EventInv
<1> HIDE DEF n, e
<1>7. Len(log[j]) = n + n /\ n \in Nat /\ k[j] = n
  BY <1>1, <1>6 DEF Told, n
<1>8. ASSUME NEW s \in 1..(n + 1) PROVE log'[j][2 * s - 1] = StartedEvent(s)
  <2>1. CASE s = n + 1
    <3>1. 2 * s - 1 = Len(log[j]) + 1
      BY <1>7, <2>1
    <3>2. QED
      BY <1>4, <2>1, <3>1 DEF e
  <2>2. CASE s # n + 1
    <3>1. s \in 1..n /\ 2 * s - 1 \in 1..Len(log[j])
      BY <1>7, <2>2
    <3>2. QED
      BY <1>4, <1>6, <1>7, <3>1 DEF Told
  <2>3. QED
    BY <2>1, <2>2
<1>9. ASSUME NEW i \in 1..n
      PROVE  log'[j][FinishedAt(j, i)'] =
                [type |-> "step.finished", step |-> results'[j][i].step,
                 status |-> StepStatus(results'[j][i])]
  <2>1. FinishedAt(j, i) = 2 * i /\ FinishedAt(j, i)' = 2 * i
    BY <1>1, <1>7 DEF FinishedAt, n
  <2>2. 2 * i \in 1..Len(log[j])
    BY <1>7
  <2>3. log[j][2 * i] = [type |-> "step.finished", step |-> results[j][i].step,
                         status |-> StepStatus(results[j][i])]
    BY <1>6, <2>1 DEF Told
  <2>4. QED
    BY <1>1, <1>4, <2>1, <2>2, <2>3
<1>10. k'[j] = n + 1 /\ Len(log'[j]) = (n + 1) + n
  BY <1>1, <1>4, <1>7 DEF n
<1>11. ToldResults(j)' = n
  BY <1>5
<1>12. QED
  BY <1>8, <1>9, <1>10, <1>11 DEF Told

(***************************************************************************)
(* The event of the last result comes behind everything told so far: it is *)
(* the first one of its step, or the second one of the last step begun.    *)
(***************************************************************************)
LEMMA publishFinishedTold ==
    ASSUME TypeOK, NEW j \in Jobs, JobInv(j), EventInv(j), publishFinished(j)
    PROVE  EventInv(j)'
<1> SUFFICES ASSUME ~lost'[j] PROVE Told(j, ToldResults(j))'
  BY DEF EventInv
<1> DEFINE n == Len(results[j])
           e == FinishedEvent(j)
<1>1. /\ k[j] \in Nat /\ n \in Nat /\ results[j] \in Seq(StepResult)
      /\ pc[j] \in {"publish", "publishLast"}
      /\ pc'[j] \in {"readAfter", "teardown"}
      /\ k' = k /\ results' = results /\ emitStep(j, e)
  BY LenProperties, NumStepsAssumption DEF publishFinished, Goto, TypeOK
<1>2. n >= 1 /\ (n = k[j] \/ n = k[j] + 1)
  BY <1>1 DEF JobInv, ResultsInv, CleanSoFar, StepBroken
<1>3. e \in Event
  BY <1>2, FinishedEventTyped
<1>4. /\ ~lost[j] /\ Len(log'[j]) = Len(log[j]) + 1 /\ log'[j][Len(log[j]) + 1] = e
      /\ \A p \in 1..Len(log[j]) : log'[j][p] = log[j][p]
  BY <1>1, <1>3, EmitAppends
<1>5. ToldResults(j) = n - 1 /\ ToldResults(j)' = n
  BY <1>1 DEF ToldResults
<1>6. Told(j, n - 1)
  BY <1>4, <1>5 DEF EventInv
<1>7. e = [type |-> "step.finished", step |-> results[j][n].step,
           status |-> StepStatus(results[j][n])]
  BY DEF FinishedEvent
<1> HIDE DEF n, e
<1>8. Len(log[j]) = k[j] + (n - 1) /\ Len(log'[j]) = k[j] + n
  BY <1>1, <1>4, <1>6 DEF Told
<1>9. ASSUME NEW s \in 1..k[j] PROVE log'[j][2 * s - 1] = StartedEvent(s)
  <2>1. 2 * s - 1 \in 1..Len(log[j])
    BY <1>1, <1>2, <1>8
  <2>2. QED
    BY <1>4, <1>6, <2>1 DEF Told
<1>10. ASSUME NEW i \in 1..n
       PROVE  log'[j][FinishedAt(j, i)'] =
                 [type |-> "step.finished", step |-> results'[j][i].step,
                  status |-> StepStatus(results'[j][i])]
  <2>1. FinishedAt(j, i)' = FinishedAt(j, i)
    BY <1>1 DEF FinishedAt
  <2>2. CASE i = n
    <3>1. FinishedAt(j, i) = Len(log[j]) + 1
      BY <1>1, <1>2, <1>8, <2>2 DEF FinishedAt
    <3>2. QED
      BY <1>1, <1>4, <1>7, <2>1, <2>2, <3>1
  <2>3. CASE i # n
    <3>1. i \in 1..(n - 1)
      BY <1>1, <2>3
    <3>2. FinishedAt(j, i) \in 1..Len(log[j])
      BY <1>1, <1>2, <1>8, <3>1 DEF FinishedAt
    <3>3. log[j][FinishedAt(j, i)] =
             [type |-> "step.finished", step |-> results[j][i].step,
              status |-> StepStatus(results[j][i])]
      BY <1>6, <3>1 DEF Told
    <3>4. QED
      BY <1>1, <1>4, <2>1, <3>2, <3>3
  <2>4. QED
    BY <2>2, <2>3
<1>11. k'[j] = k[j] /\ ToldResults(j)' = n
  BY <1>1, <1>5
<1>12. QED
  BY <1>8, <1>9, <1>10, <1>11 DEF Told

(***************************************************************************)
(* Recording a result on the way to its publication tells nothing yet.     *)
(***************************************************************************)
LEMMA RecordTold ==
    ASSUME TypeOK, NEW j \in Jobs, EventInv(j),
           NEW exit \in ExitCodes, NEW err \in BOOLEAN, Record(j, exit, err),
           pc[j] \notin {"publish", "publishLast"},
           pc'[j] \in {"publish", "publishLast"},
           log'[j] = log[j], lost'[j] = lost[j], k'[j] = k[j]
    PROVE  EventInv(j)'
<1>1. results[j] \in Seq(StepResult) /\ Len(results[j]) \in Nat
  BY LenProperties DEF TypeOK
<1>2. Len(results'[j]) = Len(results[j]) + 1
      /\ \A i \in 1..Len(results[j]) : results'[j][i] = results[j][i]
  BY RecordAppends
<1>3. ToldResults(j) = Len(results[j]) /\ ToldResults(j)' = Len(results[j])
  BY <1>1, <1>2 DEF ToldResults
<1>4. QED
  BY <1>1, <1>2, <1>3, SilentStep

\* Neither the results nor the stream change, and no publication is near.
Tacit(j) ==
    /\ log'[j] = log[j] /\ lost'[j] = lost[j] /\ k'[j] = k[j]
    /\ results'[j] = results[j]
    /\ pc[j] \in {"publish", "publishLast"} <=> pc'[j] \in {"publish", "publishLast"}

LEMMA TacitTold ==
    ASSUME TypeOK, NEW j \in Jobs, EventInv(j), Tacit(j)
    PROVE  EventInv(j)'
<1>1. results[j] \in Seq(StepResult) /\ Len(results[j]) \in Nat
  BY LenProperties DEF TypeOK
<1>2. ToldResults(j)' = ToldResults(j) /\ ToldResults(j) <= Len(results[j])
  BY <1>1 DEF Tacit, ToldResults
<1>3. QED
  BY <1>1, <1>2, SilentStep DEF Tacit

(***************************************************************************)
(* What the job that acts does to the stream.                              *)
(***************************************************************************)
LEMMA JobTold ==
    ASSUME TypeOK, NEW j \in Jobs, JobInv(j), EventInv(j),
           Begin(j) \/ RunStep(j) \/ CommandActs(j)
    PROVE  EventInv(j)'
<1>1. CASE Begin(j) \/ CommandActs(j)
  <2>1. Tacit(j)
    BY <1>1 DEF Begin, CommandActs, ClosesOutput, ProcessExits, Goto, Tacit, TypeOK
  <2>2. QED
    BY <2>1, TacitTold
<1>2. CASE BeforeSteps(j)
  <2>1. /\ log' = log /\ lost' = lost /\ k' = k /\ results' = results
        /\ pc[j] \notin {"publish", "publishLast"}
    BY <1>2 DEF BeforeSteps, pullImage, createContainer, mountArchive,
       abandonContainer, startContainer, execSetup, setupReturns, initEnvFile,
       SetupFails
  <2>2. pc'[j] \notin {"publish", "publishLast"}
    BY <1>2 DEF BeforeSteps, pullImage, createContainer, mountArchive,
       abandonContainer, startContainer, execSetup, setupReturns, initEnvFile,
       SetupFails, Goto, TypeOK
  <2>3. QED
    BY <2>1, <2>2, TacitTold DEF Tacit
<1>3. CASE stepsDone(j) \/ execStep(j) \/ execReturns(j) \/ teardown(j)
  <2>1. Tacit(j)
    BY <1>3 DEF stepsDone, execStep, execReturns, teardown, ExecFails, Goto, Tacit, TypeOK
  <2>2. QED
    BY <2>1, TacitTold
<1>4. CASE readEnvBefore(j) \/ readEnvAfter(j)
  <2>1. \/ Tacit(j)
        \/ /\ Record(j, "none", TRUE)
           /\ pc[j] \notin {"publish", "publishLast"} /\ pc'[j] = "publishLast"
           /\ log' = log /\ lost' = lost /\ k' = k
    BY <1>4 DEF readEnvBefore, readEnvAfter, Goto, Tacit, TypeOK
  <2>2. QED
    BY <2>1, TacitTold, RecordTold DEF ExitCodes
<1>5. CASE classify(j)
  <2>1. /\ pc[j] = "classify" /\ pc'[j] \in {"publish", "publishLast"}
        /\ log' = log /\ lost' = lost /\ k' = k
    BY <1>5 DEF classify, Goto, TypeOK
  <2>2. \/ out[j] \in ExitCodes /\ Record(j, out[j], FALSE)
        \/ Record(j, "nonzero", FALSE)
        \/ Record(j, "none", TRUE)
    BY <1>5 DEF classify, ExecErred, ExitCodes
  <2>3. QED
    BY <2>1, <2>2, RecordTold DEF ExitCodes
<1>6. QED
  BY <1>1, <1>2, <1>3, <1>4, <1>5, beginStepTold, publishFinishedTold
  DEF RunStep, StepLoop

\* A job publishes for itself only.
LEMMA OthersQuiet ==
    ASSUME TypeOK, NEW i \in Jobs, NEW j \in Jobs, i # j,
           Begin(i) \/ RunStep(i) \/ CommandActs(i)
    PROVE  log'[j] = log[j] /\ lost'[j] = lost[j]
<1>1. CASE beginStep(i) \/ publishFinished(i)
  <2>1. \E e : emitStep(i, e)
    BY <1>1 DEF beginStep, publishFinished
  <2>2. QED
    BY <2>1 DEF emitStep, TypeOK
<1>2. CASE ~(beginStep(i) \/ publishFinished(i))
  BY <1>2 DEF Begin, RunStep, BeforeSteps, StepLoop, CommandActs, ClosesOutput,
     ProcessExits, pullImage,
     createContainer, mountArchive, abandonContainer, startContainer, execSetup,
     setupReturns, initEnvFile, stepsDone, readEnvBefore, execStep, execReturns,
     classify, readEnvAfter, teardown
<1>3. QED
  BY <1>1, <1>2

(***************************************************************************)
(* Every step keeps the stream in step with the results.                   *)
(***************************************************************************)
LEMMA EventStep ==
    IInv /\ (\A j \in Jobs : EventInv(j)) /\ [Next]_vars
       => (\A j \in Jobs : EventInv(j))'
<1> SUFFICES ASSUME IInv, \A j \in Jobs : EventInv(j), [Next]_vars,
                    NEW j \in Jobs
             PROVE  EventInv(j)'
  OBVIOUS
<1>1. TypeOK /\ JobInv(j) /\ EventInv(j)
  BY InvPerJob
<1>2. CASE Cancel \/ UNCHANGED vars
  <2>1. Tacit(j)
    BY <1>2 DEF Cancel, vars, Tacit
  <2>2. QED
    BY <1>1, <2>1, TacitTold
<1>3. ASSUME NEW i \in Jobs, i # j, Begin(i) \/ RunStep(i) \/ CommandActs(i)
      PROVE  EventInv(j)'
  <2>1. Untouched(j)
    BY <1>1, <1>3, OthersUntouched
  <2>2. log'[j] = log[j] /\ lost'[j] = lost[j]
    BY <1>1, <1>3, OthersQuiet
  <2>3. QED
    BY <1>1, <2>1, <2>2, TacitTold DEF Untouched, Tacit
<1>4. CASE Begin(j) \/ RunStep(j) \/ CommandActs(j)
  BY <1>1, <1>4, JobTold
<1>5. QED
  BY <1>2, <1>3, <1>4 DEF Next, Done

-----------------------------------------------------------------------------
(* The theorems.                                                           *)

(***************************************************************************)
(* Every reachable state satisfies the invariant.                          *)
(***************************************************************************)
THEOREM Invariant == Spec => []IInv
BY InitInv, StepInv, PTL DEF Spec

(***************************************************************************)
(* Type correctness, for any number of jobs, steps and setup commands.     *)
(***************************************************************************)
THEOREM TypeCorrect == Spec => []TypeOK
<1>1. IInv => TypeOK
  BY DEF IInv
<1>2. QED
  BY <1>1, Invariant, PTL

(***************************************************************************)
(* A command that keeps its output open is never overtaken: while it runs  *)
(* it is the last one launched, and the runner waits for it or gives the   *)
(* job up.  Only after a command that closed its output does the next one  *)
(* start beside it (docker.go:265-276, 370-381).                           *)
(***************************************************************************)
THEOREM NoOverlapHolds == Spec => []NoOverlap
<1>1. IInv => NoOverlap
  BY DEF IInv
<1>2. QED
  BY <1>1, Invariant, PTL

(***************************************************************************)
(* The verdict of a job is the truth about its processes, except that one  *)
(* which closed its output and ran on counts as exited with code 0         *)
(* (docker.go:256-277, 370-381).                                           *)
(***************************************************************************)
THEOREM VerdictHonestHolds == Spec => []VerdictHonest
BY InvVerdictHonest, Invariant, PTL

(***************************************************************************)
(* A nil error means exactly that every step ran, in order, with the       *)
(* result of its process, or 0 where that had closed its output            *)
(* (docker.go:113-120, 370-381).                                           *)
(***************************************************************************)
THEOREM NilErrorHolds == Spec => []NilErrorMeansEveryStepRan
BY InvNilError, Invariant, PTL

(***************************************************************************)
(* With a healthy daemon only an unfinished creation, cancelled, leaves a  *)
(* container behind: the deferred teardown and the clean-up after a        *)
(* failed archive or copy reach all the others (docker.go:86-94, 164-170,  *)
(* 386-398).                                                               *)
(***************************************************************************)
THEOREM LeaksHolds == Spec => []OnlyUnfinishedCreateLeaks
BY InvLeaks, Invariant, PTL

(***************************************************************************)
(* What a returned job has told is all of its results                      *)
(* (docker.go:212-294).                                                    *)
(***************************************************************************)
THEOREM EventsMatchResultsHolds == Spec => []EventsMatchResults
<1>1. Init => \A j \in Jobs : EventInv(j)
  <2> SUFFICES ASSUME Init, NEW j \in Jobs PROVE EventInv(j)
    OBVIOUS
  <2>1. log[j] = <<>> /\ results[j] = <<>> /\ k[j] = 0 /\ pc[j] = "idle"
    BY DEF Init
  <2>2. QED
    BY <2>1 DEF EventInv, Told, ToldResults
<1>2. (\A j \in Jobs : EventInv(j)) => EventsMatchResults
  BY DEF EventInv, ToldResults, EventsMatchResults, Returned
<1>3. QED
  BY <1>1, <1>2, EventStep, Invariant, PTL DEF Spec
=============================================================================
