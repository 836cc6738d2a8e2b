----------------------------- MODULE StagedRun -----------------------------
(***************************************************************************)
(* What a pipeline run promises, whoever executes it: the stages run one   *)
(* after the other, the jobs of a stage in any order or at once; a stage   *)
(* with a Failed or Errored job is the last one; every job begun runs to   *)
(* its own verdict; and the run's verdict is the worst of them.            *)
(* Orchestrator implements it.                                             *)
(***************************************************************************)
EXTENDS Pipeline

VARIABLES
    begun,      \* the jobs that have begun
    verdict,    \* each job's verdict, "none" before it has one
    runVerdict  \* the run's verdict, "none" before it has ended

vars == <<begun, verdict, runVerdict>>

Init ==
    /\ begun = {}
    /\ verdict = [j \in Jobs |-> "none"]
    /\ runVerdict = "none"

StageDone(s) == \A j \in JobsOf[s] : verdict[j] # "none"
StageBad(s) == \E j \in JobsOf[s] : EndsTheRun(verdict[j])

\* Stage s may run: every earlier one is over, and none of them was bad.
StageOpen(s) == \A t \in 1..(s - 1) : StageDone(t) /\ ~StageBad(t)

BeginJob ==
    /\ runVerdict = "none"
    /\ \E s \in 1..NumStages : StageOpen(s) /\
          \E j \in JobsOf[s] \ begun : begun' = begun \cup {j}
    /\ UNCHANGED <<verdict, runVerdict>>

EndJob ==
    /\ \E j \in begun, v \in Verdicts :
          verdict[j] = "none" /\ verdict' = [verdict EXCEPT ![j] = v]
    /\ UNCHANGED <<begun, runVerdict>>

EndRun ==
    /\ runVerdict = "none"
    /\ \E s \in 1..NumStages :
          /\ StageOpen(s) /\ StageDone(s)
          /\ s = NumStages \/ StageBad(s)
    /\ runVerdict' = WorstOf({verdict[j] : j \in begun})
    /\ UNCHANGED <<begun, verdict>>

Next == BeginJob \/ EndJob \/ EndRun

\* A job may take forever; the run itself does not dawdle.
Spec == Init /\ [][Next]_vars /\ WF_vars(BeginJob) /\ WF_vars(EndRun)
=============================================================================
