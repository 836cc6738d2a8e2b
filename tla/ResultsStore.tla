---------------------------- MODULE ResultsStore ----------------------------
(***************************************************************************)
(* internal/results: the tables of runs, jobs and steps, and Record, which *)
(* applies one life-cycle event to them.                                   *)
(*                                                                         *)
(* A table maps the key its UNIQUE constraint names (00001_init.sql) to    *)
(* the row's status, or to None where there is no row.  The remaining      *)
(* columns are written together with the status and are left out.          *)
(***************************************************************************)
CONSTANTS
    Runs,   \* run ids
    Jobs,   \* job names; runs of one pipeline share them
    Steps,  \* step names; jobs may share them
    None    \* no row, and an envelope's missing field

ASSUME StoreAssumption == None \notin Runs \cup Jobs \cup Steps

VARIABLES runs, jobs, steps

tables == <<runs, jobs, steps>>

JobKeys == Runs \X Jobs
StepKeys == Runs \X Jobs \X Steps

StoreInit ==
    /\ runs = [r \in Runs |-> None]
    /\ jobs = [k \in JobKeys |-> None]
    /\ steps = [k \in StepKeys |-> None]

-----------------------------------------------------------------------------
(* The SQL statements.                                                     *)

Has(table, key) == key \in DOMAIN table /\ table[key] # None

\* Seeded fault: INSERT OR REPLACE.
InsertPending_OrReplace(table, key) == [table EXCEPT ![key] = "pending"]

\* Seeded fault: what has started is running.
InsertPending_Running(table, key) ==
    IF Has(table, key) THEN table ELSE [table EXCEPT ![key] = "running"]

\* INSERT ... ON CONFLICT DO NOTHING
InsertPending(table, key) ==
    IF Has(table, key) THEN table ELSE [table EXCEPT ![key] = "pending"]

\* Seeded fault: only pending rows are updated.
Update_OnlyPending(table, key, status) ==
    IF Has(table, key) /\ table[key] = "pending" THEN [table EXCEPT ![key] = status] ELSE table

\* UPDATE ... SET status WHERE key: no error when there is no such row.
Update(table, key, status) ==
    IF Has(table, key) THEN [table EXCEPT ![key] = status] ELSE table

\* Seeded fault: the job is looked up by its name alone.
jobKey_AnyRun(e) ==
    IF \E k \in JobKeys : Has(jobs, k) /\ k[2] = e.job
    THEN CHOOSE k \in JobKeys : Has(jobs, k) /\ k[2] = e.job
    ELSE <<e.run, e.job>>

\* The key runRow and jobRow lead to.
jobKey(e) == <<e.run, e.job>>

stepKey(e) == <<jobKey(e)[1], jobKey(e)[2], e.step>>

\* runRow and jobRow find a row.
runRow(e) == Has(runs, e.run)
jobRow(e) == runRow(e) /\ Has(jobs, jobKey(e))

-----------------------------------------------------------------------------
(* The handlers; ok says whether they return nil.                          *)

recordPipelineStarted(e, ok) ==
    /\ e.type = "pipeline.started"
    /\ ok = (e.run # None)
    /\ runs' = IF ok THEN InsertPending(runs, e.run) ELSE runs
    /\ UNCHANGED <<jobs, steps>>

recordPipelineFinished(e, ok) ==
    /\ e.type = "pipeline.finished"
    /\ ok
    /\ runs' = Update(runs, e.run, e.status)
    /\ UNCHANGED <<jobs, steps>>

recordJobStarted(e, ok) ==
    /\ e.type = "job.started"
    /\ ok = runRow(e)
    /\ jobs' = IF ok THEN InsertPending(jobs, jobKey(e)) ELSE jobs
    /\ UNCHANGED <<runs, steps>>

recordJobFinished(e, ok) ==
    /\ e.type = "job.finished"
    /\ ok = runRow(e)
    /\ jobs' = IF ok THEN Update(jobs, jobKey(e), e.status) ELSE jobs
    /\ UNCHANGED <<runs, steps>>

recordStepStarted(e, ok) ==
    /\ e.type = "step.started"
    /\ ok = jobRow(e)
    /\ steps' = IF ok THEN InsertPending(steps, stepKey(e)) ELSE steps
    /\ UNCHANGED <<runs, jobs>>

\* exit_code and duration_ms must be numbers.
recordStepFinished(e, ok) ==
    /\ e.type = "step.finished"
    /\ ok = (jobRow(e) /\ e.numbers)
    /\ steps' = IF ok THEN Update(steps, stepKey(e), e.status) ELSE steps
    /\ UNCHANGED <<runs, jobs>>

EventTypes == {"pipeline.started", "pipeline.finished", "job.started",
               "job.finished", "step.started", "step.finished"}

\* Events of other types are accepted and ignored.
Record(e, ok) ==
    \/ recordPipelineStarted(e, ok) \/ recordPipelineFinished(e, ok)
    \/ recordJobStarted(e, ok) \/ recordJobFinished(e, ok)
    \/ recordStepStarted(e, ok) \/ recordStepFinished(e, ok)
    \/ e.type \notin EventTypes /\ ok /\ UNCHANGED tables
=============================================================================
