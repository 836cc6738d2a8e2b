--------------------------- MODULE ServiceRowsProofs ---------------------------
(***************************************************************************)
(* What the tables hold of the runs whose events the recorder took without *)
(* trouble, for any number of runs, jobs and steps and any stream: a row   *)
(* is missing only where the event that creates it ran into trouble, and a *)
(* row none of whose events did holds the last of them.                    *)
(*                                                                         *)
(* The argument: the start of a run's or a job's row is published before   *)
(* all that needs the row; the group closes an entry only when it is       *)
(* settled; so when an entry reaches Record, each older entry that ran     *)
(* into no trouble has been recorded, and no younger one has.              *)
(***************************************************************************)
EXTENDS ServiceProofs

-----------------------------------------------------------------------------
(* The invariant.                                                          *)

\* The group is done only with what is settled, or trimmed (AtLeastOnce).
ClosedInv == Closed \subseteq Settled \cup 1..trimmed

\* What is pending was delivered.
AttemptedInv == \A n \in pending : attempts[n] >= 1

\* The events a run publishes.
Shaped ==
    {e \in Events :
        /\ Level(e) = "pipeline" => e.job = None /\ e.step = None
        /\ Level(e) = "job" => e.job \in Jobs /\ e.step = None
        /\ Level(e) = "step" => e.job \in Jobs /\ e.step \in Steps}

\* The run and the job an event is about have published their starts.
Begun(e) ==
    /\ rpc[e.run] # "new"
    /\ e.job # None => Job(e.run, e.job) # None

OwnInv ==
    \A n \in 1..added : stream[n] \notin ForeignEvents =>
        n \notin Malformed /\ stream[n] \in Shaped /\ Begun(stream[n])

\* The start of a run or a job comes before all that needs its row.  A step's
\* row may be started again, by a step of the same name.
OrderInv ==
    \A n \in 1..added : stream[n] \notin ForeignEvents =>
        \A level \in Needs(stream[n]) \ {"step"} : \A m \in Starts(level, stream[n]) : m < n

\* What is handled at its first delivery is handled in the stream's order.
BatchOrder ==
    /\ \A m \in batch[recorder] : Smooth(m) /\ m \notin Malformed => ~claiming[recorder]
    /\ ~claiming[recorder] =>
          \A m \in batch[recorder] : \A d \in Entries : m < d => successes[d] = 0

\* A start that was handled has its row.
RowInv ==
    \A m \in 1..added :
        stream[m] \notin ForeignEvents /\ IsStart(stream[m]) /\ successes[m] > 0 =>
            Row(Level(stream[m]), stream[m]) # None

\* Record accepts nothing of another producer that is about a run's rows.
ForeignInv ==
    \A m \in 1..added :
        stream[m] \in ForeignEvents /\ stream[m].run \in Runs
        /\ Level(stream[m]) \in {"pipeline", "job", "step"} => successes[m] = 0

\* The starts and the ends of the row of e that were handled.
HandledStarts(e) == {m \in About(Level(e), e) : IsStart(stream[m]) /\ successes[m] > 0}
HandledEnds(e) == {m \in About(Level(e), e) : IsEnd(stream[m]) /\ successes[m] > 0}

\* The ends that found the row.
LateEnds(e) == {m \in HandledEnds(e) : \E s \in HandledStarts(e) : s < m}

\* What the row of e should hold.
Expected(e) ==
    IF HandledStarts(e) = {} THEN None
    ELSE IF LateEnds(e) = {} THEN "pending" ELSE stream[Last(LateEnds(e))].status

\* So far, a row whose entries ran into no trouble holds what they say.
ExactInv ==
    \A e \in Shaped :
        (\A m \in About(Level(e), e) : Smooth(m)) => Row(Level(e), e) = Expected(e)

RInv ==
    /\ SInv /\ ClosedInv /\ AttemptedInv /\ OwnInv /\ OrderInv
    /\ BatchOrder /\ ForeignInv /\ RowInv /\ ExactInv

-----------------------------------------------------------------------------
(* Levels, needs and keys.                                                 *)

\* The types of each level.
LEMMA LevelForm ==
    ASSUME NEW e
    PROVE  /\ Level(e) = "pipeline" <=> e.type \in {"pipeline.started", "pipeline.finished"}
           /\ Level(e) = "job" <=> e.type \in {"job.started", "job.finished"}
           /\ Level(e) = "step" <=> e.type \in {"step.started", "step.finished"}
           /\ e.type \in EventTypes => Level(e) \in {"pipeline", "job", "step"}
           /\ Level(e) \in {"pipeline", "job", "step"} => IsStart(e) \/ IsEnd(e)
           /\ ~(IsStart(e) /\ IsEnd(e))
BY DEF Level, EventTypes, IsStart, IsEnd, Ends

\* What an event needs.
LEMMA NeedsForm ==
    ASSUME NEW e, NEW level \in Needs(e)
    PROVE  /\ level \in {"pipeline", "job", "step"} \/ (level = "none" /\ Level(e) = "none")
           /\ level = Level(e) => IsEnd(e)
           /\ level = "job" => Level(e) \in {"job", "step"}
           /\ level = "step" => Level(e) = "step"
<1>1. Level(e) \in {"pipeline", "job", "step", "none"}
  BY DEF Level
<1>2. Parents(e) = IF Level(e) = "job" THEN {"pipeline"}
                   ELSE IF Level(e) = "step" THEN {"pipeline", "job"} ELSE {}
  BY DEF Parents
<1>3. level \in Parents(e) \/ (IsEnd(e) /\ level = Level(e))
  BY DEF Needs
<1>4. QED
  BY <1>1, <1>2, <1>3

\* The rows.
LEMMA RowForm ==
    ASSUME NEW e
    PROVE  /\ Row("pipeline", e) = runs[e.run]
           /\ Row("job", e) = jobs[<<e.run, e.job>>]
           /\ Row("step", e) = steps[<<e.run, e.job, e.step>>]
BY DEF Row

\* The row of an event, before and after a step.
LEMMA RowAt ==
    ASSUME NEW e
    PROVE  /\ Level(e) = "pipeline" =>
                 Row(Level(e), e) = runs[e.run] /\ Row(Level(e), e)' = runs'[e.run]
           /\ Level(e) = "job" =>
                 Row(Level(e), e) = jobs[<<e.run, e.job>>] /\ Row(Level(e), e)' = jobs'[<<e.run, e.job>>]
           /\ Level(e) = "step" =>
                 /\ Row(Level(e), e) = steps[<<e.run, e.job, e.step>>]
                 /\ Row(Level(e), e)' = steps'[<<e.run, e.job, e.step>>]
<1>1. PICK level : level = Level(e)
  OBVIOUS
<1>2. Row(Level(e), e) = Row(level, e) /\ Row(Level(e), e)' = Row(level, e)'
  BY <1>1
<1>3. QED
  BY <1>1, <1>2 DEF Row

-----------------------------------------------------------------------------
(* What the runs publish.                                                  *)

\* What has begun stays so.
BegunLasts ==
    /\ \A r \in Runs : rpc[r] # "new" => rpc'[r] # "new"
    /\ \A r \in Runs, j \in Jobs : Job(r, j) # None => Job(r, j)' # None

\* Nothing that has begun is undone where no job publishes.
LEMMA SameJobsBegun ==
    ASSUME last' = last, \A r \in Runs : rpc[r] # "new" => rpc'[r] # "new"
    PROVE  BegunLasts
BY DEF BegunLasts, Job

\* A job's next event leaves what has begun.
LEMMA JobStepBegun ==
    ASSUME RunTypeOK, LastInv, NEW r \in Runs, NEW j \in Jobs, NEW e \in Events,
           rpc' = rpc, last' = [last EXCEPT ![<<r, j>>] = e],
           ~Over(r, j), Fits(r, j, e)
    PROVE  BegunLasts
<1>1. /\ Job(r, j)' = e
      /\ \A q \in Runs, i \in Jobs : q # r \/ i # j => Job(q, i)' = Job(q, i)
  BY LastAt
<1>2. e # None
  BY ServiceAssumption
<1>3. ASSUME NEW q \in Runs, NEW i \in Jobs, Job(q, i) # None PROVE Job(q, i)' # None
  BY <1>1, <1>2, <1>3
<1>4. QED
  BY <1>3 DEF BegunLasts

\* An event of this process is put on the stream, or none is.
OwnPuts(e) ==
    /\ UNCHANGED <<tables, historyVars>>
    /\ UNCHANGED <<stream, added>> \/ (added + 1 \notin Malformed /\ Puts(e))

\* What a run publishes is shaped, has begun, and what it starts had not.
Publishes ==
    \E e \in Shaped : e \notin ForeignEvents /\ OwnPuts(e) /\ Fresh(e) /\ Begun(e)'

LEMMA EmitPuts ==
    ASSUME NEW e, emit(e)
    PROVE  OwnPuts(e)
BY DEF emit, Land, Lose, OwnPuts, Puts, Publish, stamp, streamVars

\* An event with one of the types and fields of a run is not another producer's.
LEMMA NotForeign ==
    ASSUME NEW e, e.type \in EventTypes, e.run \in Runs, e.numbers
    PROVE  e \notin ForeignEvents
BY ForeignAssumption, ServiceAssumption DEF EventTypes, Ends

\* A job's events.
LEMMA JobPublishes ==
    ASSUME RunTypeOK, LastInv, NEW r \in Runs, NEW j \in Jobs, JobStep(r, j)
    PROVE  BegunLasts /\ Publishes
<1>1. PICK e \in Events :
          /\ emit(e) /\ rpc[r] = "running" /\ rpc' = rpc
          /\ last' = [last EXCEPT ![<<r, j>>] = e]
          /\ ~Over(r, j) /\ Fits(r, j, e) /\ Logs(r, j, e) /\ Fresh(e)
  BY JobGoesOn
<1>2. BegunLasts
  BY <1>1, JobStepBegun
<1>3. e.run = r /\ e.job = j /\ e.numbers /\ e.type \in EventTypes
  BY <1>1 DEF Fits, EventTypes
<1>4. e \in Shaped
  <2>1. Level(e) # "pipeline"
    BY <1>1, LevelForm DEF Fits
  <2>2. Level(e) = "job" => e.step = None
    BY <1>1, LevelForm DEF Fits
  <2>3. Level(e) = "step" => e.step \in Steps
    BY <1>1, LevelForm DEF Fits
  <2>4. QED
    BY <1>3, <2>1, <2>2, <2>3 DEF Shaped
<1>5. e \notin ForeignEvents
  BY <1>3, NotForeign
<1>6. Begun(e)'
  <2>1. Job(r, j)' = e /\ e # None
    <3>1. Job(r, j)' = e
      BY <1>1, LastAt
    <3>2. QED
      BY <3>1, ServiceAssumption
  <2>2. QED
    BY <1>1, <1>3, <2>1 DEF Begun
<1>7. QED
  BY <1>1, <1>2, <1>4, <1>5, <1>6, EmitPuts DEF Publishes

\* A run's own events.
LEMMA RunPublishes ==
    ASSUME RunTypeOK, NEW r \in Runs, PipelineStarted(r) \/ PipelineFinished(r),
           LastInv
    PROVE  BegunLasts /\ Publishes
<1>1. /\ last' = last /\ rpc'[r] \in {"running", "over"}
      /\ \A q \in Runs : rpc[q] # "new" => rpc'[q] # "new"
  BY DEF PipelineStarted, PipelineFinished, RunTypeOK, jobVars
<1>2. BegunLasts
  BY <1>1, SameJobsBegun
<1>3. PICK e : /\ emit(e)
               /\ \/ e = Event("pipeline.started", r, None, None, None) /\ rpc[r] = "new"
                  \/ /\ e = Event("pipeline.finished", r, None, None, RunVerdict(r))
                     /\ RunVerdict(r) \in Ended
  <2>1. CASE PipelineStarted(r)
    BY <2>1 DEF PipelineStarted
  <2>2. CASE PipelineFinished(r)
    BY <2>2, VerdictEnded DEF PipelineFinished
  <2>3. QED
    BY <2>1, <2>2
<1>4. /\ e \in Events /\ e.run = r /\ e.job = None /\ e.step = None /\ e.numbers
      /\ e.type \in {"pipeline.started", "pipeline.finished"}
      /\ e.type = "pipeline.started" => rpc[r] = "new"
  <2>1. {"pipeline.started", "pipeline.finished"} \subseteq EventTypes
    BY DEF EventTypes
  <2>2. CASE e = Event("pipeline.started", r, None, None, None) /\ rpc[r] = "new"
    BY <2>1, <2>2, EventIn
  <2>3. CASE e = Event("pipeline.finished", r, None, None, RunVerdict(r)) /\ RunVerdict(r) \in Ended
    BY <2>1, <2>3, EventIn
  <2>4. QED
    BY <1>3, <2>2, <2>3
<1>5. e \in Shaped
  BY <1>4, LevelForm DEF Shaped
<1>6. e \notin ForeignEvents
  BY <1>4, NotForeign DEF EventTypes
<1>7. Fresh(e) /\ Begun(e)'
  BY <1>1, <1>4 DEF Fresh, Begun
<1>8. QED
  BY <1>2, <1>3, <1>5, <1>6, <1>7, EmitPuts DEF Publishes

\* Another producer puts an event on the stream.
Intrudes ==
    \E e \in ForeignEvents :
        UNCHANGED <<tables, historyVars>> /\ added' = added + 1 /\ stream' = Append(stream, e)

\* Nothing is published and nothing recorded.
Rests == UNCHANGED <<stream, added, tables, historyVars>>

\* The ways a step of the process shows in the stream, the tables and the outcomes.
LEMMA RowWays ==
    ASSUME SInv, [ServiceNext]_allVars
    PROVE  BegunLasts /\ (Rests \/ Publishes \/ Intrudes \/ Records)
<1>0. RunTypeOK /\ LastInv
  BY DEF SInv
<1>1. UNCHANGED runVars => BegunLasts
  BY SameJobsBegun DEF runVars, jobVars
<1>2. ASSUME NEW r \in Runs, RunSteps(r) PROVE BegunLasts /\ (Rests \/ Publishes)
  <2>1. CASE Cancel(r)
    <3>1. BegunLasts
      BY <2>1, SameJobsBegun DEF Cancel, jobVars
    <3>2. QED
      BY <2>1, <3>1 DEF Cancel, Rests, streamVars
  <2>2. CASE PipelineStarted(r) \/ PipelineFinished(r)
    BY <1>0, <2>2, RunPublishes
  <2>3. ASSUME NEW j \in Jobs, JobStep(r, j) PROVE BegunLasts /\ Publishes
    BY <1>0, <2>3, JobPublishes
  <2>4. QED
    BY <1>2, <2>1, <2>2, <2>3 DEF RunSteps, JobStep
<1>3. CASE Exit \/ ProcessCrash
  <2>1. /\ last' = last /\ rpc' = [r \in Runs |-> IF rpc[r] = "running" THEN "over" ELSE rpc[r]]
        /\ Rests
    BY <1>3 DEF Exit, ProcessCrash, ProcessEnds, Die, Rests, streamVars, jobVars
  <2>2. QED
    BY <2>1, SameJobsBegun
<1>4. CASE UNCHANGED allVars
  BY <1>1, <1>4 DEF allVars, vars, streamVars, Rests
<1>5. ASSUME NEW e \in ForeignEvents, Foreign(e) PROVE BegunLasts /\ Intrudes
  BY <1>1, <1>5 DEF Foreign, Intrudes
<1>6. CASE RecorderStep
  <2>1. UNCHANGED <<stream, added, runVars>>
    BY <1>6 DEF RecorderStep, consume, record, handlerReturns, ensureGroup, loopHead, readNew,
                backoff, recoverStuck, recoverOne, parseFails, acknowledge, deadLetter,
                deadLetterEntry, streamVars
  <2>2. CASE consume
    <3>1. Rests
      BY <2>1, <2>2 DEF consume, ensureGroup, loopHead, readNew, backoff, recoverStuck,
                        recoverOne, parseFails, acknowledge, deadLetter, deadLetterEntry, Rests
    <3>2. QED
      BY <1>1, <2>1, <3>1
  <2>3. CASE record
    BY <1>1, <2>1, <2>3 DEF Records
  <2>4. QED
    BY <1>6, <2>2, <2>3 DEF RecorderStep
<1>7. ASSUME NEW e \in Entries, Idle(e) PROVE BegunLasts /\ Rests
  BY <1>1, <1>7 DEF Idle, Rests, streamVars
<1>8. CASE Notify \/ Terminate \/ Start
  BY <1>1, <1>8 DEF Notify, Terminate, Start, Restart, Rests, vars, streamVars
<1>9. QED
  BY <1>2, <1>3, <1>4, <1>5, <1>6, <1>7, <1>8 DEF ServiceNext
-----------------------------------------------------------------------------
(* The recorder's deliveries.                                              *)

\* What the work on the current entry may change.
LEMMA WorkForm ==
    ASSUME TypeOK, NEW i \in Instances, batch[i] # {}, OnCurrent(i)
    PROVE  /\ batch'[i] \subseteq batch[i] /\ claiming' = claiming
           /\ interrupted \subseteq interrupted' /\ pending' \subseteq pending
           /\ UNCHANGED <<streamVars, attempts>>
           /\ \A d \in Entries : failures[d] <= failures'[d]
           /\ \A d \in Entries : successes'[d] = successes[d]
                                 \/ (d = Current(i) /\ successes'[d] > 0)
<1>1. ASSUME NextEntry(i) PROVE batch'[i] \subseteq batch[i] /\ claiming' = claiming
  BY <1>1, NextEntryForm DEF TypeOK
<1>2. ASSUME UNCHANGED localVars PROVE batch'[i] \subseteq batch[i] /\ claiming' = claiming
  BY <1>2 DEF localVars
<1>3. \A d \in Entries : failures[d] <= failures[d]
  BY DEF TypeOK
<1>4. CASE recoverOne(i) \/ parseFails(i) \/ deadLetter(i) \/ deadLetterEntry(i)
  <2>1. UNCHANGED <<streamVars, groupVars, historyVars>> /\ interrupted \subseteq interrupted'
    BY <1>4 DEF recoverOne, parseFails, deadLetter, deadLetterEntry, Interrupt
  <2>2. NextEntry(i) \/ UNCHANGED localVars
    BY <1>4 DEF recoverOne, parseFails, deadLetter, deadLetterEntry, CopyFailed
  <2>3. QED
    BY <1>1, <1>2, <1>3, <2>1, <2>2 DEF groupVars, historyVars
<1>5. CASE acknowledge(i)
  <2>1. UNCHANGED <<streamVars, historyVars>> /\ interrupted \subseteq interrupted' /\ NextEntry(i)
    BY <1>5 DEF acknowledge, Interrupt
  <2>2. pending' \subseteq pending /\ attempts' = attempts
    BY <1>5 DEF acknowledge, XAck, groupVars
  <2>3. QED
    BY <1>1, <1>3, <2>1, <2>2 DEF historyVars
<1>6. ASSUME NEW ok \in BOOLEAN, handlerReturns(i, ok)
      PROVE  /\ batch'[i] \subseteq batch[i] /\ claiming' = claiming
             /\ UNCHANGED <<interrupted, streamVars, groupVars>>
             /\ \A d \in Entries : failures[d] <= failures'[d]
             /\ \A d \in Entries : successes'[d] = successes[d]
                                   \/ (d = Current(i) /\ successes'[d] > 0)
  <2> DEFINE c == Current(i)
  <2>1. UNCHANGED <<interrupted, streamVars, groupVars>>
    BY <1>6 DEF handlerReturns
  <2>2. NextEntry(i) \/ UNCHANGED localVars
    BY <1>6 DEF handlerReturns, Succeed, HandlerFailed
  <2>3. \/ /\ successes' = [successes EXCEPT ![c] = CountUp(successes[c], 2)] /\ failures' = failures
        \/ /\ failures' = [failures EXCEPT ![c] = CountUp(failures[c], MaxAttempts + 1)]
           /\ successes' = successes
    BY <1>6 DEF handlerReturns
  <2>4. c \in Entries /\ successes \in [Entries -> 0..2] /\ failures \in [Entries -> 0..(MaxAttempts + 1)]
    BY CurrentIn DEF TypeOK
  <2> HIDE DEF c
  <2>5. \A d \in Entries : failures[d] <= failures'[d]
    BY <2>3, <2>4, ConsumerAssumption DEF CountUp
  <2>6. \A d \in Entries : successes'[d] = successes[d] \/ (d = c /\ successes'[d] > 0)
    BY <2>3, <2>4 DEF CountUp
  <2>7. QED
    BY <1>1, <1>2, <2>1, <2>2, <2>5, <2>6 DEF c
<1>7. QED
  BY <1>4, <1>5, <1>6 DEF OnCurrent, groupVars

\* A read or a claim counts a delivery of what becomes pending.
LEMMA DeliveryForm ==
    ASSUME TypeOK, NEW i \in Instances, readNew(i) \/ recoverStuck(i)
    PROVE  /\ UNCHANGED <<streamVars, historyVars>> /\ interrupted \subseteq interrupted'
           /\ \A m \in Entries : attempts[m] <= attempts'[m]
           /\ \A m \in pending' : m \in pending \/ attempts'[m] >= 1
<1> USE Numbers
<1>1. \A m \in Entries : attempts[m] \in 0..(MaxAttempts + 1)
  BY DEF TypeOK
<1>2. ASSUME NEW S \in SUBSET Entries, Redeliver(S)
      PROVE  /\ \A m \in Entries : attempts[m] <= attempts'[m]
             /\ \A m \in S : attempts'[m] >= 1
  <2>1. /\ \A m \in Entries \ S : attempts'[m] = attempts[m]
        /\ \A m \in S : attempts'[m] = IF attempts[m] <= MaxAttempts THEN attempts[m] + 1
                                       ELSE MaxAttempts + 1
    BY <1>2, RedeliverForm
  <2>2. QED
    BY <1>1, <2>1, ConsumerAssumption
<1>3. CASE readNew(i)
  <2> DEFINE new == Oldest(Unread, ReadCount)
  <2>1. /\ UNCHANGED <<streamVars, historyVars>> /\ interrupted \subseteq interrupted'
        /\ XReadGroup(new) \/ UNCHANGED groupVars
    BY <1>3 DEF readNew, Interrupt
  <2>2. new \in SUBSET Entries
    BY DEF Oldest, Unread
  <2> HIDE DEF new
  <2>3. XReadGroup(new) => pending' = pending \cup new /\ Redeliver(new)
    BY DEF XReadGroup
  <2>4. QED
    BY <1>1, <1>2, <2>1, <2>2, <2>3 DEF groupVars
<1>4. CASE recoverStuck(i)
  <2>1. /\ UNCHANGED <<streamVars, historyVars>> /\ interrupted \subseteq interrupted'
        /\ XAutoClaim(i) \/ UNCHANGED groupVars
    BY <1>4 DEF recoverStuck, Interrupt
  <2>2. Page(i) \in SUBSET Entries
    BY PageForm
  <2>3. XAutoClaim(i) => pending' \subseteq pending /\ Redeliver(Page(i))
    BY DEF XAutoClaim
  <2>4. QED
    BY <1>1, <1>2, <2>1, <2>2, <2>3 DEF groupVars
<1>5. QED
  BY <1>3, <1>4

\* Trouble is not forgotten, and neither the stream nor its trimming goes back.
LEMMA StepGrows ==
    ASSUME IInv, Step
    PROVE  /\ interrupted \subseteq interrupted' /\ trimmed <= trimmed' /\ trimmed' \in Nat
           /\ \A d \in Entries : failures[d] <= failures'[d]
<1>0. TypeOK /\ trimmed \in Nat /\ \A d \in Entries : failures[d] <= failures[d]
  BY Numbers DEF IInv, TypeOK
<1>1. CASE Grows \/ Idles \/ Signals
  BY <1>0, <1>1, Numbers DEF Grows, Idles, Signals, streamVars, historyVars
<1>2. ASSUME NEW i \in Instances, Moves(i) \/ Die(i)
      PROVE  interrupted \subseteq interrupted' /\ UNCHANGED <<streamVars, historyVars>>
  BY <1>2 DEF Moves, ensureGroup, loopHead, backoff, Restart, Die, Interrupt
<1>3. ASSUME NEW i \in Instances, readNew(i) \/ recoverStuck(i)
      PROVE  interrupted \subseteq interrupted' /\ UNCHANGED <<streamVars, historyVars>>
  BY <1>0, <1>3, DeliveryForm
<1>4. ASSUME NEW i \in Instances, OnCurrent(i)
      PROVE  /\ interrupted \subseteq interrupted' /\ UNCHANGED streamVars
             /\ \A d \in Entries : failures[d] <= failures'[d]
  <2>1. batch[i] # {}
    BY <1>4 DEF OnCurrent, recoverOne, parseFails, handlerReturns, acknowledge, deadLetter,
                deadLetterEntry, IInv, BatchInv, Working
  <2>2. QED
    BY <1>0, <1>4, <2>1, WorkForm
<1>5. QED
  BY <1>0, <1>1, <1>2, <1>3, <1>4 DEF Step, streamVars, historyVars

\* Trouble stays: what is smooth after a step was so before.
LEMMA SmoothBefore ==
    ASSUME IInv, Step, NEW n \in Entries, Smooth(n)'
    PROVE  Smooth(n)
<1>1. n \notin interrupted' /\ failures'[n] = 0
  BY DEF Smooth
<1>2. n \notin interrupted /\ failures[n] <= 0
  BY <1>1, StepGrows
<1>3. failures[n] \in Nat
  BY ConsumerAssumption DEF IInv, TypeOK
<1>4. QED
  BY <1>2, <1>3 DEF Smooth

\* The group still closes only what is settled.
LEMMA ClosedKeeps ==
    ASSUME IInv, ClosedInv, Step
    PROVE  ClosedInv'
<1>1. Promise!Next \/ UNCHANGED promiseVars
  BY StepPromised
<1>2. trimmed <= trimmed' /\ trimmed \in Nat /\ trimmed' \in Nat
  BY StepGrows, Numbers DEF IInv
<1>3. 1..trimmed \subseteq 1..trimmed'
  BY <1>2
<1>4. /\ Settled \subseteq Settled'
      /\ Closed' \subseteq Closed \cup Settled \cup 1..trimmed
  BY <1>1 DEF promiseVars, Promise!Next, Promise!Publish, Promise!Settle, Promise!Close
<1>5. QED
  BY <1>3, <1>4 DEF ClosedInv

\* What is pending still counts a delivery.
LEMMA AttemptedKeeps ==
    ASSUME IInv, AttemptedInv, Step
    PROVE  AttemptedInv'
<1>0. TypeOK /\ pending \subseteq Entries
  BY Numbers DEF IInv
<1>1. CASE Grows \/ Idles \/ Signals
  BY <1>1 DEF Grows, Idles, Signals, groupVars, AttemptedInv
<1>2. ASSUME NEW i \in Instances, Moves(i) \/ Die(i) PROVE AttemptedInv'
  BY <1>2 DEF Moves, ensureGroup, loopHead, backoff, Restart, Die, groupVars, AttemptedInv
<1>3. ASSUME NEW i \in Instances, readNew(i) \/ recoverStuck(i) PROVE AttemptedInv'
  <2>1. /\ \A m \in Entries : attempts[m] <= attempts'[m]
        /\ \A m \in pending' : m \in pending \/ attempts'[m] >= 1
    BY <1>0, <1>3, DeliveryForm
  <2>2. \A m \in Entries : attempts[m] \in Nat
    BY <1>0, ConsumerAssumption DEF TypeOK
  <2>3. TypeOK'
    BY StepKeeps DEF IInv
  <2>4. /\ attempts' \in [Entries -> 0..(MaxAttempts + 1)] /\ pending' \subseteq 1..delivered'
        /\ delivered' \in 0..added' /\ added' \in 0..NumEntries
    BY <2>3 DEF TypeOK
  <2>5. pending' \subseteq Entries
    BY <2>4, ConsumerAssumption DEF Entries
  <2>6. QED
    BY <1>0, <2>1, <2>2, <2>4, <2>5, ConsumerAssumption DEF AttemptedInv
<1>4. ASSUME NEW i \in Instances, OnCurrent(i) PROVE AttemptedInv'
  <2>1. batch[i] # {}
    BY <1>4 DEF OnCurrent, recoverOne, parseFails, handlerReturns, acknowledge, deadLetter,
                deadLetterEntry, IInv, BatchInv, Working
  <2>2. pending' \subseteq pending /\ attempts' = attempts
    BY <1>0, <1>4, <2>1, WorkForm
  <2>3. QED
    BY <2>2 DEF AttemptedInv
<1>5. QED
  BY <1>1, <1>2, <1>3, <1>4 DEF Step

\* An entry claimed has failed, or a delivery of it was cut short.
LEMMA ClaimedRough ==
    ASSUME IInv, AttemptedInv, pc[recorder] = "claim",
           NEW m \in Claimed(recorder), m \notin Malformed
    PROVE  ~Smooth(m)
<1> USE RecorderIn
<1>1. m \in pending /\ m \in Entries /\ batch[recorder] = {}
  BY PageForm, Numbers, ReaderIdle DEF IInv
<1>2. SUFFICES ASSUME m \notin interrupted PROVE failures[m] # 0
  BY DEF Smooth
<1>3. CountInv(m)
  BY <1>1, <1>2 DEF IInv, UndisturbedInv, EntryInv
<1>4. failures[m] = IF attempts[m] <= MaxAttempts THEN attempts[m] ELSE MaxAttempts
  BY <1>1, <1>3 DEF CountInv
<1>5. attempts[m] >= 1 /\ MaxAttempts >= 1
  BY <1>1, ConsumerAssumption DEF AttemptedInv
<1>6. QED
  BY <1>4, <1>5

\* The recorder still works in order.
LEMMA BatchOrderKeeps ==
    ASSUME IInv, AttemptedInv, BatchOrder, Step
    PROVE  BatchOrder'
<1> USE RecorderIn
<1>0. TypeOK /\ batch[recorder] \subseteq Entries /\ Entries \subseteq Nat
  <2>1. TypeOK /\ Entries \subseteq Nat /\ 1..delivered \subseteq Entries
    BY Numbers DEF IInv, Entries
  <2>2. QED
    BY <2>1 DEF TypeOK
<1>1. CASE UNCHANGED <<batch, claiming, successes, interrupted, failures>>
  BY <1>1 DEF BatchOrder, Smooth
<1>2. CASE Grows \/ Idles \/ Signals
  BY <1>1, <1>2 DEF Grows, Idles, Signals, localVars, historyVars
<1>3. CASE Moves(recorder)
  BY <1>1, <1>3 DEF Moves, ensureGroup, loopHead, backoff, Restart, localVars, historyVars
<1>4. CASE Die(recorder)
  <2>1. batch'[recorder] = {}
    BY <1>0, <1>4 DEF Die, TypeOK
  <2>2. QED
    BY <2>1 DEF BatchOrder
<1>5. CASE readNew(recorder)
  <2> DEFINE new == Oldest(Unread, ReadCount)
  <2>1. batch[recorder] = {} /\ successes' = successes
    BY <1>5, ReaderIdle DEF readNew, historyVars
  <2>2. CASE batch' = batch
    BY <2>1, <2>2 DEF BatchOrder
  <2>3. CASE batch' = [batch EXCEPT ![recorder] = new] /\ claiming' = [claiming EXCEPT ![recorder] = FALSE]
    <3>1. \A m \in new : delivered < m /\ m \in Entries
      BY DEF Oldest, Unread
    <3>2. batch'[recorder] = new /\ ~claiming'[recorder]
      BY <1>0, <2>3 DEF TypeOK
    <3>3. ASSUME NEW m \in new, NEW d \in Entries, m < d PROVE successes'[d] = 0
      <4>1. delivered < m /\ m \in Nat /\ d \in Nat /\ delivered \in Nat
        BY <1>0, <3>1, Numbers
      <4>2. QED
        BY <2>1, <3>3, <4>1, UnreadForm
    <3>4. QED
      BY <3>2, <3>3 DEF BatchOrder
  <2>4. QED
    BY <1>5, <2>2, <2>3 DEF readNew
<1>6. CASE recoverStuck(recorder)
  <2>1. batch[recorder] = {} /\ pc[recorder] = "claim" /\ failures' = failures
        /\ interrupted \subseteq interrupted'
    BY <1>6, ReaderIdle DEF recoverStuck, historyVars, Interrupt
  <2>2. CASE batch' = batch
    BY <2>1, <2>2 DEF BatchOrder
  <2>3. CASE /\ batch' = [batch EXCEPT ![recorder] = Claimed(recorder)]
             /\ claiming' = [claiming EXCEPT ![recorder] = TRUE]
    <3>1. batch'[recorder] = Claimed(recorder) /\ claiming'[recorder]
      BY <1>0, <2>3 DEF TypeOK
    <3>2. ASSUME NEW m \in Claimed(recorder), m \notin Malformed PROVE ~Smooth(m)'
      BY <2>1, <3>2, ClaimedRough DEF Smooth
    <3>3. QED
      BY <3>1, <3>2 DEF BatchOrder
  <2>4. QED
    BY <1>6, <2>2, <2>3 DEF recoverStuck, localVars
<1>7. CASE OnCurrent(recorder)
  <2>1. batch[recorder] # {}
    BY <1>7 DEF OnCurrent, recoverOne, parseFails, handlerReturns, acknowledge, deadLetter,
                deadLetterEntry, IInv, BatchInv, Working
  <2>2. /\ batch'[recorder] \subseteq batch[recorder] /\ claiming' = claiming
        /\ \A d \in Entries : successes'[d] = successes[d] \/ d = Current(recorder)
    BY <1>0, <1>7, <2>1, WorkForm
  <2>3. \A m \in batch[recorder] : Current(recorder) <= m /\ Current(recorder) \in Nat
    BY <1>0, <2>1, CurrentIn
  <2>4. ASSUME NEW m \in batch'[recorder], Smooth(m)', m \notin Malformed
        PROVE  ~claiming'[recorder]
    <3>1. m \in Entries /\ m \in batch[recorder] /\ Smooth(m)
      BY <1>0, <2>2, <2>4, SmoothBefore
    <3>2. QED
      BY <2>2, <2>4, <3>1 DEF BatchOrder
  <2>5. ASSUME ~claiming'[recorder], NEW m \in batch'[recorder], NEW d \in Entries, m < d
        PROVE  successes'[d] = 0
    <3>1. d # Current(recorder) /\ m \in batch[recorder]
      BY <1>0, <2>2, <2>3, <2>5
    <3>2. QED
      BY <2>2, <2>5, <3>1 DEF BatchOrder
  <2>6. QED
    BY <2>4, <2>5 DEF BatchOrder
<1>8. QED
  BY <1>2, <1>3, <1>4, <1>5, <1>6, <1>7 DEF Step
\* An entry that was delivered without trouble, and is no longer at hand, was handled.
LEMMA SmoothHandled ==
    ASSUME IInv, ClosedInv, AttemptedInv, NEW m \in Entries, m <= delivered, trimmed < m,
           Smooth(m), m \notin Malformed, m \notin batch[recorder]
    PROVE  successes[m] > 0
<1> USE RecorderIn
<1>1. /\ EntryInv(m) /\ CountInv(m) /\ failures[m] = 0
      /\ MaxAttempts \in Nat /\ MaxAttempts >= 1 /\ trimmed \in Nat /\ m \in Nat
  BY ConsumerAssumption, Numbers DEF Smooth, IInv, UndisturbedInv, EntryInv
<1>2. m \notin dead
  BY <1>1 DEF CountInv
<1>3. CASE m \in pending
  <2>1. \A i \in Instances : m \notin batch[i]
    OBVIOUS
  <2>2. failures[m] = IF attempts[m] <= MaxAttempts THEN attempts[m] ELSE MaxAttempts
    BY <1>1, <1>3, <2>1 DEF CountInv
  <2>3. attempts[m] >= 1
    BY <1>3 DEF AttemptedInv
  <2>4. QED
    BY <1>1, <2>2, <2>3
<1>4. CASE m \notin pending
  <2>1. m \in Closed
    BY <1>4 DEF Closed
  <2>2. m \notin 1..trimmed
    BY <1>1
  <2>3. m \in Settled
    BY <2>1, <2>2 DEF ClosedInv
  <2>4. QED
    BY <1>2, <2>3 DEF Settled, Handled
<1>5. QED
  BY <1>3, <1>4

-----------------------------------------------------------------------------
(* The order of the stream.                                                *)

\* How the stream goes on.
LEMMA StreamWays ==
    ASSUME SInv, [ServiceNext]_allVars
    PROVE  /\ added \in Nat /\ delivered \in 0..added /\ \A n \in 1..added : stream'[n] = stream[n]
           /\ added' \in {added, added + 1}
           /\ added' = added + 1 =>
                 /\ UNCHANGED <<tables, historyVars>>
                 /\ \E e : /\ stream'[added + 1] = e
                           /\ \/ e \in ForeignEvents
                              \/ /\ e \in Shaped /\ e \notin ForeignEvents /\ Fresh(e) /\ Begun(e)'
                                 /\ added + 1 \notin Malformed
<1>1. added \in Nat /\ stream \in Seq(Events \cup ForeignEvents) /\ Len(stream) = added
      /\ delivered \in 0..added
  BY Numbers DEF SInv, IInv, RunTypeOK
<1>2. ASSUME NEW e, e \in Events \cup ForeignEvents, added' = added + 1, stream' = Append(stream, e)
      PROVE  stream'[added + 1] = e /\ \A n \in 1..added : stream'[n] = stream[n]
  BY <1>1, <1>2
<1>3. CASE Rests \/ Records
  <2>1. stream' = stream /\ added' = added
    BY <1>3 DEF Rests, Records
  <2>2. QED
    BY <1>1, <2>1
<1>4. CASE Intrudes
  <2>1. PICK e \in ForeignEvents :
           UNCHANGED <<tables, historyVars>> /\ added' = added + 1 /\ stream' = Append(stream, e)
    BY <1>4 DEF Intrudes
  <2>2. QED
    BY <1>1, <1>2, <2>1
<1>5. CASE Publishes
  <2>1. PICK e \in Shaped : e \notin ForeignEvents /\ OwnPuts(e) /\ Fresh(e) /\ Begun(e)'
    BY <1>5 DEF Publishes
  <2>2. e \in Events
    BY <2>1 DEF Shaped
  <2>3. CASE UNCHANGED <<stream, added>>
    BY <1>1, <2>3
  <2>4. CASE added + 1 \notin Malformed /\ added' = added + 1 /\ stream' = Append(stream, e)
    <3>1. stream'[added + 1] = e /\ \A n \in 1..added : stream'[n] = stream[n]
      BY <1>2, <2>2, <2>4
    <3>2. QED
      BY <1>1, <2>1, <2>4, <3>1 DEF OwnPuts
  <2>5. QED
    BY <2>1, <2>3, <2>4 DEF OwnPuts, Puts
<1>6. QED
  BY <1>3, <1>4, <1>5, RowWays

\* What a shaped event is about.
LEMMA ShapedForm ==
    ASSUME NEW e \in Shaped
    PROVE  /\ e \in Events /\ e.run \in Runs /\ e.job \in Jobs \cup {None} /\ e.step \in Steps \cup {None}
           /\ e.type \in EventTypes /\ Level(e) \in {"pipeline", "job", "step"}
           /\ Level(e) \in {"job", "step"} => e.job \in Jobs /\ e.job # None
           /\ Level(e) = "step" => e.step \in Steps /\ e.step # None
           /\ e.step # None => e.job \in Jobs /\ e.job # None
<1>1. /\ e \in Events /\ e.run \in Runs /\ e.job \in Jobs \cup {None} /\ e.step \in Steps \cup {None}
      /\ e.type \in EventTypes
  BY DEF Shaped, Events
<1>2. Level(e) \in {"pipeline", "job", "step"}
  BY <1>1, LevelForm
<1>3. QED
  BY <1>1, <1>2, StoreAssumption DEF Shaped

\* What has begun stays so, of every event of a run.
LEMMA BegunStays ==
    ASSUME NEW e \in Shaped, Begun(e), BegunLasts
    PROVE  Begun(e)'
<1>1. /\ e.run \in Runs /\ e.job \in Jobs \cup {None} /\ e.step \in Steps \cup {None}
      /\ e.step # None => e.job \in Jobs /\ e.job # None
  BY ShapedForm
<1>2. rpc'[e.run] # "new"
  BY <1>1 DEF Begun, BegunLasts
<1>3. e.job # None => Job(e.run, e.job)' # None
  BY <1>1 DEF Begun, BegunLasts
<1>4. QED
  BY <1>2, <1>3 DEF Begun

\* The runs' entries stay theirs.
LEMMA OwnKeeps ==
    ASSUME SInv, OwnInv, [ServiceNext]_allVars
    PROVE  OwnInv'
<1>0. BegunLasts
  BY RowWays
<1>1. ASSUME NEW n \in 1..added, stream[n] \notin ForeignEvents
      PROVE  n \notin Malformed /\ stream[n] \in Shaped /\ Begun(stream[n])
  BY <1>1 DEF OwnInv
<1>2. ASSUME NEW n \in 1..added', stream'[n] \notin ForeignEvents
      PROVE  \E e : e = stream'[n] /\ n \notin Malformed /\ e \in Shaped /\ Begun(e)'
  <2>1. CASE n \in 1..added
    <3>1. PICK e : e = stream[n]
      OBVIOUS
    <3>2. stream'[n] = e
      BY <2>1, <3>1, StreamWays
    <3>3. n \notin Malformed /\ e \in Shaped /\ Begun(e)
      BY <1>1, <1>2, <2>1, <3>1, <3>2
    <3>4. QED
      BY <1>0, <3>2, <3>3, BegunStays
  <2>2. CASE n \notin 1..added
    <3>1. n = added + 1 /\ added' = added + 1
      BY <2>2, StreamWays
    <3>2. QED
      BY <1>2, <3>1, StreamWays
  <2>3. QED
    BY <2>1, <2>2
<1>3. QED
  BY <1>2 DEF OwnInv

\* An event's entry is about the row it needs.
LEMMA AboutForm ==
    ASSUME NEW level, NEW e, NEW n
    PROVE  n \in Starts(level, e) <=>
              /\ n \in 1..added /\ IsStart(stream[n]) /\ Level(stream[n]) = level
              /\ stream[n].run = e.run
              /\ level # "pipeline" => stream[n].job = e.job
              /\ level = "step" => stream[n].step = e.step
BY DEF Starts, About

\* A start is not about a run or a job that another event has needed.
LEMMA FreshFirst ==
    ASSUME NEW e \in Shaped, Fresh(e), IsStart(e), NEW f \in Shaped, Begun(f), Level(e) \in Needs(f),
           Level(e) # "step", e.run = f.run, Level(e) # "pipeline" => e.job = f.job
    PROVE  FALSE
<1>1. /\ Level(e) \in {"pipeline", "job", "step"}
      /\ Level(e) = "job" => Level(f) \in {"job", "step"}
      /\ Level(e) = "step" => Level(f) = "step"
  BY NeedsForm, ShapedForm
<1>2. CASE Level(e) = "pipeline"
  <2>1. e.type = "pipeline.started"
    BY <1>2, LevelForm DEF IsStart
  <2>2. QED
    BY <2>1 DEF Fresh, Begun
<1>3. CASE Level(e) = "job"
  <2>1. e.type = "job.started"
    BY <1>3, LevelForm DEF IsStart
  <2>2. f.job # None
    BY <1>1, <1>3, ShapedForm
  <2>3. QED
    BY <1>3, <2>1, <2>2 DEF Fresh, Begun
<1>4. QED
  BY <1>1, <1>2, <1>3

\* The starts still come first.
LEMMA OrderKeeps ==
    ASSUME SInv, OwnInv, OrderInv, [ServiceNext]_allVars
    PROVE  OrderInv'
<1> SUFFICES ASSUME NEW n \in 1..added', stream'[n] \notin ForeignEvents,
                    NEW level, level \in Needs(stream'[n]), level # "step",
                    NEW m, m \in Starts(level, stream[n])'
             PROVE  m < n
  BY DEF OrderInv
<1>1. PICK f : f = stream'[n]
  OBVIOUS
<1>2. PICK e : e = stream'[m]
  OBVIOUS
<1>3. /\ m \in 1..added' /\ IsStart(e) /\ Level(e) = level /\ e.run = f.run
      /\ level # "pipeline" => e.job = f.job
      /\ level = "step" => e.step = f.step
  BY <1>1, <1>2 DEF Starts, About
<1>4. added \in Nat /\ added' \in {added, added + 1} /\ \A p \in 1..added : stream'[p] = stream[p]
  BY StreamWays
<1>5. level \in Needs(f) /\ f \notin ForeignEvents
  BY <1>1
<1>6. CASE m \in 1..added /\ n \in 1..added
  <2>1. e = stream[m] /\ f = stream[n]
    BY <1>1, <1>2, <1>4, <1>6
  <2>2. m \in Starts(level, f)
    BY <1>3, <1>6, <2>1, AboutForm
  <2>3. QED
    BY <1>5, <1>6, <2>1, <2>2 DEF OrderInv
<1>7. CASE n \notin 1..added
  <2>1. n = added + 1 /\ added' = added + 1
    BY <1>4, <1>7
  <2>2. CASE m = n
    <3>1. e = f
      BY <1>1, <1>2, <2>2
    <3>2. IsEnd(f) /\ IsStart(f)
      BY <1>3, <1>5, <3>1, NeedsForm
    <3>3. QED
      BY <3>2, LevelForm
  <2>3. QED
    BY <1>3, <2>1, <2>2
<1>8. CASE n \in 1..added /\ m \notin 1..added
  <2>1. m = added + 1 /\ added' = added + 1
    BY <1>3, <1>4, <1>8
  <2>2. f \in Shaped /\ Begun(f)
    BY <1>1, <1>4, <1>5, <1>8 DEF OwnInv
  <2>3. e.run \in Runs
    BY <1>3, <2>2, ShapedForm
  <2>4. e \notin ForeignEvents
    BY <1>3, <2>3, ForeignAssumption DEF IsStart
  <2>5. e \in Shaped /\ Fresh(e)
    BY <1>2, <2>1, <2>4, StreamWays
  <2>6. QED
    BY <1>3, <1>5, <2>2, <2>5, FreshFirst
<1>9. QED
  BY <1>6, <1>7, <1>8
-----------------------------------------------------------------------------
(* Record.                                                                 *)

\* The two events are about the same row.
SameRow(e, f) ==
    /\ Level(f) = Level(e) /\ f.run = e.run
    /\ Level(e) # "pipeline" => f.job = e.job
    /\ Level(e) = "step" => f.step = e.step

Accepted(c, e) ==
    /\ Record(e, TRUE)
    /\ successes'[c] > 0 /\ \A d \in Entries \ {c} : successes'[d] = successes[d]
    /\ failures' = failures

Refused(c, e) ==
    /\ UNCHANGED tables \/ \E ok \in BOOLEAN : Record(e, ok)
    /\ successes' = successes /\ failures'[c] # 0

\* What a call of Record is about, and how it comes out.
LEMMA RecordsForm ==
    ASSUME SInv, Records
    PROVE  \E c \in Entries : \E e :
              /\ c \in batch[recorder] /\ c \in 1..added /\ c \notin Malformed /\ e = stream[c]
              /\ UNCHANGED <<stream, added>>
              /\ Accepted(c, e) \/ Refused(c, e)
<1> USE RecorderIn
<1>1. PICK c : c = Current(recorder)
  OBVIOUS
<1>2. PICK e : e = stream[c]
  OBVIOUS
<1>3. pc[recorder] = "handle" /\ TypeOK
  BY DEF Records, record, SInv, IInv
<1>4. c \in batch[recorder] /\ c \in Entries /\ c \in 1..delivered
  BY <1>1, <1>3, CurrentIn DEF SInv, IInv, BatchInv, Working
<1>5. c \in 1..added
  BY <1>3, <1>4, Numbers
<1>6. PICK ok \in BOOLEAN :
         /\ handlerReturns(recorder, ok)
         /\ Record(e, ok) \/ (~ok /\ (UNCHANGED tables \/ \E b \in BOOLEAN : Record(e, b)))
  BY <1>1, <1>2 DEF Records, record, recordFails
<1>7. successes \in [Entries -> 0..2] /\ failures \in [Entries -> 0..(MaxAttempts + 1)]
  BY <1>3 DEF TypeOK
<1>8. CASE ok
  <2>1. successes' = [successes EXCEPT ![c] = CountUp(successes[c], 2)] /\ failures' = failures
    BY <1>1, <1>6, <1>8 DEF handlerReturns
  <2>2. successes'[c] > 0 /\ \A d \in Entries \ {c} : successes'[d] = successes[d]
    BY <1>4, <1>7, <2>1 DEF CountUp
  <2>3. Accepted(c, e)
    BY <1>6, <1>8, <2>1, <2>2 DEF Accepted
  <2>4. QED
    BY <1>1, <1>2, <1>4, <1>5, <1>6, <2>3 DEF Records, handlerReturns
<1>9. CASE ~ok
  <2>1. failures' = [failures EXCEPT ![c] = CountUp(failures[c], MaxAttempts + 1)]
        /\ successes' = successes
    BY <1>1, <1>6, <1>9 DEF handlerReturns
  <2>2. failures'[c] # 0
    BY <1>4, <1>7, <2>1, ConsumerAssumption DEF CountUp
  <2>3. Refused(c, e)
    BY <1>6, <2>1, <2>2 DEF Refused
  <2>4. QED
    BY <1>1, <1>2, <1>4, <1>5, <1>6, <2>3 DEF Records, handlerReturns
<1>10. QED
  BY <1>8, <1>9

\* What an INSERT and an UPDATE do to a table.
LEMMA WriteForm ==
    ASSUME NEW K, NEW table \in [K -> RowStatuses], NEW key \in K, NEW e, NEW new,
           \/ IsStart(e) /\ ~IsEnd(e) /\ new = InsertPending(table, key)
           \/ IsEnd(e) /\ ~IsStart(e) /\ new = Update(table, key, e.status)
    PROVE  /\ \A k \in K : k # key => new[k] = table[k]
           /\ IsStart(e) => new[key] = IF table[key] = None THEN "pending" ELSE table[key]
           /\ IsEnd(e) => new[key] = IF table[key] = None THEN None ELSE e.status
<1>1. CASE IsStart(e) /\ ~IsEnd(e) /\ new = InsertPending(table, key)
  BY <1>1 DEF InsertPending, Has
<1>2. CASE IsEnd(e) /\ ~IsStart(e) /\ new = Update(table, key, e.status)
  BY <1>2 DEF Update, Has
<1>3. QED
  BY <1>1, <1>2

\* A write outside the table's rows is none.
LEMMA WriteElsewhere ==
    ASSUME NEW K, NEW table \in [K -> RowStatuses], NEW key, key \notin K
    PROVE  InsertPending(table, key) = table
BY DEF InsertPending, Has

\* An error of Record leaves the tables.
LEMMA RecordRefuses ==
    ASSUME NEW e, Record(e, FALSE)
    PROVE  UNCHANGED tables
BY DEF Record, recordPipelineStarted, recordPipelineFinished, recordJobStarted, recordJobFinished,
       recordStepStarted, recordStepFinished, tables

\* Record writes the row of a run's event, and no other.
LEMMA RecordOwn ==
    ASSUME TableTypeOK, NEW e \in Shaped, NEW f \in Shaped, Record(e, TRUE)
    PROVE  /\ ~SameRow(f, e) => Row(Level(f), f)' = Row(Level(f), f)
           /\ SameRow(f, e) /\ IsStart(e) =>
                 Row(Level(f), f)' = IF Row(Level(f), f) = None THEN "pending" ELSE Row(Level(f), f)
           /\ SameRow(f, e) /\ IsEnd(e) =>
                 Row(Level(f), f)' = IF Row(Level(f), f) = None THEN None ELSE e.status
<1>1. /\ runs \in [Runs -> RowStatuses] /\ jobs \in [JobKeys -> RowStatuses]
      /\ steps \in [StepKeys -> RowStatuses]
  BY DEF TableTypeOK
<1>2. /\ e.run \in Runs /\ f.run \in Runs
      /\ Level(e) \in {"job", "step"} => <<e.run, e.job>> \in JobKeys
      /\ Level(f) \in {"job", "step"} => <<f.run, f.job>> \in JobKeys
      /\ Level(e) = "step" => <<e.run, e.job, e.step>> \in StepKeys
      /\ Level(f) = "step" => <<f.run, f.job, f.step>> \in StepKeys
      /\ Level(e) \in {"pipeline", "job", "step"} /\ Level(f) \in {"pipeline", "job", "step"}
      /\ e.type \in EventTypes
  BY ShapedForm DEF JobKeys, StepKeys
<1>3. CASE Level(e) = "pipeline"
  <2>1. PICK key \in Runs : key = e.run
    BY <1>2, <1>3
  <2>2. UNCHANGED <<jobs, steps>>
        /\ \/ IsStart(e) /\ ~IsEnd(e) /\ runs' = InsertPending(runs, key)
           \/ IsEnd(e) /\ ~IsStart(e) /\ runs' = Update(runs, key, e.status)
    BY <1>2, <1>3, <2>1, LevelForm
       DEF Record, recordPipelineStarted, recordPipelineFinished, recordJobStarted,
           recordJobFinished, recordStepStarted, recordStepFinished, IsStart, IsEnd, Ends
  <2>3. /\ \A k \in Runs : k # key => runs'[k] = runs[k]
        /\ IsStart(e) => runs'[key] = IF runs[key] = None THEN "pending" ELSE runs[key]
        /\ IsEnd(e) => runs'[key] = IF runs[key] = None THEN None ELSE e.status
    BY <1>1, <2>2, WriteForm
  <2>4. CASE Level(f) = "pipeline"
    <3>1. PICK k \in Runs : k = f.run
      BY <1>2, <2>4
    <3>2. Row(Level(f), f) = runs[k] /\ Row(Level(f), f)' = runs'[k]
      BY <2>4, <3>1, RowAt
    <3>3. SameRow(f, e) <=> key = k
      BY <1>3, <2>1, <2>4, <3>1 DEF SameRow
    <3>4. QED
      BY <2>3, <3>2, <3>3
  <2>5. CASE Level(f) # "pipeline"
    BY <1>2, <1>3, <2>2, <2>5, RowAt DEF SameRow
  <2>6. QED
    BY <2>4, <2>5
<1>4. CASE Level(e) = "job"
  <2>1. PICK key \in JobKeys : key = <<e.run, e.job>>
    BY <1>2, <1>4
  <2>2. UNCHANGED <<runs, steps>>
        /\ \/ IsStart(e) /\ ~IsEnd(e) /\ jobs' = InsertPending(jobs, key)
           \/ IsEnd(e) /\ ~IsStart(e) /\ jobs' = Update(jobs, key, e.status)
    BY <1>2, <1>4, <2>1, LevelForm
       DEF Record, recordPipelineStarted, recordPipelineFinished, recordJobStarted,
           recordJobFinished, recordStepStarted, recordStepFinished, IsStart, IsEnd, Ends, jobKey
  <2>3. /\ \A k \in JobKeys : k # key => jobs'[k] = jobs[k]
        /\ IsStart(e) => jobs'[key] = IF jobs[key] = None THEN "pending" ELSE jobs[key]
        /\ IsEnd(e) => jobs'[key] = IF jobs[key] = None THEN None ELSE e.status
    BY <1>1, <2>2, WriteForm
  <2>4. CASE Level(f) = "job"
    <3>1. PICK k \in JobKeys : k = <<f.run, f.job>>
      BY <1>2, <2>4
    <3>2. Row(Level(f), f) = jobs[k] /\ Row(Level(f), f)' = jobs'[k]
      BY <2>4, <3>1, RowAt
    <3>3. SameRow(f, e) <=> key = k
      BY <1>4, <2>1, <2>4, <3>1 DEF SameRow
    <3>4. QED
      BY <2>3, <3>2, <3>3
  <2>5. CASE Level(f) # "job"
    BY <1>2, <1>4, <2>2, <2>5, RowAt DEF SameRow
  <2>6. QED
    BY <2>4, <2>5
<1>5. CASE Level(e) = "step"
  <2>1. PICK key \in StepKeys : key = <<e.run, e.job, e.step>>
    BY <1>2, <1>5
  <2>2. UNCHANGED <<runs, jobs>>
        /\ \/ IsStart(e) /\ ~IsEnd(e) /\ steps' = InsertPending(steps, key)
           \/ IsEnd(e) /\ ~IsStart(e) /\ steps' = Update(steps, key, e.status)
    BY <1>2, <1>5, <2>1, LevelForm, StepKeyForm
       DEF Record, recordPipelineStarted, recordPipelineFinished, recordJobStarted,
           recordJobFinished, recordStepStarted, recordStepFinished, IsStart, IsEnd, Ends
  <2>3. /\ \A k \in StepKeys : k # key => steps'[k] = steps[k]
        /\ IsStart(e) => steps'[key] = IF steps[key] = None THEN "pending" ELSE steps[key]
        /\ IsEnd(e) => steps'[key] = IF steps[key] = None THEN None ELSE e.status
    BY <1>1, <2>2, WriteForm
  <2>4. CASE Level(f) = "step"
    <3>1. PICK k \in StepKeys : k = <<f.run, f.job, f.step>>
      BY <1>2, <2>4
    <3>2. Row(Level(f), f) = steps[k] /\ Row(Level(f), f)' = steps'[k]
      BY <2>4, <3>1, RowAt
    <3>3. SameRow(f, e) <=> key = k
      BY <1>5, <2>1, <2>4, <3>1 DEF SameRow
    <3>4. QED
      BY <2>3, <3>2, <3>3
  <2>5. CASE Level(f) # "step"
    BY <1>2, <1>5, <2>2, <2>5, RowAt DEF SameRow
  <2>6. QED
    BY <2>4, <2>5
<1>6. QED
  BY <1>2, <1>3, <1>4, <1>5

\* Record writes nothing for another producer's event, nor accepts one about a run's row.
LEMMA RecordForeign ==
    ASSUME TableTypeOK, NEW e \in ForeignEvents, NEW ok \in BOOLEAN, Record(e, ok)
    PROVE  /\ UNCHANGED tables
           /\ e.run \in Runs /\ Level(e) \in {"pipeline", "job", "step"} => ~ok
<1>1. CASE ~ok
  BY <1>1, RecordRefuses
<1>2. CASE ok /\ IsEnd(e)
  BY <1>2, ServiceAssumption
     DEF IsEnd, Ends, Record, recordPipelineStarted, recordPipelineFinished, recordJobStarted,
         recordJobFinished, recordStepStarted, recordStepFinished, EventTypes
<1>3. CASE ok /\ IsStart(e)
  <2>1. e.run \notin Runs
    BY <1>3, ForeignAssumption DEF IsStart
  <2>2. ~runRow(e)
    BY <2>1 DEF runRow, Has, TableTypeOK
  <2>3. ~jobRow(e)
    BY <2>2 DEF jobRow
  <2>4. e.type = "pipeline.started" /\ runs' = InsertPending(runs, e.run) /\ UNCHANGED <<jobs, steps>>
    BY <1>3, <2>2, <2>3
       DEF IsStart, Record, recordPipelineStarted, recordPipelineFinished, recordJobStarted,
           recordJobFinished, recordStepStarted, recordStepFinished, EventTypes
  <2>5. runs' = runs
    BY <2>1, <2>4, WriteElsewhere DEF TableTypeOK
  <2>6. QED
    BY <2>1, <2>4, <2>5 DEF tables
<1>4. CASE ~IsStart(e) /\ ~IsEnd(e)
  <2>1. e.type \notin EventTypes
    BY <1>4 DEF IsStart, IsEnd, Ends, EventTypes
  <2>2. UNCHANGED tables
    BY <2>1 DEF Record, recordPipelineStarted, recordPipelineFinished, recordJobStarted,
                recordJobFinished, recordStepStarted, recordStepFinished, EventTypes
  <2>3. Level(e) \notin {"pipeline", "job", "step"}
    BY <1>4, LevelForm
  <2>4. QED
    BY <2>2, <2>3
<1>5. QED
  BY <1>1, <1>2, <1>3, <1>4
-----------------------------------------------------------------------------
(* What was handled shows in the rows.                                     *)

\* A step records an entry, or leaves the tables and the outcomes.
LEMMA HandlingWays ==
    ASSUME SInv, [ServiceNext]_allVars
    PROVE  \/ UNCHANGED <<tables, historyVars>>
           \/ /\ UNCHANGED <<stream, added>>
              /\ \E c \in Entries : \E e :
                    /\ c \in batch[recorder] /\ c \in 1..added /\ c \notin Malformed /\ e = stream[c]
                    /\ Accepted(c, e) \/ Refused(c, e)
<1>1. CASE Records
  BY <1>1, RecordsForm
<1>2. CASE Rests \/ Publishes \/ Intrudes
  BY <1>2 DEF Rests, Publishes, OwnPuts, Intrudes
<1>3. QED
  BY <1>1, <1>2, RowWays

\* The entries of the stream, and what a new one was not.
LEMMA NewEntry ==
    ASSUME SInv, [ServiceNext]_allVars
    PROVE  /\ 1..added \subseteq Entries /\ 1..added' \subseteq Entries
           /\ added' = added + 1 => successes[added + 1] = 0
<1>1. IInv /\ IInv'
  BY ServiceIsStep, StepKeeps DEF SInv, IInv
<1>2. NumEntries \in Nat /\ added \in 0..NumEntries /\ delivered \in 0..added /\ added' \in 0..NumEntries
  BY <1>1, ConsumerAssumption DEF IInv, TypeOK
<1>3. 1..added \subseteq Entries /\ 1..added' \subseteq Entries
  BY <1>2 DEF Entries
<1>4. CASE added' = added + 1
  <2>1. added + 1 \in Entries /\ delivered < added + 1
    BY <1>2, <1>4 DEF Entries
  <2>2. QED
    BY <1>1, <1>3, <2>1, UnreadForm
<1>5. QED
  BY <1>3, <1>4

\* What is handled was so before, or Record has just accepted it.
LEMMA SuccessWays ==
    ASSUME SInv, [ServiceNext]_allVars, NEW m \in 1..added', successes'[m] > 0
    PROVE  /\ m \in 1..added
           /\ \/ successes[m] > 0
              \/ \E e : e = stream[m] /\ Record(e, TRUE)
<1>1. added' \in {added, added + 1} /\ added \in Nat /\ m \in Entries
  BY StreamWays, NewEntry
<1>2. CASE successes' = successes
  <2>1. m # added + 1 \/ added' # added + 1
    BY <1>2, NewEntry
  <2>2. m \in 1..added
    BY <1>1, <2>1
  <2>3. QED
    BY <1>2, <2>2
<1>3. ASSUME UNCHANGED <<stream, added>>, NEW c \in Entries, NEW e, e = stream[c], Accepted(c, e)
      PROVE  /\ m \in 1..added
             /\ \/ successes[m] > 0
                \/ \E f : f = stream[m] /\ Record(f, TRUE)
  <2>1. m \in 1..added
    BY <1>3
  <2>2. CASE m # c
    BY <1>1, <1>3, <2>1, <2>2 DEF Accepted
  <2>3. CASE m = c
    BY <1>3, <2>1, <2>3 DEF Accepted
  <2>4. QED
    BY <2>2, <2>3
<1>4. QED
  BY <1>2, <1>3, HandlingWays DEF historyVars, Refused

\* Still, nothing of another producer about a run's row is accepted.
LEMMA ForeignKeeps ==
    ASSUME SInv, ForeignInv, [ServiceNext]_allVars
    PROVE  ForeignInv'
<1> SUFFICES ASSUME NEW m \in 1..added', NEW e \in ForeignEvents, e = stream'[m],
                    e.run \in Runs, Level(e) \in {"pipeline", "job", "step"}
             PROVE  successes'[m] = 0
  BY DEF ForeignInv
<1>1. SUFFICES ASSUME successes'[m] > 0 PROVE FALSE
  <2>1. IInv' /\ m \in Entries
    BY ServiceIsStep, StepKeeps, NewEntry DEF SInv, IInv
  <2>2. successes'[m] \in 0..2
    BY <2>1 DEF IInv, TypeOK
  <2>3. QED
    BY <1>1, <2>2
<1>2. m \in 1..added
  BY <1>1, SuccessWays
<1>3. stream[m] = e
  BY <1>2, StreamWays
<1>4. successes[m] = 0
  BY <1>2, <1>3 DEF ForeignInv
<1>5. Record(e, TRUE)
  <2>1. ~(successes[m] > 0)
    BY <1>4
  <2>2. PICK f : f = stream[m] /\ Record(f, TRUE)
    BY <1>1, <2>1, SuccessWays
  <2>3. f = e
    BY <1>3, <2>2
  <2>4. QED
    BY <2>2, <2>3
<1>6. QED
  BY <1>5, RecordForeign DEF SInv

\* A row does not go away.
LEMMA RowStays ==
    ASSUME SInv, [ServiceNext]_allVars, NEW e \in Shaped, Row(Level(e), e) # None
    PROVE  Row(Level(e), e)' # None
<1>1. None \notin Ended
  BY ServiceAssumption DEF Ended, Statuses
<1>2. RowsChange
  BY RowsChangeByReports
<1>3. CASE Level(e) = "pipeline"
  <2>1. e.run \in Runs
    BY ShapedForm
  <2>2. runs[e.run] # None
    BY <1>3, RowAt
  <2>3. runs'[e.run] # None
    BY <1>1, <1>2, <2>1, <2>2 DEF RowsChange, Keeps
  <2>4. QED
    BY <1>3, <2>3, RowAt
<1>4. CASE Level(e) = "job"
  <2>1. e.run \in Runs /\ e.job \in Jobs
    BY <1>4, ShapedForm
  <2>2. jobs[<<e.run, e.job>>] # None
    BY <1>4, RowAt
  <2>3. jobs'[<<e.run, e.job>>] # None
    BY <1>1, <1>2, <2>1, <2>2 DEF RowsChange, Keeps
  <2>4. QED
    BY <1>4, <2>3, RowAt
<1>5. CASE Level(e) = "step"
  <2>1. e.run \in Runs /\ e.job \in Jobs /\ e.step \in Steps
    BY <1>5, ShapedForm
  <2>2. steps[<<e.run, e.job, e.step>>] # None
    BY <1>5, RowAt
  <2>3. ASSUME Keeps(steps[<<e.run, e.job, e.step>>], steps'[<<e.run, e.job, e.step>>])
        PROVE  steps'[<<e.run, e.job, e.step>>] # None
    BY <1>1, <2>2, <2>3 DEF Keeps
  <2>4. ASSUME [step |-> e.step, status |-> steps'[<<e.run, e.job, e.step>>]]
                 \in results[<<e.run, e.job>>]
        PROVE  steps'[<<e.run, e.job, e.step>>] # None
    <3>1. results[<<e.run, e.job>>] \subseteq [step : Steps, status : Ended]
      BY <2>1 DEF SInv, RunTypeOK, JobKeys
    <3>2. steps'[<<e.run, e.job, e.step>>] \in Ended
      BY <2>4, <3>1
    <3>3. QED
      BY <1>1, <3>2
  <2>5. steps'[<<e.run, e.job, e.step>>] # None
    BY <1>2, <2>1, <2>3, <2>4 DEF RowsChange
  <2>6. QED
    BY <1>5, <2>5, RowAt
<1>6. QED
  BY <1>3, <1>4, <1>5, ShapedForm

\* A start that is handled still has its row.
LEMMA RowKeeps ==
    ASSUME SInv, OwnInv, RowInv, [ServiceNext]_allVars
    PROVE  RowInv'
<1>1. ASSUME NEW m \in 1..added', NEW e, e = stream'[m], e \notin ForeignEvents, IsStart(e),
             successes'[m] > 0
      PROVE  Row(Level(e), e)' # None
  <2>1. m \in 1..added
    BY <1>1, SuccessWays
  <2>2. stream[m] = e
    BY <1>1, <2>1, StreamWays
  <2>3. e \in Shaped
    BY <1>1, <2>1, <2>2 DEF OwnInv
  <2>4. CASE successes[m] > 0
    <3>1. Row(Level(e), e) # None
      BY <1>1, <2>1, <2>2, <2>4 DEF RowInv
    <3>2. QED
      BY <2>3, <3>1, RowStays
  <2>5. CASE Record(e, TRUE)
    <3>1. SameRow(e, e)
      BY DEF SameRow
    <3>2. Row(Level(e), e)' = IF Row(Level(e), e) = None THEN "pending" ELSE Row(Level(e), e)
      BY <1>1, <2>3, <2>5, <3>1, RecordOwn DEF SInv
    <3>3. "pending" # None
      BY ServiceAssumption DEF Statuses
    <3>4. QED
      BY <3>2, <3>3
  <2>6. QED
    BY <1>1, <2>2, <2>4, <2>5, SuccessWays
<1>2. ASSUME NEW m \in 1..added',
             (stream[m] \notin ForeignEvents /\ IsStart(stream[m]) /\ successes[m] > 0)'
      PROVE  (Row(Level(stream[m]), stream[m]) # None)'
  <2>1. PICK e : e = stream'[m]
    OBVIOUS
  <2>2. Row(Level(e), e)' # None
    BY <1>1, <1>2, <2>1
  <2>3. QED
    BY <2>1, <2>2 DEF Row
<1>3. QED
  BY <1>2 DEF RowInv
-----------------------------------------------------------------------------
(* What a row holds.                                                       *)

\* The entries about an event's row.
LEMMA AboutRow ==
    ASSUME NEW e, NEW n
    PROVE  n \in About(Level(e), e) <=> n \in 1..added /\ SameRow(e, stream[n])
BY DEF About, SameRow

\* Events about the same row need, and have, the same.
LEMMA SameRowForm ==
    ASSUME NEW e, NEW f, SameRow(e, f)
    PROVE  /\ SameRow(f, e) /\ Level(f) = Level(e) /\ Row(Level(f), f) = Row(Level(e), e)
           /\ IsEnd(f) => Level(e) \in Needs(f)
<1>1. Level(f) = Level(e) /\ f.run = e.run
      /\ (Level(e) # "pipeline" => f.job = e.job) /\ (Level(e) = "step" => f.step = e.step)
  BY DEF SameRow
<1>2. Level(e) \in {"pipeline", "job", "step", "none"}
  BY DEF Level
<1>3. PICK level : level = Level(e)
  OBVIOUS
<1>4. Row(level, f) = Row(level, e)
  BY <1>1, <1>2, <1>3 DEF Row
<1>5. SameRow(f, e)
  BY <1>1 DEF SameRow
<1>6. QED
  BY <1>1, <1>3, <1>4, <1>5 DEF Needs

\* A row with a handled start is there.
LEMMA StartedRow ==
    ASSUME SInv, RowInv, ForeignInv, NEW e \in Shaped, HandledStarts(e) # {}
    PROVE  Row(Level(e), e) # None
<1>1. PICK m \in 1..added : SameRow(e, stream[m]) /\ IsStart(stream[m]) /\ successes[m] > 0
  BY AboutRow DEF HandledStarts
<1>2. PICK f : f = stream[m]
  OBVIOUS
<1>3. f.run \in Runs /\ Level(f) \in {"pipeline", "job", "step"}
  BY <1>1, <1>2, ShapedForm DEF SameRow
<1>4. f \notin ForeignEvents
  BY <1>1, <1>2, <1>3 DEF ForeignInv
<1>5. Row(Level(f), f) # None
  BY <1>1, <1>2, <1>4 DEF RowInv
<1>6. QED
  BY <1>1, <1>2, <1>5, SameRowForm

\* The row of an entry handled without trouble is still exact.
LEMMA ExactHandled ==
    ASSUME SInv, OwnInv, BatchOrder, ForeignInv, RowInv, NEW e \in Shaped,
           Row(Level(e), e) = Expected(e),
           NEW c \in batch[recorder], Smooth(c), c \notin Malformed, c \in About(Level(e), e),
           Accepted(c, stream[c]), UNCHANGED <<stream, added>>
    PROVE  Row(Level(e), e)' = Expected(e)'
<1>0. c \in 1..added /\ 1..added \subseteq Entries /\ Entries \subseteq Nat
  BY AboutRow, Numbers DEF SInv, IInv, Entries
<1>1. PICK f : f = stream[c]
  OBVIOUS
<1>2. SameRow(e, f) /\ SameRow(f, e) /\ Record(f, TRUE)
  BY <1>1, AboutRow, SameRowForm DEF Accepted
<1>3. f \in Shaped
  <2>1. f.run \in Runs /\ Level(f) \in {"pipeline", "job", "step"}
    BY <1>2, ShapedForm DEF SameRow
  <2>2. f \notin ForeignEvents
    BY <1>2, <2>1, RecordForeign DEF SInv
  <2>3. QED
    BY <1>0, <1>1, <2>2 DEF OwnInv
<1>4. /\ IsStart(f) => Row(Level(e), e)' = IF Row(Level(e), e) = None THEN "pending" ELSE Row(Level(e), e)
      /\ IsEnd(f) => Row(Level(e), e)' = IF Row(Level(e), e) = None THEN None ELSE f.status
  BY <1>2, <1>3, RecordOwn DEF SInv
<1> DEFINE handled == {m \in About(Level(e), e) : successes[m] > 0}
<1>5. handled' = handled \cup {c}
  <2>1. About(Level(e), e)' = About(Level(e), e)
    BY DEF About
  <2>2. /\ successes'[c] > 0 /\ About(Level(e), e) \subseteq Entries
        /\ \A d \in Entries \ {c} : successes'[d] = successes[d]
    BY <1>0, AboutRow DEF Accepted
  <2>3. QED
    BY <2>1, <2>2
<1>6. /\ HandledStarts(e) = {m \in handled : IsStart(stream[m])}
      /\ HandledEnds(e) = {m \in handled : IsEnd(stream[m])}
      /\ HandledStarts(e)' = {m \in handled' : IsStart(stream[m])}
      /\ HandledEnds(e)' = {m \in handled' : IsEnd(stream[m])}
  BY DEF HandledStarts, HandledEnds
<1> HIDE DEF handled
<1>7. \A d \in handled : d <= c /\ d \in Nat
  <2>1. \A d \in Entries : c < d => successes[d] = 0
    BY DEF BatchOrder
  <2>2. \A d \in handled : d \in Entries /\ successes[d] > 0
    BY <1>0, AboutRow DEF handled
  <2>3. ASSUME NEW d \in handled
        PROVE  d <= c /\ d \in Nat
    <3>1. d \in Entries /\ successes[d] > 0
      BY <2>2
    <3>2. d \in Nat /\ c \in Nat
      BY <1>0, <3>1
    <3>3. ~(c < d)
      <4>1. c < d => successes[d] = 0
        BY <2>1, <3>1
      <4>2. QED
        BY <3>1, <4>1
    <3>4. QED
      BY <3>2, <3>3
  <2>4. QED
    BY <2>3
<1>8. c \in Nat /\ stream'[c] = f
  BY <1>0, <1>1
<1>9. CASE IsStart(f)
  <2>1. ~IsEnd(f)
    BY <1>9, LevelForm
  <2>2. HandledStarts(e)' = HandledStarts(e) \cup {c} /\ HandledEnds(e)' = HandledEnds(e)
    BY <1>1, <1>5, <1>6, <1>9, <2>1
  <2>3. \A m \in HandledEnds(e) : ~(c < m)
    BY <1>6, <1>7, <1>8
  <2>4. LateEnds(e)' = LateEnds(e)
    BY <2>2, <2>3 DEF LateEnds
  <2>5. CASE HandledStarts(e) = {}
    <3>1. LateEnds(e) = {} /\ Row(Level(e), e) = None
      BY <2>5 DEF LateEnds, Expected
    <3>2. Expected(e)' = "pending"
      BY <2>2, <2>4, <3>1 DEF Expected
    <3>3. QED
      BY <1>4, <1>9, <3>1, <3>2
  <2>6. CASE HandledStarts(e) # {}
    <3>1. Row(Level(e), e)' = Row(Level(e), e)
      BY <1>4, <1>9, <2>6, StartedRow
    <3>2. HandledStarts(e)' # {}
      BY <2>2
    <3>3. Expected(e)' = Expected(e)
      <4>1. CASE LateEnds(e) = {}
        BY <2>4, <2>6, <3>2, <4>1 DEF Expected
      <4>2. CASE LateEnds(e) # {}
        <5>1. Last(LateEnds(e)') = Last(LateEnds(e)) /\ stream' = stream
          BY <2>4
        <5>2. Expected(e)' = stream'[Last(LateEnds(e)')].status
          BY <2>4, <3>2, <4>2 DEF Expected, Last
        <5>3. QED
          BY <2>6, <4>2, <5>1, <5>2 DEF Expected
      <4>3. QED
        BY <4>1, <4>2
    <3>4. QED
      BY <3>1, <3>3
  <2>7. QED
    BY <2>5, <2>6
<1>10. CASE IsEnd(f)
  <2>1. ~IsStart(f)
    BY <1>10, LevelForm
  <2>2. HandledStarts(e)' = HandledStarts(e)
    BY <1>1, <1>5, <1>6, <2>1
  <2>3. HandledEnds(e)' = HandledEnds(e) \cup {c}
    BY <1>1, <1>5, <1>6, <1>10
  <2>4. CASE HandledStarts(e) = {}
    <3>1. Row(Level(e), e) = None /\ Expected(e)' = None
      BY <2>2, <2>4 DEF Expected
    <3>2. QED
      BY <1>4, <1>10, <3>1
  <2>5. CASE HandledStarts(e) # {}
    <3>1. Row(Level(e), e) # None
      BY <2>5, StartedRow
    <3>2. PICK s \in HandledStarts(e) : TRUE
      BY <2>5
    <3>3. s \in handled /\ IsStart(stream[s])
      BY <1>6, <3>2
    <3>4. s < c
      BY <1>1, <1>7, <1>8, <2>1, <3>3
    <3>5. c \in LateEnds(e)'
      BY <2>2, <2>3, <3>2, <3>4 DEF LateEnds
    <3>6. \A d \in LateEnds(e)' : d <= c /\ d \in Nat
      BY <1>6, <1>7, <1>8, <2>3 DEF LateEnds
    <3>7. Last(LateEnds(e)') = c
      <4>1. PICK S : S = LateEnds(e)'
        OBVIOUS
      <4>2. c \in S /\ c \in Nat /\ \A d \in S : d <= c /\ d \in Nat
        BY <1>8, <3>5, <3>6, <4>1
      <4>3. Last(S) \in S /\ \A d \in S : d <= Last(S)
        BY <4>2, LastIn
      <4>4. Last(S) <= c /\ c <= Last(S) /\ Last(S) \in Nat
        BY <4>2, <4>3
      <4>5. QED
        BY <4>1, <4>2, <4>4
    <3>8. HandledStarts(e)' # {} /\ LateEnds(e)' # {}
      BY <2>2, <2>5, <3>5
    <3>9. Expected(e)' = stream'[Last(LateEnds(e)')].status
      BY <3>8 DEF Expected, Last
    <3>10. QED
      BY <1>4, <1>8, <1>10, <3>1, <3>7, <3>9
  <2>6. QED
    BY <2>4, <2>5
<1>11. QED
  BY <1>3, <1>9, <1>10, ShapedForm, LevelForm

\* A row holds the same where no entry about it is recorded.
LEMMA ExactElsewhere ==
    ASSUME NEW e, Row(Level(e), e) = Expected(e), Row(Level(e), e)' = Row(Level(e), e),
           HandledStarts(e)' = HandledStarts(e), HandledEnds(e)' = HandledEnds(e),
           \A m \in HandledEnds(e) : stream'[m] = stream[m],
           LateEnds(e) # {} => Last(LateEnds(e)) \in LateEnds(e)
    PROVE  Row(Level(e), e)' = Expected(e)'
<1>0. LateEnds(e)' = LateEnds(e) /\ LateEnds(e) \subseteq HandledEnds(e)
  BY DEF LateEnds
<1>1. CASE LateEnds(e) = {} \/ HandledStarts(e) = {}
  BY <1>0, <1>1 DEF Expected
<1>2. CASE LateEnds(e) # {} /\ HandledStarts(e) # {}
  <2>1. PICK n : n = Last(LateEnds(e))
    OBVIOUS
  <2>2. Last(LateEnds(e)') = n
    BY <1>0, <2>1
  <2>3. stream'[n] = stream[n]
    BY <1>0, <1>2, <2>1
  <2>4. Expected(e) = stream[n].status
    BY <1>2, <2>1 DEF Expected
  <2>5. Expected(e)' = stream'[Last(LateEnds(e)')].status
    BY <1>0, <1>2 DEF Expected, Last
  <2>6. QED
    BY <2>2, <2>3, <2>4, <2>5
<1>3. QED
  BY <1>1, <1>2

\* The last of some entries is one of them.
LEMMA LastHandled ==
    ASSUME SInv, NEW e, LateEnds(e) # {}
    PROVE  Last(LateEnds(e)) \in LateEnds(e)
<1>1. added \in Nat /\ LateEnds(e) \subseteq 1..added
  BY Numbers DEF SInv, IInv, LateEnds, HandledEnds, About
<1>2. LateEnds(e) \in SUBSET Nat /\ \A n \in LateEnds(e) : n <= added
  BY <1>1
<1>3. QED
  BY <1>1, <1>2, LastIn

\* Where nothing is recorded, the rows that were exact stay so.
LEMMA ExactUnrecorded ==
    ASSUME SInv, [ServiceNext]_allVars, UNCHANGED <<tables, historyVars>>, NEW e \in Shaped,
           Row(Level(e), e) = Expected(e)
    PROVE  Row(Level(e), e)' = Expected(e)'
<1>1. /\ added' \in {added, added + 1} /\ added \in Nat /\ \A n \in 1..added : stream'[n] = stream[n]
      /\ added' = added + 1 => successes[added + 1] = 0
      /\ successes' = successes
  BY StreamWays, NewEntry DEF historyVars
<1>2. \A n \in 1..added' : n \notin 1..added => ~(successes'[n] > 0)
  <2>1. \A n \in 1..added' : n \notin 1..added => n = added + 1 /\ added' = added + 1
    BY <1>1
  <2>2. QED
    BY <1>1, <2>1
<1>3. 1..added \subseteq 1..added'
  BY <1>1
<1>4. ASSUME NEW n
      PROVE  /\ n \in HandledStarts(e)' <=> n \in HandledStarts(e)
             /\ n \in HandledEnds(e)' <=> n \in HandledEnds(e)
  <2>1. /\ n \in HandledStarts(e) <=>
             n \in 1..added /\ SameRow(e, stream[n]) /\ IsStart(stream[n]) /\ successes[n] > 0
        /\ n \in HandledEnds(e) <=>
             n \in 1..added /\ SameRow(e, stream[n]) /\ IsEnd(stream[n]) /\ successes[n] > 0
    BY AboutRow DEF HandledStarts, HandledEnds
  <2>2. /\ n \in HandledStarts(e)' <=>
             n \in 1..added' /\ SameRow(e, stream'[n]) /\ IsStart(stream'[n]) /\ successes'[n] > 0
        /\ n \in HandledEnds(e)' <=>
             n \in 1..added' /\ SameRow(e, stream'[n]) /\ IsEnd(stream'[n]) /\ successes'[n] > 0
    BY DEF HandledStarts, HandledEnds, About, SameRow
  <2>3. QED
    BY <1>1, <1>2, <1>3, <2>1, <2>2
<1>5. HandledStarts(e)' = HandledStarts(e) /\ HandledEnds(e)' = HandledEnds(e)
  BY <1>4 DEF HandledStarts, HandledEnds, About
<1>6. \A m \in HandledEnds(e) : stream'[m] = stream[m]
  BY <1>1 DEF HandledEnds, About
<1>7. Row(Level(e), e)' = Row(Level(e), e)
  BY DEF Row, tables
<1>8. QED
  BY <1>5, <1>6, <1>7, ExactElsewhere, LastHandled

\* Where another row's entry is recorded, too.
LEMMA ExactOther ==
    ASSUME SInv, OwnInv, NEW e \in Shaped, Row(Level(e), e) = Expected(e),
           UNCHANGED <<stream, added>>, NEW c \in 1..added, c \notin About(Level(e), e),
           Accepted(c, stream[c]) \/ Refused(c, stream[c])
    PROVE  Row(Level(e), e)' = Expected(e)'
<1>1. PICK f : f = stream[c]
  OBVIOUS
<1>2. ~SameRow(e, f)
  BY <1>1, AboutRow
<1>3. Row(Level(e), e)' = Row(Level(e), e)
  <2>1. CASE UNCHANGED tables
    BY <2>1 DEF Row, tables
  <2>2. ASSUME NEW ok \in BOOLEAN, Record(f, ok) PROVE Row(Level(e), e)' = Row(Level(e), e)
    <3>1. CASE ~ok
      BY <2>1, <2>2, <3>1, RecordRefuses
    <3>2. CASE f \in ForeignEvents
      BY <2>1, <2>2, <3>2, RecordForeign DEF SInv
    <3>3. CASE ok /\ f \notin ForeignEvents
      <4>1. f \in Shaped
        BY <1>1, <3>3 DEF OwnInv
      <4>2. Record(f, TRUE)
        BY <2>2, <3>3
      <4>3. QED
        BY <1>2, <4>1, <4>2, RecordOwn DEF SInv
    <3>4. QED
      BY <3>1, <3>2, <3>3
  <2>3. QED
    BY <1>1, <2>1, <2>2 DEF Accepted, Refused
<1>4. 1..added \subseteq Entries
  BY Numbers DEF SInv, IInv, Entries
<1>5. \A m \in 1..added : m # c => successes'[m] = successes[m]
  BY <1>4 DEF Accepted, Refused
<1>6. About(Level(e), e)' = About(Level(e), e) /\ About(Level(e), e) \subseteq 1..added
  BY DEF About
<1>7. HandledStarts(e)' = HandledStarts(e) /\ HandledEnds(e)' = HandledEnds(e)
  BY <1>5, <1>6 DEF HandledStarts, HandledEnds
<1>8. QED
  BY <1>3, <1>7, ExactElsewhere, LastHandled

\* Rows without trouble stay exact.
LEMMA ExactKeeps ==
    ASSUME SInv, OwnInv, OrderInv, BatchOrder, ForeignInv, RowInv, ExactInv, [ServiceNext]_allVars
    PROVE  ExactInv'
<1> SUFFICES ASSUME NEW e \in Shaped, (\A m \in About(Level(e), e) : Smooth(m))'
             PROVE  Row(Level(e), e)' = Expected(e)'
  BY DEF ExactInv
<1>0. IInv /\ Step /\ 1..added \subseteq Entries
  BY ServiceIsStep, NewEntry DEF SInv, IInv
<1>1. About(Level(e), e) \subseteq About(Level(e), e)'
  <2>1. 1..added \subseteq 1..added' /\ \A n \in 1..added : stream'[n] = stream[n]
    BY StreamWays
  <2>2. QED
    BY <2>1 DEF About
<1>2. ASSUME NEW m \in About(Level(e), e) PROVE Smooth(m) /\ Smooth(m)'
  <2>1. Smooth(m)' /\ m \in Entries
    BY <1>0, <1>1, <1>2, AboutRow
  <2>2. QED
    BY <1>0, <2>1, SmoothBefore
<1>3. Row(Level(e), e) = Expected(e)
  BY <1>2 DEF ExactInv
<1>4. CASE UNCHANGED <<tables, historyVars>>
  BY <1>3, <1>4, ExactUnrecorded
<1>5. ASSUME UNCHANGED <<stream, added>>, NEW c \in batch[recorder], c \in 1..added, c \notin Malformed,
             Accepted(c, stream[c]) \/ Refused(c, stream[c])
      PROVE  Row(Level(e), e)' = Expected(e)'
  <2>1. CASE c \notin About(Level(e), e)
    BY <1>3, <1>5, <2>1, ExactOther
  <2>2. CASE c \in About(Level(e), e)
    <3>1. Smooth(c) /\ failures'[c] = 0
      BY <1>2, <2>2 DEF Smooth
    <3>2. Accepted(c, stream[c])
      BY <1>5, <3>1 DEF Refused
    <3>3. QED
      BY <1>3, <1>5, <2>2, <3>1, <3>2, ExactHandled
  <2>3. QED
    BY <2>1, <2>2
<1>6. QED
  BY <1>4, <1>5, HandlingWays
-----------------------------------------------------------------------------
(* The theorems.                                                           *)

\* The invariant holds when the process starts.
LEMMA RowsInitHolds ==
    ASSUME ServiceInit
    PROVE  RInv
<1>1. SInv
  BY ServiceInitHolds
<1>2. /\ added = 0 /\ pending = {} /\ delivered = 0 /\ batch = [i \in Instances |-> {}]
      /\ successes = [n \in Entries |-> 0]
  BY DEF ServiceInit, Init
<1>3. 1..added = {}
  BY <1>2
<1>4. ClosedInv /\ AttemptedInv
  <2>1. Closed = {}
    BY <1>2, ConsumerAssumption DEF Closed, Entries
  <2>2. QED
    BY <1>2, <2>1 DEF ClosedInv, AttemptedInv
<1>5. OwnInv /\ OrderInv /\ ForeignInv /\ RowInv
  BY <1>3 DEF OwnInv, OrderInv, ForeignInv, RowInv
<1>6. BatchOrder
  BY <1>2, RecorderIn DEF BatchOrder
<1>7. ASSUME NEW e \in Shaped PROVE Row(Level(e), e) = Expected(e)
  <2>1. HandledStarts(e) = {}
    BY <1>3 DEF HandledStarts, About
  <2>2. Expected(e) = None
    BY <2>1 DEF Expected
  <2>3. Row(Level(e), e) = None
    BY ShapedForm, RowAt DEF ServiceInit, StoreInit, JobKeys, StepKeys
  <2>4. QED
    BY <2>2, <2>3
<1>8. QED
  BY <1>1, <1>4, <1>5, <1>6, <1>7 DEF RInv, ExactInv

\* And every step keeps it.
LEMMA RowsInvariant == ServiceSpec => []RInv
<1>1. RInv /\ SInv' /\ [ServiceNext]_allVars => RInv'
  <2>1. SUFFICES ASSUME RInv, SInv', [ServiceNext]_allVars PROVE RInv'
    OBVIOUS
  <2>2. /\ SInv /\ ClosedInv /\ AttemptedInv /\ OwnInv /\ OrderInv
        /\ BatchOrder /\ ForeignInv /\ RowInv /\ ExactInv
    BY <2>1 DEF RInv
  <2>3. IInv /\ Step
    BY <2>1, <2>2, ServiceIsStep DEF SInv, IInv
  <2>4. ClosedInv' /\ AttemptedInv' /\ BatchOrder'
    BY <2>2, <2>3, ClosedKeeps, AttemptedKeeps, BatchOrderKeeps
  <2>5. OwnInv' /\ OrderInv'
    BY <2>1, <2>2, OwnKeeps, OrderKeeps
  <2>6. ForeignInv' /\ RowInv' /\ ExactInv'
    BY <2>1, <2>2, ForeignKeeps, RowKeeps, ExactKeeps
  <2>7. QED
    BY <2>1, <2>4, <2>5, <2>6 DEF RInv
<1>2. QED
  BY RowsInitHolds, <1>1, ServiceInvariant, PTL DEF ServiceSpec

\* Each older entry that ran into no trouble has been handled.
LEMMA OlderHandled ==
    ASSUME RInv, pc[recorder] = "handle", NEW m \in 1..added, m < Current(recorder),
           trimmed < m, Smooth(m), m \notin Malformed
    PROVE  successes[m] > 0
<1>1. /\ IInv /\ ClosedInv /\ AttemptedInv /\ TypeOK
      /\ m \in Entries /\ Entries \subseteq Nat /\ delivered \in Nat
  BY Numbers DEF RInv, SInv, IInv, Entries
<1>2. /\ Current(recorder) \in 1..delivered /\ Current(recorder) \in Nat
      /\ \A f \in batch[recorder] : Current(recorder) <= f /\ f \in Nat
  <2>1. batch[recorder] # {}
    BY <1>1, RecorderIn DEF IInv, BatchInv, Working
  <2>2. batch[recorder] \subseteq 1..delivered
    BY <1>1, RecorderIn DEF TypeOK
  <2>3. QED
    BY <1>1, <2>1, <2>2, CurrentIn, RecorderIn
<1>3. m <= delivered /\ m \notin batch[recorder]
  BY <1>1, <1>2
<1>4. QED
  BY <1>1, <1>3, SmoothHandled

(***************************************************************************)
(* For any number of runs, jobs and steps, and any stream: the recorder    *)
(* misses a row only if the event that creates it never reached the stream *)
(* or was trimmed from it, or a delivery of that event has failed or been  *)
(* cut short (store.go:198-200); a step's start further on is one of a     *)
(* later step of the same name.                                            *)
(***************************************************************************)
THEOREM NoRowMissesUntroubled == ServiceSpec => []RowsMissOnlyAfterTrouble
<1>1. RInv => RowsMissOnlyAfterTrouble
  <2>1. SUFFICES ASSUME RInv, pc[recorder] = "handle", NEW c, c = Current(recorder),
                        NEW e, e = stream[c], e \notin ForeignEvents, NEW level \in Needs(e),
                        NEW m \in Starts(level, e), Smooth(m), ~(m <= trimmed),
                        level # "step" \/ ~(c < m)
                 PROVE  Row(level, e) # None
    BY DEF RowsMissOnlyAfterTrouble
  <2>2. TypeOK /\ c \in 1..added /\ trimmed \in Nat /\ added \in Nat
    <3>1. TypeOK /\ c \in 1..delivered
      BY <2>1, RecorderIn, CurrentIn DEF RInv, SInv, IInv, BatchInv, Working
    <3>2. QED
      BY <3>1, Numbers
  <2>3. PICK f : f = stream[m]
    OBVIOUS
  <2>4. /\ m \in 1..added /\ IsStart(f) /\ Level(f) = level /\ f.run = e.run
        /\ level # "pipeline" => f.job = e.job
        /\ level = "step" => f.step = e.step
    BY <2>1, <2>3, AboutForm
  <2>5. e \in Shaped /\ m < c
    <3>1. e \in Shaped
      BY <2>1, <2>2 DEF RInv, OwnInv
    <3>2. level # "step" => m < c
      BY <2>1, <2>2 DEF RInv, OrderInv
    <3>3. level = "step" => m # c
      BY <2>1, <2>3, <2>4, NeedsForm, LevelForm
    <3>4. QED
      BY <2>1, <2>2, <2>4, <3>1, <3>2, <3>3
  <2>6. f \notin ForeignEvents
    BY <2>4, <2>5, ShapedForm, ForeignAssumption DEF IsStart
  <2>7. m \notin Malformed /\ (successes[m] > 0 => Row(Level(f), f) # None)
    <3>1. OwnInv /\ RowInv
      BY <2>1 DEF RInv
    <3>2. stream[m] \notin ForeignEvents /\ IsStart(stream[m])
      BY <2>3, <2>4, <2>6
    <3>3. successes[m] > 0 => Row(Level(stream[m]), stream[m]) # None
      BY <2>4, <3>1, <3>2 DEF RowInv
    <3>4. QED
      BY <2>3, <2>4, <3>1, <3>2, <3>3 DEF OwnInv
  <2>8. successes[m] > 0
    BY <2>1, <2>2, <2>4, <2>5, <2>7, OlderHandled
  <2>9. Row(level, f) # None
    BY <2>4, <2>7, <2>8
  <2>10. Row(level, f) = Row(level, e)
    BY <2>1, <2>4, NeedsForm DEF Row
  <2>11. QED
    BY <2>9, <2>10
<1>2. QED
  BY <1>1, RowsInvariant, PTL

(***************************************************************************)
(* For any number of runs, jobs and steps, and any stream: a row whose own *)
(* events were all handled at their first delivery holds the last of them  *)
(* that came after its first start, whatever trouble other rows' events    *)
(* ran into and though steps share their name (store.go:189).              *)
(***************************************************************************)
THEOREM UntroubledRowsAreExact == ServiceSpec => []SmoothRowsAreExact
<1>1. RInv => SmoothRowsAreExact
  <2>1. SUFFICES ASSUME RInv, NEW n \in 1..added, stream[n] \notin ForeignEvents,
                        NEW e, e = stream[n], Starts(Level(e), e) # {},
                        \A m \in About(Level(e), e) : Smooth(m) /\ successes[m] = 1,
                        NEW ends, ends = {m \in About(Level(e), e) :
                                             IsEnd(stream[m]) /\ \E s \in Starts(Level(e), e) : s < m}
                 PROVE  Row(Level(e), e) = IF ends = {} THEN "pending" ELSE stream[Last(ends)].status
    BY DEF SmoothRowsAreExact
  <2>2. e \in Shaped
    BY <2>1 DEF RInv, OwnInv
  <2>3. Row(Level(e), e) = Expected(e)
    BY <2>1, <2>2 DEF RInv, ExactInv
  <2>4. HandledStarts(e) = Starts(Level(e), e) /\ LateEnds(e) = ends
    <3>1. HandledStarts(e) = Starts(Level(e), e)
      BY <2>1 DEF HandledStarts, Starts
    <3>2. HandledEnds(e) = {m \in About(Level(e), e) : IsEnd(stream[m])}
      BY <2>1 DEF HandledEnds
    <3>3. QED
      BY <2>1, <3>1, <3>2 DEF LateEnds
  <2>5. QED
    BY <2>1, <2>3, <2>4 DEF Expected
<1>2. QED
  BY <1>1, RowsInvariant, PTL
=============================================================================
