------------------------------ MODULE Consumer ------------------------------
(***************************************************************************)
(* internal/consumer: the instances of one service, subscribed to the      *)
(* event stream through one Redis consumer group.  Every Redis call and    *)
(* every call of the handler is a step of its own, so that another         *)
(* instance, a crash, a shutdown or a lost answer can come in between.     *)
(*                                                                         *)
(* An entry is its position in the stream.  Its envelope matters only for  *)
(* whether it parses (Malformed).  The pending entries list keeps, per     *)
(* entry, the delivery count (attempts) and whether it has been idle for   *)
(* MinIdle (stale).  The redelivery of trimmed entries follows Redis 7     *)
(* (RUNBOOK.md:57): XAUTOCLAIM drops them from the pending list.           *)
(***************************************************************************)
EXTENDS Naturals, FiniteSets

CONSTANTS
    Instances,      \* the instances of the service, each a process
    NumEntries,     \* bound: entries ever published
    Malformed,      \* entries whose envelope is missing or does not parse
    MaxAttempts,    \* opts.MaxAttempts
    ReadCount,      \* XREADGROUP's Count, 10 in the code
    ClaimCount,     \* XAUTOCLAIM's Count, 64 in the code
    MaxLen,         \* bus.maxStreamLen, 100000 in the code
    MaxTrouble      \* bound: failing calls, crashes and shutdowns in total

ASSUME ConsumerAssumption ==
    /\ NumEntries \in Nat /\ Malformed \subseteq 1..NumEntries
    /\ MaxAttempts \in Nat \ {0} /\ ReadCount \in Nat \ {0}
    /\ ClaimCount \in Nat \ {0} /\ MaxLen \in Nat \ {0} /\ MaxTrouble \in Nat

VARIABLES
    \* Redis.
    added, trimmed, \* the stream holds the entries trimmed+1..added
    delivered,      \* the group's last delivered entry
    pending,        \* the group's pending entries
    attempts,       \* delivery count of an entry, counted up to MaxAttempts + 1
    stale,          \* pending entries idle for MinIdle
    dead,           \* entries with a copy in the dead-letter stream
    \* The instances.
    pc,             \* the call Run is about to make
    ctxDone,        \* its context is cancelled
    batch,          \* entries read or claimed and not yet dealt with, oldest first
    claiming,       \* the batch comes from recoverStuck
    start,          \* where its claim scan goes on, 0 when it is complete
    \* What happened.
    trouble,        \* failures so far
    successes,      \* nil returns of the handler, counted up to 2
    failures,       \* errors of the handler, counted up to MaxAttempts + 1
    interrupted     \* entries some delivery of which was cut short

streamVars   == <<added, trimmed>>
groupVars    == <<delivered, pending, attempts, stale>>
localVars    == <<batch, claiming, start>>
historyVars  == <<successes, failures>>
vars == <<streamVars, groupVars, dead, pc, ctxDone, localVars, trouble,
          historyVars, interrupted>>

Entries == 1..NumEntries

Labels == {"down", "group", "loop", "claim", "check", "read", "backoff",
           "handle", "ack", "range", "copy", "returned"}

Init ==
    /\ added = 0 /\ trimmed = 0 /\ delivered = 0
    /\ pending = {} /\ stale = {} /\ dead = {}
    /\ attempts = [e \in Entries |-> 0]
    /\ pc = [i \in Instances |-> "group"]
    /\ ctxDone = [i \in Instances |-> FALSE]
    /\ batch = [i \in Instances |-> {}]
    /\ claiming = [i \in Instances |-> FALSE]
    /\ start = [i \in Instances |-> 0]
    /\ trouble = 0
    /\ successes = [e \in Entries |-> 0]
    /\ failures = [e \in Entries |-> 0]
    /\ interrupted = {}

-----------------------------------------------------------------------------
(* A call under Run's context: it works, or it fails because the context   *)
(* is done or Redis is in trouble.  A call that fails may have been        *)
(* carried out: only its answer is lost.                                   *)

Works(i) == ~ctxDone[i] /\ UNCHANGED trouble

Trouble == trouble < MaxTrouble /\ trouble' = trouble + 1

Fails(i) == IF ctxDone[i] THEN UNCHANGED trouble ELSE Trouble

Goto(i, label) == pc' = [pc EXCEPT ![i] = label]

Interrupt(S) == interrupted' = interrupted \cup S

CountUp(count, cap) == IF count = cap THEN count ELSE count + 1

\* The n oldest entries of S.
Oldest(S, n) == {e \in S : Cardinality({f \in S : f < e}) < n}

First(S) == CHOOSE e \in S : \A f \in S : e <= f
Last(S) == CHOOSE e \in S : \A f \in S : f <= e

\* Seeded fault: the claim asks for the ids only, which counts no delivery.
Redeliver_JustID(S) ==
    /\ attempts' = attempts
    /\ stale' = stale \ S

\* The entries of S are given to an instance once more.
Redeliver(S) ==
    /\ attempts' = [e \in Entries |->
          IF e \in S THEN CountUp(attempts[e], MaxAttempts + 1) ELSE attempts[e]]
    /\ stale' = stale \ S

\* XACK: a no-op when the entry is not pending.
XAck(e) ==
    /\ pending' = pending \ {e}
    /\ stale' = stale \ {e}
    /\ UNCHANGED <<delivered, attempts>>

Current(i) == First(batch[i])

\* On to the next entry of the batch, to the next page, to the read, or back
\* to the head of the loop.
NextEntry(i) ==
    LET rest == batch[i] \ {Current(i)} IN
    /\ batch' = [batch EXCEPT ![i] = rest]
    /\ Goto(i, CASE rest # {} /\ claiming[i] -> "check"
                 [] rest # {} /\ ~claiming[i] -> "handle"
                 [] rest = {} /\ ~claiming[i] -> "loop"
                 [] OTHER -> IF start[i] = 0 THEN "read" ELSE "claim")
    /\ UNCHANGED <<claiming, start>>

-----------------------------------------------------------------------------
(* The publisher, time and the processes.                                  *)

\* XADD with approximate trimming: what exceeds MaxLen may go.
Publish ==
    /\ added < NumEntries
    /\ added' = added + 1
    /\ trimmed' \in {t \in trimmed..added : t = trimmed \/ t + MaxLen <= added + 1}
    /\ UNCHANGED <<groupVars, dead, pc, ctxDone, localVars, trouble,
                   historyVars, interrupted>>

Age(e) ==
    /\ e \in pending \ stale
    /\ stale' = stale \cup {e}
    /\ UNCHANGED <<streamVars, delivered, pending, attempts, dead, pc, ctxDone,
                   localVars, trouble, historyVars, interrupted>>

\* The process ends, wherever the goroutine of Run is.
Die(i) ==
    /\ pc[i] # "down"
    /\ Goto(i, "down")
    /\ batch' = [batch EXCEPT ![i] = {}]
    /\ Interrupt(batch[i])
    /\ UNCHANGED <<streamVars, groupVars, dead, ctxDone, claiming, start, historyVars>>

Crash(i) == Trouble /\ Die(i)

\* SIGTERM.  A server whose recorder is gone runs on until it is stopped.
Stop(i) ==
    /\ pc[i] # "down" /\ ~ctxDone[i]
    /\ IF pc[i] = "returned" THEN UNCHANGED trouble ELSE Trouble
    /\ ctxDone' = [ctxDone EXCEPT ![i] = TRUE]
    /\ UNCHANGED <<streamVars, groupVars, dead, pc, localVars, historyVars, interrupted>>

Restart(i) ==
    /\ pc[i] = "down" \/ (pc[i] = "returned" /\ ctxDone[i])
    /\ Goto(i, "group")
    /\ ctxDone' = [ctxDone EXCEPT ![i] = FALSE]
    /\ UNCHANGED <<streamVars, groupVars, dead, localVars, trouble, historyVars, interrupted>>

-----------------------------------------------------------------------------
(* Run.                                                                    *)

\* An error other than BUSYGROUP ends Run.
ensureGroup(i) ==
    /\ pc[i] = "group"
    /\ \/ Works(i) /\ Goto(i, "loop")
       \/ Fails(i) /\ Goto(i, "returned")
    /\ UNCHANGED <<streamVars, groupVars, dead, ctxDone, localVars, historyVars, interrupted>>

loopHead(i) ==
    /\ pc[i] = "loop"
    /\ Goto(i, IF ctxDone[i] THEN "returned" ELSE "claim")
    /\ start' = [start EXCEPT ![i] = 0]
    /\ UNCHANGED <<streamVars, groupVars, dead, ctxDone, batch, claiming, trouble,
                   historyVars, interrupted>>

\* Seeded fault: the group's position is read but not moved.
XReadGroup_Stays(new) ==
    /\ delivered' = delivered
    /\ pending' = pending \cup new
    /\ Redeliver(new)

\* XREADGROUP ">".  Trimmed entries are skipped.
XReadGroup(new) ==
    /\ delivered' = IF new = {} THEN delivered ELSE Last(new)
    /\ pending' = pending \cup new
    /\ Redeliver(new)

Unread == {e \in Entries : delivered < e /\ trimmed < e /\ e <= added}

readNew(i) ==
    LET new == Oldest(Unread, ReadCount) IN
    /\ pc[i] = "read"
    /\ \/ /\ Works(i)
          /\ XReadGroup(new)
          /\ batch' = [batch EXCEPT ![i] = new]
          /\ claiming' = [claiming EXCEPT ![i] = FALSE]
          /\ Goto(i, IF new = {} THEN "loop" ELSE "handle")
          /\ UNCHANGED interrupted
       \/ /\ Fails(i)
          /\ \/ XReadGroup(new) /\ Interrupt(new)
             \/ UNCHANGED <<groupVars, interrupted>>
          /\ Goto(i, IF ctxDone[i] THEN "loop" ELSE "backoff")
          /\ UNCHANGED <<batch, claiming>>
    /\ UNCHANGED <<streamVars, dead, ctxDone, start, historyVars>>

backoff(i) ==
    /\ pc[i] = "backoff"
    /\ Goto(i, IF ctxDone[i] THEN "returned" ELSE "loop")
    /\ UNCHANGED <<streamVars, groupVars, dead, ctxDone, localVars, trouble,
                   historyVars, interrupted>>

-----------------------------------------------------------------------------
(* recoverStuck and recoverOne.                                            *)

(***************************************************************************)
(* One page of XAUTOCLAIM, from the scan's start: the pending entries that *)
(* are idle are claimed, those no longer in the stream are dropped.  An    *)
(* entry that another instance still holds is overtaken.                   *)
(***************************************************************************)
Page(i) ==
    Oldest({e \in pending : start[i] <= e /\ (e \in stale \/ e <= trimmed)}, ClaimCount)

Claimed(i) == {e \in Page(i) : trimmed < e}

PageEnd(i) ==
    LET rest == {e \in pending \ Page(i) : \A f \in Page(i) : f < e}
    IN  IF Cardinality(Page(i)) < ClaimCount \/ rest = {} THEN 0
        ELSE First(rest)

XAutoClaim(i) ==
    /\ pending' = pending \ (Page(i) \ Claimed(i))
    /\ Redeliver(Page(i))
    /\ UNCHANGED delivered

recoverStuck(i) ==
    /\ pc[i] = "claim"
    /\ \/ /\ Works(i)
          /\ XAutoClaim(i)
          /\ batch' = [batch EXCEPT ![i] = Claimed(i)]
          /\ claiming' = [claiming EXCEPT ![i] = TRUE]
          /\ start' = [start EXCEPT ![i] = PageEnd(i)]
          /\ Goto(i, IF Claimed(i) # {} THEN "check"
                     ELSE IF PageEnd(i) = 0 THEN "read" ELSE "claim")
          /\ Interrupt(Page(i) \cap UNION {batch[j] : j \in Instances \ {i}})
       \/ /\ Fails(i)
          /\ \/ XAutoClaim(i) /\ Interrupt(Page(i))
             \/ UNCHANGED <<groupVars, interrupted>>
          /\ Goto(i, "read")
          /\ UNCHANGED localVars
    /\ UNCHANGED <<streamVars, dead, ctxDone, historyVars>>

\* Seeded fault: the first delivery is not counted among the attempts.
Exhausted_OneEarly(e) == e \in pending /\ attempts[e] >= MaxAttempts

\* What XPENDING reports of the entry.
Exhausted(e) == e \in pending /\ attempts[e] > MaxAttempts

recoverOne(i) ==
    /\ pc[i] = "check"
    /\ \/ /\ Works(i)
          /\ Goto(i, IF Exhausted(Current(i)) THEN "range" ELSE "handle")
          /\ UNCHANGED <<localVars, interrupted>>
       \/ /\ Fails(i)
          /\ Interrupt({Current(i)})
          /\ NextEntry(i)
    /\ UNCHANGED <<streamVars, groupVars, dead, ctxDone, historyVars>>

-----------------------------------------------------------------------------
(* handle, deadLetterEntry and deadLetter.                                 *)

\* Seeded fault: only entries read are acknowledged, not those claimed.
Succeed_AckIfRead(i) == IF claiming[i] THEN NextEntry(i) ELSE Goto(i, "ack") /\ UNCHANGED localVars

Succeed(i) == Goto(i, "ack") /\ UNCHANGED localVars

\* Seeded fault: an event whose handler failed is acknowledged.
HandlerFailed_Ack(i) == Goto(i, "ack") /\ UNCHANGED localVars

HandlerFailed(i) == NextEntry(i)

\* The handler's answer: nil, or an error.
handlerReturns(i, ok) ==
    LET e == Current(i) IN
    /\ pc[i] = "handle" /\ e \notin Malformed
    /\ \/ /\ ok
          /\ successes' = [successes EXCEPT ![e] = CountUp(@, 2)]
          /\ Succeed(i)
          /\ UNCHANGED failures
       \/ /\ ~ok
          /\ failures' = [failures EXCEPT ![e] = CountUp(@, MaxAttempts + 1)]
          /\ HandlerFailed(i)
          /\ UNCHANGED successes
    /\ UNCHANGED <<streamVars, groupVars, dead, ctxDone, interrupted>>

\* An entry that cannot be parsed goes to deadLetterEntry without a handler.
parseFails(i) ==
    /\ pc[i] = "handle" /\ Current(i) \in Malformed
    /\ Goto(i, "copy")
    /\ UNCHANGED <<streamVars, groupVars, dead, ctxDone, localVars, trouble,
                   historyVars, interrupted>>

handle(i) ==
    \/ parseFails(i)
    \/ \E ok \in BOOLEAN : handlerReturns(i, ok) /\ UNCHANGED trouble

\* XACK, of an entry handled or dead-lettered.
acknowledge(i) ==
    /\ pc[i] = "ack"
    /\ \/ Works(i) /\ XAck(Current(i)) /\ UNCHANGED interrupted
       \/ /\ Fails(i)
          /\ XAck(Current(i)) \/ UNCHANGED groupVars
          /\ Interrupt({Current(i)})
    /\ NextEntry(i)
    /\ UNCHANGED <<streamVars, dead, ctxDone, historyVars>>

\* deadLetter's XRANGE: an entry trimmed by now has nothing to copy.
deadLetter(i) ==
    /\ pc[i] = "range"
    /\ \/ /\ Works(i)
          /\ Goto(i, IF trimmed < Current(i) THEN "copy" ELSE "ack")
          /\ UNCHANGED localVars
       \/ Fails(i) /\ NextEntry(i)
    /\ UNCHANGED <<streamVars, groupVars, dead, ctxDone, historyVars, interrupted>>

\* Seeded fault: a failed copy does not keep the entry from being closed.
CopyFailed_AckAnyway(i) == Goto(i, "ack") /\ UNCHANGED localVars

CopyFailed(i) == NextEntry(i)

\* XADD to the dead-letter stream.
deadLetterEntry(i) ==
    /\ pc[i] = "copy"
    /\ \/ /\ Works(i)
          /\ dead' = dead \cup {Current(i)}
          /\ Goto(i, "ack")
          /\ UNCHANGED localVars
       \/ /\ Fails(i)
          /\ dead' = dead \cup {Current(i)} \/ UNCHANGED dead
          /\ CopyFailed(i)
    /\ UNCHANGED <<streamVars, groupVars, ctxDone, historyVars, interrupted>>

-----------------------------------------------------------------------------
RunStep(i) ==
    \/ ensureGroup(i) \/ loopHead(i) \/ readNew(i) \/ backoff(i)
    \/ recoverStuck(i) \/ recoverOne(i)
    \/ handle(i) \/ acknowledge(i) \/ deadLetter(i) \/ deadLetterEntry(i)

Next ==
    \/ Publish
    \/ \E e \in Entries : Age(e)
    \/ \E i \in Instances : Crash(i) \/ Stop(i) \/ Restart(i) \/ RunStep(i)

(***************************************************************************)
(* The goroutine of Run goes on while its process is up: XREADGROUP blocks *)
(* for at most opts.Block, and the handler returns (it is one SQL          *)
(* statement or two, or a print).  Time passes.  Nobody has to publish, to *)
(* stop or to restart anything.                                            *)
(***************************************************************************)
Fairness ==
    /\ \A i \in Instances : WF_vars(RunStep(i))
    /\ \A e \in Entries : WF_vars(Age(e))

Spec == Init /\ [][Next]_vars /\ Fairness

-----------------------------------------------------------------------------
(* Properties.                                                             *)

(***************************************************************************)
(* Every variable has its type.                                            *)
(***************************************************************************)
TypeOK ==
    /\ added \in 0..NumEntries /\ trimmed \in 0..added /\ delivered \in 0..added
    /\ pending \subseteq 1..delivered /\ stale \subseteq pending
    /\ dead \subseteq 1..delivered /\ interrupted \subseteq 1..delivered
    /\ attempts \in [Entries -> 0..(MaxAttempts + 1)]
    /\ pc \in [Instances -> Labels]
    /\ ctxDone \in [Instances -> BOOLEAN] /\ claiming \in [Instances -> BOOLEAN]
    /\ batch \in [Instances -> SUBSET (1..delivered)]
    /\ start \in [Instances -> 0..NumEntries]
    /\ trouble \in 0..MaxTrouble
    /\ successes \in [Entries -> 0..2]
    /\ failures \in [Entries -> 0..(MaxAttempts + 1)]

Handled == {e \in Entries : successes[e] > 0}
Settled == Handled \cup dead
Closed == {e \in Entries : e <= delivered /\ e \notin pending}

(***************************************************************************)
(* No crash, shutdown, lost answer or second instance makes the group give *)
(* up an entry that is neither handled nor dead-lettered nor trimmed; what *)
(* it is done with stays so (consumer.go:2, 204-207, 225-226).             *)
(***************************************************************************)
Promise == INSTANCE AtLeastOnce WITH settled <- Settled, closed <- Closed
ImplementsAtLeastOnce == Promise!Spec

(***************************************************************************)
(* An event is dead-lettered after exactly MaxAttempts failures of its     *)
(* handler, unless a delivery of it was cut short by a crash, a failed     *)
(* call or another instance (consumer.go:194-196).                         *)
(***************************************************************************)
AttemptsExact ==
    \A e \in dead \ (Malformed \cup interrupted) : failures[e] = MaxAttempts

(***************************************************************************)
(* An entry has one outcome, unless a delivery of it was cut short: it is  *)
(* not handled twice, nor handled and dead-lettered (consumer.go:269-275). *)
(***************************************************************************)
OneOutcome ==
    \A e \in Entries \ interrupted :
        successes[e] <= 1 /\ ~(successes[e] = 1 /\ e \in dead)

StaysUp(i) == <>[](pc[i] \notin {"down", "returned"} /\ ~ctxDone[i])

(***************************************************************************)
(* While one instance stays up, every event is handled or dead-lettered    *)
(* (or trimmed), wherever the others crashed with it, whatever the handler *)
(* says and however many pages the recovery takes: a poison event does not *)
(* wedge the group (consumer.go:154-158, 223-226).                         *)
(***************************************************************************)
EveryEntrySettles ==
    (\E i \in Instances : StaysUp(i)) =>
        \A e \in Entries : (e <= added) ~> (e \in Settled \/ e <= trimmed)

(***************************************************************************)
(* What the comments say beyond that.                                      *)
(***************************************************************************)

(***************************************************************************)
(* consumer.go:195: "dead-letter only when handling has actually exceeded  *)
(* MaxAttempts".                                                           *)
(***************************************************************************)
DeadLetterOnlyExhausted ==
    \A e \in dead \ Malformed : failures[e] >= MaxAttempts
=============================================================================
