--------------------------- MODULE ConsumerProofs ---------------------------
(***************************************************************************)
(* The stream consumer, for any number of instances and entries and any    *)
(* amount of trouble: its types, its promise AtLeastOnce, and what it does *)
(* to an entry no delivery of which was cut short.                         *)
(***************************************************************************)
EXTENDS Consumer, FiniteSetTheorems, WellFoundedInduction, TLAPS

-----------------------------------------------------------------------------
(* The invariant.                                                          *)

\* An instance has a batch exactly while it works on an entry of it.
Working == {"check", "handle", "ack", "range", "copy"}

BatchInv ==
    \A i \in Instances :
        /\ pc[i] \in Working <=> batch[i] # {}
        /\ pc[i] \in {"check", "range"} => claiming[i]

\* Nothing is known of an entry that was never delivered.
UnreadInv ==
    \A e \in Entries : delivered < e =>
        attempts[e] = 0 /\ failures[e] = 0 /\ successes[e] = 0

\* What is about to be acknowledged may be closed.
AckInv ==
    \A i \in Instances :
        pc[i] = "ack" => Current(i) \in Settled \/ Current(i) <= trimmed

Acking(i, e) == e \in batch[i] /\ pc[i] = "ack" /\ e = Current(i)
Active(i, e) == e \in batch[i] /\ ~(pc[i] = "ack" /\ e = Current(i))

\* One instance has the entry, it is pending, and a success closes it.
HolderInv(e) ==
    /\ \A i, j \in Instances : e \in batch[i] /\ e \in batch[j] => i = j
    /\ \A i \in Instances : e \in batch[i] => e \in pending
    /\ successes[e] <= 1
    /\ successes[e] = 1 => e \notin dead /\ (e \in pending => \E i \in Instances : Acking(i, e))

\* What is done with an entry being worked on fits its attempts.
CurrentInv(e) ==
    \A i \in Instances : e \in batch[i] /\ e = Current(i) =>
        /\ pc[i] = "handle" => attempts[e] <= MaxAttempts
        /\ pc[i] = "range" => attempts[e] > MaxAttempts
        /\ pc[i] = "copy" => e \in Malformed \/ attempts[e] > MaxAttempts

\* The attempts decide where the entry goes.
RouteInv(e) ==
    /\ e \in dead => e \in Malformed \/ attempts[e] > MaxAttempts
    /\ \A i \in Instances : e \in batch[i] /\ ~claiming[i] => attempts[e] <= MaxAttempts
    /\ CurrentInv(e)

\* Each attempt before the present one has failed.
CountInv(e) ==
    /\ e \in dead => failures[e] = MaxAttempts
    /\ \A i \in Instances : Active(i, e) => attempts[e] = failures[e] + 1
    /\ e \in pending /\ (\A i \in Instances : e \notin batch[i]) =>
          failures[e] = IF attempts[e] <= MaxAttempts THEN attempts[e] ELSE MaxAttempts

EntryInv(e) == HolderInv(e) /\ RouteInv(e) /\ (e \notin Malformed => CountInv(e))

UndisturbedInv == \A e \in Entries \ interrupted : EntryInv(e)

IInv == TypeOK /\ BatchInv /\ UnreadInv /\ AckInv /\ UndisturbedInv

-----------------------------------------------------------------------------
(* Facts about sets of entries.                                            *)

\* A set of naturals has a smallest element.
LEMMA Smallest ==
    ASSUME NEW S \in SUBSET Nat, S # {}
    PROVE  \E e \in S : \A f \in S : e <= f
<1>1. IsWellFoundedOn(OpToRel(<, Nat), Nat)
  BY NatLessThanWellFounded
<1>2. PICK e \in S : \A f \in S : ~(<<f, e>> \in OpToRel(<, Nat))
  BY <1>1, WFMin
<1>3. \A f \in S : ~(f < e)
  BY <1>2 DEF OpToRel
<1>4. QED
  BY <1>3

\* A bounded set of naturals has a largest element.
LEMMA Largest ==
    ASSUME NEW S \in SUBSET Nat, S # {}, NEW b \in Nat, \A e \in S : e <= b
    PROVE  \E e \in S : \A f \in S : f <= e
<1> DEFINE U == {n \in Nat : \A e \in S : e <= n}
<1>1. U \in SUBSET Nat /\ U # {}
  OBVIOUS
<1>2. PICK n \in U : \A m \in U : n <= m
  BY <1>1, Smallest
<1>3. ASSUME n \notin S PROVE FALSE
  <2>1. PICK e \in S : TRUE
    OBVIOUS
  <2>2. n # 0
    BY <1>2, <1>3, <2>1
  <2>3. n - 1 \in U
    BY <1>2, <1>3, <2>2
  <2>4. QED
    BY <1>2, <2>3
<1>4. QED
  BY <1>2, <1>3

\* First yields an element, and no later one.
LEMMA FirstIn ==
    ASSUME NEW S \in SUBSET Nat, S # {}
    PROVE  First(S) \in S /\ \A f \in S : First(S) <= f
BY Smallest DEF First

\* Last yields an element, and no earlier one.
LEMMA LastIn ==
    ASSUME NEW S \in SUBSET Nat, S # {}, NEW b \in Nat, \A e \in S : e <= b
    PROVE  Last(S) \in S /\ \A f \in S : f <= Last(S)
BY Largest DEF Last

\* The oldest entries leave no gap: what is older than one of them is one.
LEMMA OldestClosed ==
    ASSUME NEW S \in SUBSET Nat, NEW n \in Nat, NEW e \in Oldest(S, n), NEW f \in S, f < e
    PROVE  f \in Oldest(S, n)
<1> DEFINE Below(x) == {g \in S : g < x}
<1>1. e \in S /\ Cardinality(Below(e)) < n
  BY DEF Oldest
<1>2. IsFiniteSet(Below(e)) /\ Cardinality(Below(e)) \in Nat
  <2>1. \A g \in Below(e) : g <= e
    BY <1>1
  <2>2. Below(e) \in SUBSET Nat /\ e \in Nat
    BY <1>1
  <2> HIDE DEF Below
  <2>3. QED
    BY <2>1, <2>2, FS_BoundedSetOfNaturals, FS_CardinalityType
<1>3. Below(f) \in SUBSET Below(e)
  <2>1. \A g \in S : g < f => g < e
    BY <1>1
  <2>2. QED
    BY <2>1
<1>4. Cardinality(Below(f)) <= Cardinality(Below(e)) /\ Cardinality(Below(f)) \in Nat
  <2> HIDE DEF Below
  <2>1. QED
    BY <1>2, <1>3, FS_Subset, FS_CardinalityType
<1>5. Cardinality(Below(f)) < n
  BY <1>1, <1>2, <1>4
<1>6. QED
  BY <1>5 DEF Oldest

\* Of some entries, at least one is among the oldest.
LEMMA OldestSome ==
    ASSUME NEW S \in SUBSET Nat, S # {}, NEW n \in Nat \ {0}
    PROVE  Oldest(S, n) # {}
<1>1. PICK e \in S : \A f \in S : e <= f
  BY Smallest
<1>2. \A f \in S : ~(f < e)
  BY <1>1
<1>3. Cardinality({f \in S : f < e}) = 0
  BY <1>2, FS_EmptySet
<1>4. e \in Oldest(S, n)
  BY <1>3 DEF Oldest
<1>5. QED
  BY <1>4

-----------------------------------------------------------------------------
(* The steps, whatever they cost in trouble.  Other modules take these     *)
(* steps too, with publishers, handlers and processes of their own.        *)

Grows ==
    /\ added < NumEntries /\ added' = added + 1
    /\ trimmed' \in trimmed..added
    /\ UNCHANGED <<groupVars, dead, pc, ctxDone, localVars, historyVars, interrupted>>

Idles ==
    /\ stale' \subseteq pending
    /\ UNCHANGED <<streamVars, delivered, pending, attempts, dead, pc, ctxDone, localVars,
                   historyVars, interrupted>>

Signals ==
    /\ ctxDone' \in [Instances -> BOOLEAN]
    /\ UNCHANGED <<streamVars, groupVars, dead, pc, localVars, historyVars, interrupted>>

\* Steps outside a batch, which move the program counter or the scan.
Moves(i) == ensureGroup(i) \/ loopHead(i) \/ backoff(i) \/ Restart(i)

\* Steps that work on the current entry.
OnCurrent(i) ==
    \/ recoverOne(i) \/ parseFails(i) \/ (\E ok \in BOOLEAN : handlerReturns(i, ok))
    \/ acknowledge(i) \/ deadLetter(i) \/ deadLetterEntry(i)

Step ==
    /\ trouble' \in 0..MaxTrouble
    /\ \/ Grows \/ Idles \/ Signals
       \/ \E i \in Instances : Moves(i) \/ Die(i) \/ readNew(i) \/ recoverStuck(i) \/ OnCurrent(i)

\* A failing call costs at most the trouble there is left.
LEMMA TroubleTyped ==
    ASSUME TypeOK
    PROVE  /\ UNCHANGED trouble => trouble' \in 0..MaxTrouble
           /\ Trouble => trouble' \in 0..MaxTrouble
           /\ \A i \in Instances : Works(i) \/ Fails(i) => trouble' \in 0..MaxTrouble
BY ConsumerAssumption DEF TypeOK, Trouble, Works, Fails

\* Every step of the specification is one of them.
LEMMA NextIsStep ==
    ASSUME TypeOK, [Next]_vars
    PROVE  Step
<1> USE TroubleTyped
<1>1. CASE UNCHANGED vars
  BY <1>1 DEF vars, streamVars, groupVars, localVars, historyVars, Step, Signals, TypeOK
<1>2. CASE Publish
  BY <1>2 DEF Publish, Step, Grows, TypeOK
<1>3. ASSUME NEW e \in Entries, Age(e) PROVE Step
  BY <1>3 DEF Age, Step, Idles, TypeOK
<1>4. ASSUME NEW i \in Instances, Crash(i) PROVE Step
  BY <1>4 DEF Crash, Step
<1>5. ASSUME NEW i \in Instances, Stop(i) PROVE Step
  BY <1>5 DEF Stop, Step, Signals, TypeOK
<1>6. ASSUME NEW i \in Instances, Restart(i) PROVE Step
  BY <1>6 DEF Restart, Step, Moves
<1>7. ASSUME NEW i \in Instances, RunStep(i) PROVE Step
  <2>1. CASE ensureGroup(i) \/ loopHead(i) \/ backoff(i)
    <3>1. trouble' \in 0..MaxTrouble
      BY <2>1 DEF ensureGroup, loopHead, backoff
    <3>2. QED
      BY <2>1, <3>1 DEF Step, Moves
  <2>2. CASE readNew(i) \/ recoverStuck(i)
    <3>1. trouble' \in 0..MaxTrouble
      BY <2>2 DEF readNew, recoverStuck
    <3>2. QED
      BY <2>2, <3>1 DEF Step
  <2>3. CASE recoverOne(i) \/ acknowledge(i) \/ deadLetter(i) \/ deadLetterEntry(i)
    <3>1. trouble' \in 0..MaxTrouble
      BY <2>3 DEF recoverOne, acknowledge, deadLetter, deadLetterEntry
    <3>2. QED
      BY <2>3, <3>1 DEF Step, OnCurrent
  <2>4. CASE handle(i)
    <3>1. trouble' \in 0..MaxTrouble
      BY <2>4 DEF handle, parseFails
    <3>2. QED
      BY <2>4, <3>1 DEF Step, OnCurrent, handle
  <2>5. QED
    BY <1>7, <2>1, <2>2, <2>3, <2>4 DEF RunStep
<1>8. QED
  BY <1>1, <1>2, <1>3, <1>4, <1>5, <1>6, <1>7 DEF Next

-----------------------------------------------------------------------------
(* What the parts of a step compute.                                       *)

\* The entry an instance works on is the oldest of its batch.
LEMMA CurrentIn ==
    ASSUME TypeOK, NEW i \in Instances, batch[i] # {}
    PROVE  /\ Current(i) \in batch[i] /\ Current(i) \in 1..delivered /\ Current(i) \in Entries
           /\ \A f \in batch[i] : Current(i) <= f
<1>1. batch[i] \in SUBSET Nat /\ batch[i] \subseteq 1..delivered /\ 1..delivered \subseteq Entries
  BY ConsumerAssumption DEF TypeOK, Entries
<1>2. QED
  BY <1>1, FirstIn DEF Current

\* NextEntry takes the entry off the batch, and the batch decides what follows.
LEMMA NextEntryForm ==
    ASSUME TypeOK, NEW i \in Instances, NextEntry(i)
    PROVE  /\ batch' = [batch EXCEPT ![i] = batch[i] \ {Current(i)}]
           /\ UNCHANGED <<claiming, start>>
           /\ \E label \in {"check", "handle", "loop", "read", "claim"} :
                 /\ pc' = [pc EXCEPT ![i] = label]
                 /\ label \in {"check", "handle"} <=> batch[i] \ {Current(i)} # {}
                 /\ label = "check" => claiming[i]
                 /\ label = "handle" => ~claiming[i]
BY DEF NextEntry, Goto, TypeOK

\* The positions of the stream are numbers.
LEMMA Numbers ==
    ASSUME TypeOK
    PROVE  /\ NumEntries \in Nat /\ added \in Nat /\ trimmed \in Nat /\ delivered \in Nat
           /\ trimmed <= added /\ delivered <= added /\ added <= NumEntries
           /\ Entries \subseteq Nat /\ pending \subseteq Entries
           /\ \A e \in pending : e <= delivered
BY ConsumerAssumption DEF TypeOK, Entries

\* XREADGROUP delivers the next entries, and skips only trimmed ones.
LEMMA ReadForm ==
    ASSUME TypeOK, NEW new, new = Oldest(Unread, ReadCount), XReadGroup(new)
    PROVE  /\ delivered' \in delivered..added
           /\ new \subseteq Entries /\ \A e \in new : delivered < e /\ e <= delivered'
           /\ \A e \in Entries : delivered < e /\ e <= delivered' => e \in new \/ e <= trimmed
<1> USE Numbers
<1>1. /\ new \subseteq Unread /\ Unread \in SUBSET Nat /\ Unread \subseteq Entries
      /\ \A e \in Unread : delivered < e /\ e <= added
  BY DEF Oldest, Unread
<1>2. CASE new = {}
  <2>1. delivered' = delivered
    BY <1>2 DEF XReadGroup
  <2>2. QED
    BY <1>2, <2>1
<1>3. CASE new # {}
  <2>1. new \in SUBSET Nat /\ \A e \in new : e <= added
    BY <1>1
  <2>2. Last(new) \in new /\ \A f \in new : f <= Last(new)
    BY <1>3, <2>1, LastIn
  <2>3. delivered' \in new /\ \A f \in new : f <= delivered'
    BY <1>3, <2>2 DEF XReadGroup
  <2>4. delivered' \in delivered..added
    <3>1. delivered < delivered' /\ delivered' <= added /\ delivered' \in Nat
      BY <1>1, <2>3
    <3>2. QED
      BY <3>1
  <2>5. ASSUME NEW e \in Entries, delivered < e, e <= delivered', ~(e <= trimmed)
        PROVE  e \in new
    <3>1. e \in Unread
      BY <2>4, <2>5 DEF Unread
    <3>2. CASE e < delivered'
      BY <3>1, <3>2, <1>1, <2>3, OldestClosed, ConsumerAssumption
    <3>3. QED
      BY <2>3, <2>4, <2>5, <3>2
  <2>6. QED
    BY <1>1, <2>1, <2>3, <2>4, <2>5
<1>4. QED
  BY <1>2, <1>3

\* A page of the claim is pending, and only trimmed entries of it are dropped.
LEMMA PageForm ==
    ASSUME TypeOK, NEW i \in Instances
    PROVE  /\ Page(i) \subseteq pending /\ Claimed(i) \subseteq Page(i)
           /\ \A e \in Page(i) \ Claimed(i) : e <= trimmed
           /\ PageEnd(i) \in 0..NumEntries
<1> USE Numbers
<1>1. Page(i) \subseteq pending
  BY DEF Page, Oldest
<1>2. Claimed(i) \subseteq Page(i) /\ \A e \in Page(i) \ Claimed(i) : e <= trimmed
  BY <1>1 DEF Claimed
<1>3. PageEnd(i) \in 0..NumEntries
  <2> DEFINE rest == {e \in pending \ Page(i) : \A f \in Page(i) : f < e}
  <2>1. CASE rest # {}
    <3>1. PICK m : m = First(rest)
      OBVIOUS
    <3>2. rest \in SUBSET Nat
      OBVIOUS
    <3>3. m \in rest
      BY <2>1, <3>1, <3>2, FirstIn
    <3>4. PageEnd(i) \in {0, m}
      BY <3>1 DEF PageEnd
    <3>5. m \in 0..NumEntries
      BY <3>3 DEF Entries
    <3>6. QED
      BY <3>4, <3>5
  <2>2. CASE rest = {}
    BY <2>2 DEF PageEnd
  <2>3. QED
    BY <2>1, <2>2
<1>4. QED
  BY <1>1, <1>2, <1>3

\* A delivery is counted, and changes nothing else of the other entries.
LEMMA RedeliverForm ==
    ASSUME TypeOK, NEW S \in SUBSET Entries, Redeliver(S)
    PROVE  /\ attempts' \in [Entries -> 0..(MaxAttempts + 1)]
           /\ \A e \in Entries \ S : attempts'[e] = attempts[e]
           /\ \A e \in S : attempts'[e] = IF attempts[e] <= MaxAttempts THEN attempts[e] + 1
                                          ELSE MaxAttempts + 1
           /\ stale' = stale \ S
BY ConsumerAssumption DEF TypeOK, Redeliver, CountUp

-----------------------------------------------------------------------------
(* What a step leaves alone.                                               *)

\* Nothing the invariant tells of the entry changes, but what is done with it.
Kept(e) ==
    /\ e \in pending' <=> e \in pending
    /\ e \in dead' <=> e \in dead
    /\ attempts'[e] = attempts[e] /\ failures'[e] = failures[e] /\ successes'[e] = successes[e]
    /\ \A i \in Instances :
          /\ e \in batch'[i] <=> e \in batch[i]
          /\ e \in batch[i] => /\ claiming'[i] = claiming[i]
                               /\ pc'[i] = "ack" /\ e = Current(i)' <=> pc[i] = "ack" /\ e = Current(i)

\* Then the invariant still holds of it.
LEMMA KeptInv ==
    ASSUME NEW e \in Entries, EntryInv(e), Kept(e), CurrentInv(e)'
    PROVE  EntryInv(e)'
<1>1. HolderInv(e)'
  BY DEF EntryInv, HolderInv, Kept, Acking
<1>2. RouteInv(e)'
  BY DEF EntryInv, RouteInv, Kept
<1>3. e \notin Malformed => CountInv(e)'
  BY DEF EntryInv, CountInv, Kept, Active
<1>4. QED
  BY <1>1, <1>2, <1>3 DEF EntryInv

\* A step that touches no batch and no count leaves the entry alone.
LEMMA QuietInv ==
    ASSUME IInv, NEW e \in Entries \ interrupted,
           UNCHANGED <<dead, historyVars>>,
           e \in pending' <=> e \in pending, attempts'[e] = attempts[e],
           \A i \in Instances : e \in batch'[i] <=> e \in batch[i],
           \A i \in Instances : e \in batch[i] =>
               /\ batch'[i] = batch[i] /\ claiming'[i] = claiming[i] /\ pc'[i] = pc[i]
    PROVE  EntryInv(e)'
<1>1. EntryInv(e)
  BY DEF IInv, UndisturbedInv
<1>2. \A i \in Instances : e \in batch[i] => Current(i)' = Current(i)
  BY DEF Current
<1>3. Kept(e)
  BY <1>2 DEF Kept, historyVars
<1>4. CurrentInv(e)'
  BY <1>1, <1>2 DEF EntryInv, RouteInv, CurrentInv
<1>5. QED
  BY <1>1, <1>3, <1>4, KeptInv

\* The step of instance i goes on with its batch, or with the rest of it.
Proceeds(i) ==
    \/ NextEntry(i)
    \/ (\E label \in Working : Goto(i, label)) /\ UNCHANGED localVars

\* Then the rest of the batch is left alone, and so are the other batches.
LEMMA ProceedsInv ==
    ASSUME IInv, NEW i \in Instances, batch[i] # {}, Proceeds(i),
           NEW e \in Entries \ interrupted, e # Current(i),
           e \in pending' <=> e \in pending, e \in dead' <=> e \in dead,
           attempts'[e] = attempts[e], failures'[e] = failures[e], successes'[e] = successes[e]
    PROVE  EntryInv(e)'
<1>1. TypeOK /\ EntryInv(e)
  BY DEF IInv, UndisturbedInv
<1>2. \A j \in Instances \ {i} :
        /\ batch'[j] = batch[j] /\ claiming'[j] = claiming[j] /\ pc'[j] = pc[j]
        /\ Current(j)' = Current(j)
  BY <1>1 DEF Proceeds, NextEntry, Goto, TypeOK, localVars, Current
<1>3. CASE NextEntry(i)
  <2>1. /\ batch'[i] = batch[i] \ {Current(i)} /\ claiming'[i] = claiming[i]
        /\ e \in batch[i] => \/ pc'[i] = "check"
                             \/ pc'[i] = "handle" /\ ~claiming[i]
    BY <1>1, <1>3, NextEntryForm DEF TypeOK
  <2>2. Kept(e)
    BY <1>2, <2>1 DEF Kept
  <2>3. CurrentInv(e)'
    BY <1>1, <1>2, <2>1 DEF EntryInv, RouteInv, CurrentInv, Kept
  <2>4. QED
    BY <1>1, <2>2, <2>3, KeptInv
<1>4. CASE (\E label \in Working : Goto(i, label)) /\ UNCHANGED localVars
  <2>1. batch'[i] = batch[i] /\ claiming'[i] = claiming[i] /\ Current(i)' = Current(i)
    BY <1>4 DEF localVars, Current
  <2>2. Kept(e)
    BY <1>2, <2>1 DEF Kept
  <2>3. CurrentInv(e)'
    BY <1>1, <1>2, <2>1 DEF EntryInv, RouteInv, CurrentInv
  <2>4. QED
    BY <1>1, <2>2, <2>3, KeptInv
<1>5. QED
  BY <1>3, <1>4 DEF Proceeds

\* Until it is acknowledged, the entry an instance works on is not handled.
LEMMA CurrentOpen ==
    ASSUME IInv, NEW i \in Instances, batch[i] # {}, pc[i] # "ack", Current(i) \notin interrupted
    PROVE  /\ successes[Current(i)] = 0 /\ Current(i) \in pending
           /\ \A j \in Instances \ {i} : Current(i) \notin batch[j]
           /\ EntryInv(Current(i)) /\ Active(i, Current(i))
<1> DEFINE e == Current(i)
<1>1. e \in batch[i] /\ e \in Entries
  BY CurrentIn DEF IInv
<1>2. EntryInv(e)
  BY <1>1 DEF IInv, UndisturbedInv
<1>3. e \in pending /\ \A j \in Instances \ {i} : e \notin batch[j]
  BY <1>1, <1>2 DEF EntryInv, HolderInv
<1>4. ~ \E j \in Instances : Acking(j, e)
  BY <1>3 DEF Acking
<1>5. successes[e] # 1 /\ successes[e] <= 1 /\ successes[e] \in Nat
  BY <1>1, <1>2, <1>3, <1>4 DEF EntryInv, HolderInv, IInv, TypeOK
<1>6. QED
  BY <1>1, <1>2, <1>3, <1>5 DEF Active

-----------------------------------------------------------------------------
(* The steps keep the invariant.                                           *)

\* The parts of a step that concern no batch.
LEMMA GrowsKeeps ==
    ASSUME IInv, Grows \/ Idles \/ Signals, trouble' \in 0..MaxTrouble
    PROVE  IInv'
<1>1. UNCHANGED <<delivered, pending, attempts, dead, pc, localVars, historyVars, interrupted>>
  BY DEF Grows, Idles, Signals, groupVars
<1>2. TypeOK'
  <2>1. CASE Grows
    <3>1. added' \in 0..NumEntries /\ trimmed' \in 0..added' /\ delivered' \in 0..added'
      BY <2>1, Numbers DEF Grows, groupVars, IInv, TypeOK
    <3>2. QED
      BY <2>1, <3>1 DEF Grows, groupVars, localVars, historyVars, IInv, TypeOK
  <2>2. CASE Idles
    BY <2>2 DEF Idles, streamVars, localVars, historyVars, IInv, TypeOK
  <2>3. CASE Signals
    BY <2>3 DEF Signals, streamVars, groupVars, localVars, historyVars, IInv, TypeOK
  <2>4. QED
    BY <2>1, <2>2, <2>3
<1>3. BatchInv' /\ UnreadInv'
  BY <1>1 DEF IInv, BatchInv, UnreadInv, localVars, historyVars
<1>4. AckInv'
  <2>1. trimmed' >= trimmed /\ trimmed' \in Nat
    BY Numbers DEF Grows, Idles, Signals, streamVars, IInv
  <2>2. \A i \in Instances : pc[i] = "ack" => Current(i) \in Nat
    BY CurrentIn, Numbers DEF IInv, BatchInv, Working
  <2>3. QED
    BY <1>1, <2>1, <2>2, Numbers DEF IInv, AckInv, Current, Settled, Handled, localVars, historyVars
<1>5. UndisturbedInv'
  BY <1>1, QuietInv DEF UndisturbedInv, localVars
<1>6. QED
  BY <1>2, <1>3, <1>4, <1>5 DEF IInv

\* An instance that has no batch moves on.
LEMMA MovesKeeps ==
    ASSUME IInv, NEW i \in Instances, Moves(i), trouble' \in 0..MaxTrouble
    PROVE  IInv'
<1>1. /\ UNCHANGED <<streamVars, groupVars, dead, batch, claiming, historyVars, interrupted>>
      /\ pc[i] \notin Working
      /\ \E label \in Labels \ Working : pc' = [pc EXCEPT ![i] = label]
  BY DEF Moves, ensureGroup, loopHead, backoff, Restart, Goto, localVars, Working, Labels
<1>2. start' \in [Instances -> 0..NumEntries] /\ ctxDone' \in [Instances -> BOOLEAN]
  <2>1. /\ start' = start \/ start' = [start EXCEPT ![i] = 0]
        /\ ctxDone' = ctxDone \/ ctxDone' = [ctxDone EXCEPT ![i] = FALSE]
    BY DEF Moves, ensureGroup, loopHead, backoff, Restart, localVars
  <2>2. 0 \in 0..NumEntries
    BY ConsumerAssumption
  <2>3. QED
    BY <2>1, <2>2 DEF IInv, TypeOK
<1>3. TypeOK'
  BY <1>1, <1>2 DEF streamVars, groupVars, historyVars, IInv, TypeOK
<1>4. batch[i] = {} /\ pc'[i] \notin Working /\ \A j \in Instances \ {i} : pc'[j] = pc[j]
  BY <1>1 DEF IInv, BatchInv, TypeOK
<1>5. BatchInv'
  BY <1>1, <1>4 DEF IInv, BatchInv, Working
<1>6. UnreadInv'
  BY <1>1 DEF IInv, UnreadInv, groupVars, historyVars
<1>7. AckInv'
  BY <1>1, <1>4 DEF IInv, AckInv, Current, Settled, Handled, Working, streamVars, historyVars
<1>8. UndisturbedInv'
  BY <1>1, <1>4, QuietInv DEF UndisturbedInv, groupVars
<1>9. QED
  BY <1>3, <1>5, <1>6, <1>7, <1>8 DEF IInv

\* The process ends: its batch is cut short.
LEMMA DieKeeps ==
    ASSUME IInv, NEW i \in Instances, Die(i), trouble' \in 0..MaxTrouble
    PROVE  IInv'
<1>1. /\ UNCHANGED <<streamVars, groupVars, dead, claiming, historyVars>>
      /\ pc' = [pc EXCEPT ![i] = "down"] /\ batch' = [batch EXCEPT ![i] = {}]
      /\ interrupted' = interrupted \cup batch[i]
  BY DEF Die, Goto, Interrupt
<1>2. TypeOK'
  BY <1>1 DEF Die, streamVars, groupVars, historyVars, IInv, TypeOK, Labels
<1>3. /\ pc'[i] = "down" /\ batch'[i] = {}
      /\ \A j \in Instances \ {i} : pc'[j] = pc[j] /\ batch'[j] = batch[j]
  BY <1>1 DEF IInv, TypeOK
<1>4. BatchInv'
  BY <1>1, <1>3 DEF IInv, BatchInv, Working
<1>5. UnreadInv'
  BY <1>1 DEF IInv, UnreadInv, groupVars, historyVars
<1>6. AckInv'
  BY <1>1, <1>3 DEF IInv, AckInv, Current, Settled, Handled, streamVars, historyVars
<1>7. UndisturbedInv'
  BY <1>1, <1>3, QuietInv DEF UndisturbedInv, groupVars
<1>8. QED
  BY <1>2, <1>4, <1>5, <1>6, <1>7 DEF IInv

-----------------------------------------------------------------------------
(* The reads.                                                              *)

\* An instance that is reading or claiming has no batch.
LEMMA ReaderIdle ==
    ASSUME IInv, NEW i \in Instances, pc[i] \in {"read", "claim"}
    PROVE  batch[i] = {}
BY DEF IInv, BatchInv, Working

\* Entries that were never delivered are in no batch, and untouched.
LEMMA UnreadForm ==
    ASSUME IInv, NEW e \in Entries, delivered < e
    PROVE  /\ e \notin pending /\ e \notin dead /\ \A j \in Instances : e \notin batch[j]
           /\ attempts[e] = 0 /\ failures[e] = 0 /\ successes[e] = 0
<1>1. ~(e \in 1..delivered)
  BY Numbers DEF IInv
<1>2. QED
  BY <1>1 DEF IInv, TypeOK, UnreadInv

\* XREADGROUP keeps the types, and what is known of the entries not delivered.
LEMMA ReadTyped ==
    ASSUME IInv, NEW new, new = Oldest(Unread, ReadCount), XReadGroup(new),
           UNCHANGED <<streamVars, historyVars>>
    PROVE  /\ delivered' \in delivered..added /\ delivered' \in 0..added'
           /\ 1..delivered \subseteq 1..delivered'
           /\ pending' \subseteq 1..delivered' /\ stale' \subseteq pending'
           /\ attempts' \in [Entries -> 0..(MaxAttempts + 1)]
           /\ new \subseteq 1..delivered'
           /\ UnreadInv'
           /\ \A e \in Entries \ new : attempts'[e] = attempts[e] /\ (e \in pending' <=> e \in pending)
<1> USE Numbers
<1>1. TypeOK
  BY DEF IInv
<1>2. /\ delivered' \in delivered..added
      /\ new \subseteq Entries /\ \A e \in new : delivered < e /\ e <= delivered'
  BY <1>1, ReadForm
<1>3. /\ delivered' \in 0..added' /\ 1..delivered \subseteq 1..delivered'
      /\ new \subseteq 1..delivered'
  BY <1>1, <1>2 DEF streamVars, Entries
<1>4. pending' = pending \cup new /\ Redeliver(new)
  BY DEF XReadGroup
<1>5. /\ attempts' \in [Entries -> 0..(MaxAttempts + 1)] /\ stale' = stale \ new
      /\ \A e \in Entries \ new : attempts'[e] = attempts[e]
  BY <1>1, <1>2, <1>4, RedeliverForm
<1>6. UnreadInv'
  <2>1. SUFFICES ASSUME NEW e \in Entries, delivered' < e
                 PROVE  attempts'[e] = 0 /\ failures[e] = 0 /\ successes[e] = 0
    BY DEF UnreadInv, historyVars
  <2>2. delivered < e /\ e \notin new
    BY <1>1, <1>2, <2>1
  <2>3. QED
    BY <1>5, <2>2 DEF IInv, UnreadInv
<1>7. QED
  BY <1>1, <1>2, <1>3, <1>4, <1>5, <1>6 DEF TypeOK

\* New entries begin with their first attempt.
LEMMA ReadKeeps ==
    ASSUME IInv, NEW i \in Instances, readNew(i), trouble' \in 0..MaxTrouble
    PROVE  IInv'
<1> DEFINE new == Oldest(Unread, ReadCount)
<1>1. /\ pc[i] = "read" /\ batch[i] = {}
      /\ UNCHANGED <<streamVars, dead, ctxDone, start, historyVars>>
  BY ReaderIdle DEF readNew
<1>2. CASE UNCHANGED <<groupVars, interrupted, batch, claiming>> /\
           \E label \in {"loop", "backoff"} : Goto(i, label)
  <2>1. TypeOK'
    BY <1>1, <1>2 DEF Goto, groupVars, streamVars, historyVars, IInv, TypeOK, Labels
  <2>2. pc'[i] \in {"loop", "backoff"} /\ \A j \in Instances \ {i} : pc'[j] = pc[j]
    BY <1>2 DEF Goto, IInv, TypeOK
  <2>3. BatchInv' /\ UnreadInv' /\ AckInv'
    BY <1>1, <1>2, <2>2 DEF IInv, BatchInv, UnreadInv, AckInv, Current, Settled, Handled, Working,
                            groupVars, streamVars, historyVars
  <2>4. UndisturbedInv'
    BY <1>1, <1>2, <2>2, QuietInv DEF UndisturbedInv, groupVars
  <2>5. QED
    BY <2>1, <2>3, <2>4 DEF IInv
<1>3. CASE /\ XReadGroup(new) /\ Interrupt(new) /\ UNCHANGED <<batch, claiming>>
           /\ \E label \in {"loop", "backoff"} : Goto(i, label)
  <2>1. TypeOK'
    BY <1>1, <1>3, ReadTyped DEF Goto, Interrupt, streamVars, historyVars, IInv, TypeOK, Labels
  <2>2. pc'[i] \in {"loop", "backoff"} /\ \A j \in Instances \ {i} : pc'[j] = pc[j]
    BY <1>3 DEF Goto, IInv, TypeOK
  <2>3. BatchInv' /\ UnreadInv' /\ AckInv'
    BY <1>1, <1>3, <2>2, ReadTyped DEF IInv, BatchInv, AckInv, Current, Settled, Handled, Working,
                                       streamVars, historyVars
  <2>4. ASSUME NEW e \in Entries \ interrupted' PROVE EntryInv(e)'
    <3>1. e \in Entries \ interrupted /\ e \notin new
      BY <1>3, <2>4 DEF Interrupt
    <3>2. attempts'[e] = attempts[e] /\ (e \in pending' <=> e \in pending)
      BY <1>1, <1>3, <3>1, ReadTyped
    <3>3. QED
      BY <1>1, <1>3, <2>2, <3>1, <3>2, QuietInv
  <2>5. QED
    BY <2>1, <2>3, <2>4 DEF IInv, UndisturbedInv
<1>4. CASE /\ XReadGroup(new) /\ UNCHANGED interrupted
           /\ batch' = [batch EXCEPT ![i] = new] /\ claiming' = [claiming EXCEPT ![i] = FALSE]
           /\ Goto(i, IF new = {} THEN "loop" ELSE "handle")
  <2>1. TypeOK'
    BY <1>1, <1>4, ReadTyped DEF Goto, streamVars, historyVars, IInv, TypeOK, Labels
  <2>2. /\ pc'[i] = (IF new = {} THEN "loop" ELSE "handle") /\ batch'[i] = new /\ ~claiming'[i]
        /\ \A j \in Instances \ {i} :
              pc'[j] = pc[j] /\ batch'[j] = batch[j] /\ claiming'[j] = claiming[j]
    BY <1>4 DEF Goto, IInv, TypeOK
  <2>3. UnreadInv'
    BY <1>1, <1>4, ReadTyped
  <2> HIDE DEF new
  <2>4. BatchInv' /\ AckInv'
    BY <1>1, <2>2 DEF IInv, BatchInv, AckInv, Current, Settled, Handled, Working,
                      streamVars, historyVars
  <2>5. ASSUME NEW e \in Entries \ interrupted', e \notin new PROVE EntryInv(e)'
    <3>1. attempts'[e] = attempts[e] /\ (e \in pending' <=> e \in pending)
      BY <1>1, <1>4, <2>5, ReadTyped DEF new
    <3>2. QED
      BY <1>1, <1>4, <2>2, <2>5, <3>1, QuietInv
  <2>6. ASSUME NEW e \in Entries \ interrupted', e \in new PROVE EntryInv(e)'
    <3>1. delivered < e
      BY <1>4, <2>6, ReadForm DEF new, IInv
    <3>2. /\ e \notin dead /\ \A j \in Instances : e \notin batch[j]
          /\ attempts[e] = 0 /\ failures[e] = 0 /\ successes[e] = 0
      BY <3>1, UnreadForm
    <3>3. e \in pending' /\ Redeliver(new) /\ new \in SUBSET Entries
      BY <1>4, <2>6, ReadForm DEF XReadGroup, new, IInv
    <3>4. attempts'[e] = 1
      BY <2>6, <3>2, <3>3, RedeliverForm, ConsumerAssumption DEF IInv
    <3>5. /\ e \notin dead' /\ failures'[e] = 0 /\ successes'[e] = 0
          /\ \A j \in Instances : e \in batch'[j] => j = i
      BY <1>1, <2>2, <3>2 DEF historyVars
    <3>6. HolderInv(e)'
      BY <3>3, <3>5 DEF HolderInv
    <3>7. RouteInv(e)'
      BY <2>2, <3>4, <3>5, ConsumerAssumption DEF RouteInv, CurrentInv
    <3>8. CountInv(e)'
      BY <2>2, <2>6, <3>4, <3>5 DEF CountInv, Active
    <3>9. QED
      BY <3>6, <3>7, <3>8 DEF EntryInv
  <2>7. QED
    BY <2>1, <2>3, <2>4, <2>5, <2>6 DEF IInv, UndisturbedInv
<1>5. QED
  BY <1>2, <1>3, <1>4 DEF readNew

\* XAUTOCLAIM keeps the types, and what is known of the entries not on the page.
LEMMA ClaimTyped ==
    ASSUME IInv, NEW i \in Instances, XAutoClaim(i), UNCHANGED <<streamVars, historyVars>>
    PROVE  /\ delivered' = delivered
           /\ pending' \subseteq 1..delivered' /\ stale' \subseteq pending'
           /\ attempts' \in [Entries -> 0..(MaxAttempts + 1)]
           /\ Page(i) \subseteq 1..delivered /\ Page(i) \subseteq Entries
           /\ UnreadInv'
           /\ \A e \in Entries \ Page(i) : attempts'[e] = attempts[e] /\ (e \in pending' <=> e \in pending)
<1>1. TypeOK
  BY DEF IInv
<1>2. Page(i) \subseteq pending /\ Page(i) \subseteq Entries /\ Claimed(i) \subseteq Page(i)
  BY <1>1, PageForm, Numbers
<1>3. /\ delivered' = delivered /\ pending' = pending \ (Page(i) \ Claimed(i)) /\ Redeliver(Page(i))
  BY DEF XAutoClaim
<1>4. /\ attempts' \in [Entries -> 0..(MaxAttempts + 1)] /\ stale' = stale \ Page(i)
      /\ \A e \in Entries \ Page(i) : attempts'[e] = attempts[e]
  BY <1>1, <1>2, <1>3, RedeliverForm
<1>5. UnreadInv'
  <2>1. SUFFICES ASSUME NEW e \in Entries, delivered < e
                 PROVE  attempts'[e] = 0 /\ failures[e] = 0 /\ successes[e] = 0
    BY <1>3 DEF UnreadInv, historyVars
  <2>2. e \notin Page(i)
    BY <1>2, <2>1, UnreadForm
  <2>3. QED
    BY <1>4, <2>1, <2>2 DEF IInv, UnreadInv
<1>6. QED
  BY <1>1, <1>2, <1>3, <1>4, <1>5 DEF TypeOK

\* An entry claimed that nobody held goes on to its next attempt.
LEMMA ClaimKeeps ==
    ASSUME IInv, NEW i \in Instances, recoverStuck(i), trouble' \in 0..MaxTrouble
    PROVE  IInv'
<1>1. /\ pc[i] = "claim" /\ batch[i] = {}
      /\ UNCHANGED <<streamVars, dead, ctxDone, historyVars>>
  BY ReaderIdle DEF recoverStuck
<1>2. CASE UNCHANGED <<groupVars, interrupted, localVars>> /\ Goto(i, "read")
  <2>1. TypeOK'
    BY <1>1, <1>2 DEF Goto, groupVars, streamVars, localVars, historyVars, IInv, TypeOK, Labels
  <2>2. pc'[i] = "read" /\ \A j \in Instances \ {i} : pc'[j] = pc[j]
    BY <1>2 DEF Goto, IInv, TypeOK
  <2>3. BatchInv' /\ UnreadInv' /\ AckInv'
    BY <1>1, <1>2, <2>2 DEF IInv, BatchInv, UnreadInv, AckInv, Current, Settled, Handled, Working,
                            groupVars, streamVars, localVars, historyVars
  <2>4. UndisturbedInv'
    BY <1>1, <1>2, <2>2, QuietInv DEF UndisturbedInv, groupVars, localVars
  <2>5. QED
    BY <2>1, <2>3, <2>4 DEF IInv
<1>3. CASE XAutoClaim(i) /\ Interrupt(Page(i)) /\ UNCHANGED localVars /\ Goto(i, "read")
  <2>1. TypeOK'
    BY <1>1, <1>3, ClaimTyped DEF Goto, Interrupt, streamVars, localVars, historyVars, IInv, TypeOK, Labels
  <2>2. pc'[i] = "read" /\ \A j \in Instances \ {i} : pc'[j] = pc[j]
    BY <1>3 DEF Goto, IInv, TypeOK
  <2>3. BatchInv' /\ UnreadInv' /\ AckInv'
    BY <1>1, <1>3, <2>2, ClaimTyped DEF IInv, BatchInv, AckInv, Current, Settled, Handled, Working,
                                        streamVars, localVars, historyVars
  <2>4. ASSUME NEW e \in Entries \ interrupted' PROVE EntryInv(e)'
    <3>1. e \in Entries \ interrupted /\ e \notin Page(i)
      BY <1>3, <2>4 DEF Interrupt
    <3>2. attempts'[e] = attempts[e] /\ (e \in pending' <=> e \in pending)
      BY <1>1, <1>3, <3>1, ClaimTyped
    <3>3. QED
      BY <1>1, <1>3, <2>2, <3>1, <3>2, QuietInv DEF localVars
  <2>5. QED
    BY <2>1, <2>3, <2>4 DEF IInv, UndisturbedInv
<1>4. CASE /\ XAutoClaim(i)
           /\ batch' = [batch EXCEPT ![i] = Claimed(i)]
           /\ claiming' = [claiming EXCEPT ![i] = TRUE]
           /\ start' = [start EXCEPT ![i] = PageEnd(i)]
           /\ Goto(i, IF Claimed(i) # {} THEN "check"
                      ELSE IF PageEnd(i) = 0 THEN "read" ELSE "claim")
           /\ Interrupt(Page(i) \cap UNION {batch[j] : j \in Instances \ {i}})
  <2>1. PageEnd(i) \in 0..NumEntries /\ Claimed(i) \subseteq Page(i) /\ Page(i) \subseteq pending
    BY PageForm DEF IInv
  <2>2. TypeOK'
    BY <1>1, <1>4, <2>1, ClaimTyped
       DEF Goto, Interrupt, streamVars, historyVars, IInv, TypeOK, Labels
  <2>3. /\ pc'[i] \in {"check", "read", "claim"} /\ (pc'[i] = "check" <=> Claimed(i) # {})
        /\ batch'[i] = Claimed(i) /\ claiming'[i]
        /\ \A j \in Instances \ {i} :
              pc'[j] = pc[j] /\ batch'[j] = batch[j] /\ claiming'[j] = claiming[j]
    BY <1>4 DEF Goto, IInv, TypeOK
  <2>4. UnreadInv'
    BY <1>1, <1>4, ClaimTyped
  <2>5. BatchInv' /\ AckInv'
    BY <1>1, <2>3 DEF IInv, BatchInv, AckInv, Current, Settled, Handled, Working,
                      streamVars, historyVars
  <2>6. ASSUME NEW e \in Entries \ interrupted', e \notin Page(i) PROVE EntryInv(e)'
    <3>1. attempts'[e] = attempts[e] /\ (e \in pending' <=> e \in pending)
      BY <1>1, <1>4, <2>6, ClaimTyped
    <3>2. e \in Entries \ interrupted
      BY <1>4, <2>6 DEF Interrupt
    <3>3. \A j \in Instances : e \in batch'[j] <=> e \in batch[j]
      BY <1>1, <2>1, <2>3, <2>6
    <3>4. QED
      BY <1>1, <2>3, <3>1, <3>2, <3>3, QuietInv
  <2>7. ASSUME NEW e \in Entries \ interrupted', e \in Page(i) PROVE EntryInv(e)'
    <3>1. e \in Entries \ interrupted /\ \A j \in Instances : e \notin batch[j]
      BY <1>1, <1>4, <2>7 DEF Interrupt
    <3>2. EntryInv(e) /\ e \in pending
      BY <2>1, <2>7, <3>1 DEF IInv, UndisturbedInv
    <3>3. Page(i) \in SUBSET Entries /\ Redeliver(Page(i))
      BY <1>1, <1>4, ClaimTyped DEF XAutoClaim
    <3>4. /\ attempts'[e] = IF attempts[e] <= MaxAttempts THEN attempts[e] + 1 ELSE MaxAttempts + 1
          /\ attempts[e] \in Nat /\ successes[e] \in Nat /\ MaxAttempts \in Nat
      BY <2>7, <3>3, RedeliverForm, ConsumerAssumption DEF IInv, TypeOK
    <3>5. successes[e] = 0
      BY <3>1, <3>2, <3>4 DEF EntryInv, HolderInv, Acking
    <3>6. e \in dead' <=> e \in dead
      BY <1>1
    <3>7. failures'[e] = failures[e] /\ successes'[e] = 0
      BY <1>1, <3>5 DEF historyVars
    <3>8. \A j \in Instances : e \in batch'[j] => j = i /\ e \in Claimed(i)
      BY <2>3, <3>1
    <3>9. e \in pending' <=> e \in Claimed(i)
      BY <1>4, <2>7, <3>2 DEF XAutoClaim
    <3>10. HolderInv(e)'
      BY <3>7, <3>8, <3>9 DEF HolderInv
    <3>11. RouteInv(e)'
      BY <2>3, <3>2, <3>4, <3>6, <3>8 DEF EntryInv, RouteInv, CurrentInv
    <3>12. ASSUME e \notin Malformed PROVE CountInv(e)'
      <4>1. failures[e] = IF attempts[e] <= MaxAttempts THEN attempts[e] ELSE MaxAttempts
        BY <3>1, <3>2, <3>12 DEF EntryInv, CountInv
      <4>2. attempts'[e] = failures'[e] + 1
        BY <3>4, <3>7, <4>1
      <4>3. e \in dead => failures[e] = MaxAttempts
        BY <3>2, <3>12 DEF EntryInv, CountInv
      <4>4. e \in pending' => e \in batch'[i]
        BY <2>3, <3>9
      <4>5. QED
        BY <3>6, <3>7, <4>2, <4>3, <4>4 DEF CountInv, Active
    <3>13. QED
      BY <3>10, <3>11, <3>12 DEF EntryInv
  <2>8. QED
    BY <2>2, <2>4, <2>5, <2>6, <2>7 DEF IInv, UndisturbedInv
<1>5. QED
  BY <1>2, <1>3, <1>4 DEF recoverStuck

-----------------------------------------------------------------------------
(* The work on the current entry.                                          *)

\* Proceeding keeps the types of what the instance keeps, and its batch.
LEMMA ProceedsTyped ==
    ASSUME IInv, NEW i \in Instances, pc[i] \in Working, Proceeds(i),
           pc'[i] \in {"check", "range"} => claiming[i]
    PROVE  /\ pc' \in [Instances -> Labels] /\ claiming' = claiming
           /\ batch' \in [Instances -> SUBSET (1..delivered)] /\ start' = start
           /\ BatchInv'
           /\ \A j \in Instances \ {i} : pc'[j] = pc[j] /\ batch'[j] = batch[j]
<1>1. CASE NextEntry(i)
  <2> DEFINE rest == batch[i] \ {Current(i)}
  <2>1. PICK label \in {"check", "handle", "loop", "read", "claim"} :
          /\ pc' = [pc EXCEPT ![i] = label]
          /\ label \in {"check", "handle"} <=> rest # {}
          /\ label = "check" => claiming[i]
    BY <1>1, NextEntryForm DEF IInv
  <2>2. batch' = [batch EXCEPT ![i] = rest] /\ claiming' = claiming /\ start' = start
    BY <1>1, NextEntryForm DEF IInv
  <2>3. rest \in SUBSET (1..delivered)
    BY DEF IInv, TypeOK
  <2>4. /\ pc'[i] = label /\ batch'[i] = rest
        /\ \A j \in Instances \ {i} : pc'[j] = pc[j] /\ batch'[j] = batch[j]
    BY <2>1, <2>2 DEF IInv, TypeOK
  <2>5. label \in Labels /\ (label \in Working <=> label \in {"check", "handle"}) /\ label # "range"
    BY DEF Labels, Working
  <2>6. BatchInv'
    BY <2>1, <2>2, <2>4, <2>5 DEF IInv, BatchInv
  <2> HIDE DEF rest
  <2>7. QED
    BY <2>1, <2>2, <2>3, <2>4, <2>5, <2>6 DEF IInv, TypeOK
<1>2. CASE (\E label \in Working : Goto(i, label)) /\ UNCHANGED localVars
  <2>1. PICK label \in Working : pc' = [pc EXCEPT ![i] = label]
    BY <1>2 DEF Goto
  <2>2. batch' = batch /\ claiming' = claiming /\ start' = start
    BY <1>2 DEF localVars
  <2>3. pc'[i] = label /\ \A j \in Instances \ {i} : pc'[j] = pc[j]
    BY <2>1 DEF IInv, TypeOK
  <2>4. label \in Labels
    BY DEF Labels, Working
  <2>5. QED
    BY <2>1, <2>2, <2>3, <2>4 DEF IInv, TypeOK, BatchInv
<1>3. QED
  BY <1>1, <1>2 DEF Proceeds

\* What a step on the current entry owes the invariant, by the part it changes.
LEMMA WorkKeeps ==
    ASSUME IInv, NEW i \in Instances, NEW c, c = Current(i), pc[i] \in Working, Proceeds(i),
           trouble' \in 0..MaxTrouble, UNCHANGED <<streamVars, delivered, ctxDone>>,
           pc'[i] \in {"check", "range"} => claiming[i],
           pc'[i] = "ack" => UNCHANGED localVars /\ (c \in Settled' \/ c <= trimmed),
           pending' \in {pending, pending \ {c}}, stale' \in {stale, stale \ {c}},
           pending' = pending \/ stale' = stale \ {c},
           dead' \in {dead, dead \cup {c}},
           interrupted' \in {interrupted, interrupted \cup {c}},
           attempts' = attempts,
           successes' \in [Entries -> 0..2], failures' \in [Entries -> 0..(MaxAttempts + 1)],
           \A e \in Entries \ {c} : successes'[e] = successes[e] /\ failures'[e] = failures[e],
           successes'[c] >= successes[c],
           c \notin interrupted' => EntryInv(c)'
    PROVE  IInv'
<1>1. batch[i] # {}
  BY DEF IInv, BatchInv
<1>2. c \in 1..delivered /\ c \in Entries /\ delivered \in Nat
  BY <1>1, CurrentIn, Numbers DEF IInv
<1>3. /\ pc' \in [Instances -> Labels] /\ claiming' = claiming
      /\ batch' \in [Instances -> SUBSET (1..delivered)] /\ start' = start
      /\ BatchInv'
      /\ \A j \in Instances \ {i} : pc'[j] = pc[j] /\ batch'[j] = batch[j]
  BY ProceedsTyped
<1>4. TypeOK'
  <2>1. pending' \subseteq 1..delivered /\ stale' \subseteq pending'
    BY DEF IInv, TypeOK
  <2>2. dead' \subseteq 1..delivered /\ interrupted' \subseteq 1..delivered
    BY <1>2 DEF IInv, TypeOK
  <2>3. QED
    BY <1>3, <2>1, <2>2 DEF IInv, TypeOK, streamVars
<1>5. UnreadInv'
  <2>1. SUFFICES ASSUME NEW e \in Entries, delivered < e
                 PROVE  attempts[e] = 0 /\ failures'[e] = 0 /\ successes'[e] = 0
    BY DEF UnreadInv
  <2>2. e # c
    BY <1>2, <2>1
  <2>3. QED
    BY <2>1, <2>2 DEF IInv, UnreadInv
<1>6. AckInv'
  <2>1. Settled \subseteq Settled'
    <3>1. \A e \in Entries : successes[e] > 0 => successes'[e] > 0
      BY <1>2 DEF IInv, TypeOK
    <3>2. QED
      BY <3>1 DEF Settled, Handled
  <2>2. \A j \in Instances \ {i} : Current(j)' = Current(j)
    BY <1>3 DEF Current
  <2>3. pc'[i] = "ack" => Current(i)' = Current(i)
    BY DEF Current, localVars
  <2>4. QED
    BY <1>3, <2>1, <2>2, <2>3 DEF IInv, AckInv, streamVars
<1>7. UndisturbedInv'
  <2>1. ASSUME NEW e \in Entries \ interrupted', e # c PROVE EntryInv(e)'
    BY <1>1, <2>1, ProceedsInv
  <2>2. QED
    BY <2>1 DEF UndisturbedInv
<1>8. QED
  BY <1>3, <1>4, <1>5, <1>6, <1>7 DEF IInv

\* Where NextEntry leads.
LEMMA ToNext ==
    ASSUME TypeOK, NEW i \in Instances, NextEntry(i)
    PROVE  /\ Proceeds(i) /\ claiming' = claiming
           /\ pc'[i] \in {"check", "handle", "loop", "read", "claim"}
           /\ pc'[i] = "check" => claiming[i]
           /\ batch'[i] = batch[i] \ {Current(i)}
           /\ \A j \in Instances \ {i} : batch'[j] = batch[j] /\ pc'[j] = pc[j]
BY NextEntryForm DEF Proceeds, TypeOK

\* Where a label leads.
LEMMA ToLabel ==
    ASSUME TypeOK, NEW i \in Instances, NEW label \in Working, Goto(i, label), UNCHANGED localVars
    PROVE  /\ Proceeds(i) /\ claiming' = claiming /\ batch' = batch
           /\ pc'[i] = label /\ Current(i)' = Current(i)
           /\ \A j \in Instances \ {i} : pc'[j] = pc[j]
BY DEF Proceeds, Goto, localVars, Current, TypeOK

\* An entry taken off the batch unacknowledged has failed as often as it was tried.
LEMMA LeftInv ==
    ASSUME IInv, NEW i \in Instances, NEW c \in Entries \ interrupted, c = Current(i),
           pc[i] \in Working \ {"ack"}, NextEntry(i),
           pending' = pending, attempts' = attempts, successes'[c] = successes[c],
           c \in dead' => c \in Malformed \/ attempts[c] > MaxAttempts,
           c \notin Malformed =>
               failures'[c] = IF attempts[c] <= MaxAttempts THEN attempts[c] ELSE MaxAttempts
    PROVE  EntryInv(c)'
<1>1. successes[c] = 0 /\ \A j \in Instances \ {i} : c \notin batch[j]
  BY CurrentOpen DEF IInv, BatchInv
<1>2. \A j \in Instances : c \notin batch'[j]
  BY <1>1, ToNext DEF IInv
<1>3. HolderInv(c)'
  BY <1>1, <1>2 DEF HolderInv
<1>4. RouteInv(c)'
  BY <1>2 DEF RouteInv, CurrentInv
<1>5. c \notin Malformed => CountInv(c)'
  <2>1. attempts[c] \in Nat /\ MaxAttempts \in Nat
    BY ConsumerAssumption DEF IInv, TypeOK
  <2>2. QED
    BY <1>2, <2>1 DEF CountInv, Active
<1>6. QED
  BY <1>3, <1>4, <1>5 DEF EntryInv

\* An entry about to be acknowledged has its outcome.
LEMMA DoneInv ==
    ASSUME IInv, NEW i \in Instances, NEW c \in Entries \ interrupted, c = Current(i),
           pc[i] \in Working \ {"ack"}, Goto(i, "ack"), UNCHANGED localVars,
           pending' = pending, attempts' = attempts, successes'[c] <= 1,
           successes'[c] = 1 => c \notin dead',
           c \in dead' => c \in Malformed \/ (attempts[c] > MaxAttempts /\ failures'[c] = MaxAttempts)
    PROVE  EntryInv(c)'
<1>1. /\ EntryInv(c) /\ c \in pending /\ c \in batch[i]
      /\ \A j \in Instances \ {i} : c \notin batch[j]
  BY CurrentOpen, CurrentIn DEF IInv, BatchInv
<1>2. "ack" \in Working
  BY DEF Working
<1>3. /\ batch' = batch /\ claiming' = claiming /\ pc'[i] = "ack" /\ c = Current(i)'
  BY <1>2, ToLabel DEF IInv
<1>4. HolderInv(c)'
  BY <1>1, <1>3 DEF HolderInv, Acking
<1>5. RouteInv(c)'
  BY <1>1, <1>3 DEF EntryInv, RouteInv, CurrentInv
<1>6. c \notin Malformed => CountInv(c)'
  BY <1>1, <1>3 DEF CountInv, Active
<1>7. QED
  BY <1>4, <1>5, <1>6 DEF EntryInv

\* An entry may go on to what its attempts allow.
LEMMA OnwardInv ==
    ASSUME IInv, NEW i \in Instances, NEW c \in Entries \ interrupted, c = Current(i),
           pc[i] \in Working \ {"ack"},
           NEW label \in Working \ {"ack"}, Goto(i, label), UNCHANGED localVars,
           UNCHANGED <<pending, attempts, dead, historyVars>>,
           label = "handle" => attempts[c] <= MaxAttempts,
           label = "range" => attempts[c] > MaxAttempts,
           label = "copy" => c \in Malformed \/ attempts[c] > MaxAttempts
    PROVE  EntryInv(c)'
<1>1. EntryInv(c) /\ \A j \in Instances \ {i} : c \notin batch[j]
  BY CurrentOpen DEF IInv, BatchInv
<1>2. /\ batch' = batch /\ claiming' = claiming /\ pc'[i] = label /\ Current(i)' = Current(i)
  BY ToLabel DEF IInv
<1>3. Kept(c)
  BY <1>1, <1>2 DEF Kept, historyVars
<1>4. CurrentInv(c)'
  BY <1>1, <1>2 DEF CurrentInv
<1>5. QED
  BY <1>1, <1>3, <1>4, KeptInv

-----------------------------------------------------------------------------
(* The steps on the current entry.                                         *)

\* The pending list decides between the handler and the dead-letter stream.
LEMMA CheckKeeps ==
    ASSUME IInv, NEW i \in Instances, recoverOne(i), trouble' \in 0..MaxTrouble
    PROVE  IInv'
<1>1. PICK c : c = Current(i)
  OBVIOUS
<1>2. /\ pc[i] = "check" /\ pc[i] \in Working \ {"ack"} /\ batch[i] # {} /\ claiming[i]
      /\ c \in Entries /\ c \in batch[i] /\ TypeOK
      /\ UNCHANGED <<streamVars, groupVars, dead, ctxDone, historyVars>>
  BY <1>1, CurrentIn DEF recoverOne, Working, IInv, BatchInv
<1>3. /\ UNCHANGED <<delivered, pending, stale, attempts, successes, failures>>
      /\ successes \in [Entries -> 0..2] /\ failures \in [Entries -> 0..(MaxAttempts + 1)]
      /\ successes[c] \in Nat
  BY <1>2 DEF groupVars, historyVars, TypeOK
<1>4. CASE NextEntry(i) /\ Interrupt({c})
  <2>1. Proceeds(i) /\ pc'[i] # "ack" /\ pc'[i] # "range" /\ (pc'[i] = "check" => claiming[i])
    BY <1>2, <1>4, ToNext
  <2>2. QED
    BY <1>1, <1>2, <1>3, <1>4, <2>1, WorkKeeps DEF Interrupt
<1>5. CASE /\ Goto(i, IF Exhausted(c) THEN "range" ELSE "handle")
           /\ UNCHANGED <<localVars, interrupted>>
  <2>1. PICK label \in {"range", "handle"} :
          Goto(i, label) /\ (label = "range" <=> Exhausted(c))
    BY <1>5
  <2>2. label \in Working \ {"ack"}
    BY <2>1 DEF Working
  <2>3. Proceeds(i) /\ pc'[i] = label
    BY <1>2, <1>5, <2>1, <2>2, ToLabel
  <2>4. ASSUME c \notin interrupted PROVE EntryInv(c)'
    <3>1. c \in pending /\ attempts[c] \in Nat /\ MaxAttempts \in Nat
      BY <1>1, <1>2, <2>4, CurrentOpen, ConsumerAssumption DEF TypeOK
    <3>2. /\ label = "handle" => attempts[c] <= MaxAttempts
          /\ label = "range" => attempts[c] > MaxAttempts
          /\ label # "copy"
      BY <2>1, <3>1 DEF Exhausted
    <3>3. QED
      BY <1>1, <1>2, <1>3, <1>5, <2>1, <2>2, <2>4, <3>2, OnwardInv
  <2>5. QED
    BY <1>1, <1>2, <1>3, <1>5, <2>1, <2>3, <2>4, WorkKeeps
<1>6. QED
  BY <1>1, <1>4, <1>5 DEF recoverOne

\* An entry that does not parse goes to the dead-letter stream.
LEMMA ParseKeeps ==
    ASSUME IInv, NEW i \in Instances, parseFails(i), trouble' \in 0..MaxTrouble
    PROVE  IInv'
<1>1. PICK c : c = Current(i)
  OBVIOUS
<1>2. /\ pc[i] = "handle" /\ pc[i] \in Working \ {"ack"} /\ batch[i] # {} /\ c \in Malformed
      /\ c \in Entries /\ c \in batch[i] /\ TypeOK /\ "copy" \in Working
      /\ Goto(i, "copy")
      /\ UNCHANGED <<streamVars, groupVars, dead, ctxDone, localVars, historyVars, interrupted>>
  BY <1>1, CurrentIn DEF parseFails, Working, IInv, BatchInv
<1>3. /\ UNCHANGED <<delivered, pending, stale, attempts, successes, failures>>
      /\ successes \in [Entries -> 0..2] /\ failures \in [Entries -> 0..(MaxAttempts + 1)]
      /\ successes[c] \in Nat
  BY <1>2 DEF groupVars, historyVars, TypeOK
<1>4. Proceeds(i) /\ pc'[i] = "copy"
  BY <1>2, ToLabel
<1>5. c \notin interrupted => EntryInv(c)'
  BY <1>1, <1>2, <1>3, OnwardInv
<1>6. QED
  BY <1>1, <1>2, <1>3, <1>4, <1>5, WorkKeeps

\* The handler answers, and its answer is counted.
LEMMA HandlerKeeps ==
    ASSUME IInv, NEW i \in Instances, NEW ok \in BOOLEAN, handlerReturns(i, ok),
           trouble' \in 0..MaxTrouble
    PROVE  IInv'
<1>1. PICK c : c = Current(i)
  OBVIOUS
<1>2. /\ pc[i] = "handle" /\ pc[i] \in Working \ {"ack"} /\ batch[i] # {} /\ c \notin Malformed
      /\ c \in Entries /\ c \in batch[i] /\ TypeOK /\ "ack" \in Working
      /\ UNCHANGED <<streamVars, groupVars, dead, ctxDone, interrupted>>
  BY <1>1, CurrentIn DEF handlerReturns, Working, IInv, BatchInv
<1>3. /\ UNCHANGED <<delivered, pending, stale, attempts>>
      /\ successes \in [Entries -> 0..2] /\ failures \in [Entries -> 0..(MaxAttempts + 1)]
      /\ successes[c] \in Nat /\ attempts[c] \in Nat /\ MaxAttempts \in Nat
  BY <1>2, ConsumerAssumption DEF groupVars, TypeOK
<1>4. c \notin interrupted =>
        /\ successes[c] = 0 /\ c \notin dead
        /\ attempts[c] <= MaxAttempts /\ attempts[c] = failures[c] + 1
  <2>1. SUFFICES ASSUME c \notin interrupted
                 PROVE  /\ successes[c] = 0 /\ c \notin dead
                        /\ attempts[c] <= MaxAttempts /\ attempts[c] = failures[c] + 1
    OBVIOUS
  <2>2. successes[c] = 0 /\ EntryInv(c) /\ Active(i, c)
    BY <1>1, <1>2, <2>1, CurrentOpen
  <2>3. attempts[c] <= MaxAttempts
    BY <1>1, <1>2, <2>2 DEF EntryInv, RouteInv, CurrentInv
  <2>4. c \notin dead
    BY <1>2, <1>3, <2>2, <2>3 DEF EntryInv, RouteInv
  <2>5. QED
    BY <1>2, <2>2, <2>3, <2>4 DEF EntryInv, CountInv
<1>5. CASE /\ successes' = [successes EXCEPT ![c] = CountUp(@, 2)]
           /\ Goto(i, "ack") /\ UNCHANGED <<localVars, failures>>
  <2>1. Proceeds(i) /\ pc'[i] = "ack"
    BY <1>2, <1>5, ToLabel
  <2>2. /\ successes' \in [Entries -> 0..2] /\ successes'[c] > 0
        /\ successes'[c] >= successes[c] /\ (successes[c] = 0 => successes'[c] = 1)
        /\ \A e \in Entries \ {c} : successes'[e] = successes[e]
    BY <1>2, <1>3, <1>5 DEF CountUp
  <2>3. c \in Settled'
    BY <1>2, <2>2 DEF Settled, Handled
  <2>4. c \notin interrupted => EntryInv(c)'
    BY <1>1, <1>2, <1>3, <1>4, <1>5, <2>2, DoneInv
  <2>5. QED
    BY <1>1, <1>2, <1>3, <1>5, <2>1, <2>2, <2>3, <2>4, WorkKeeps
<1>6. CASE /\ failures' = [failures EXCEPT ![c] = CountUp(@, MaxAttempts + 1)]
           /\ NextEntry(i) /\ UNCHANGED successes
  <2>1. Proceeds(i) /\ pc'[i] # "ack" /\ pc'[i] # "range" /\ (pc'[i] = "check" => claiming[i])
    BY <1>2, <1>6, ToNext
  <2>2. /\ failures' \in [Entries -> 0..(MaxAttempts + 1)]
        /\ failures[c] \in Nat /\ (failures[c] <= MaxAttempts => failures'[c] = failures[c] + 1)
        /\ \A e \in Entries \ {c} : failures'[e] = failures[e]
    BY <1>2, <1>3, <1>6 DEF CountUp
  <2>3. c \notin interrupted => failures'[c] = attempts[c]
    BY <1>3, <1>4, <2>2
  <2>4. c \notin interrupted => EntryInv(c)'
    BY <1>1, <1>2, <1>3, <1>4, <1>6, <2>3, LeftInv
  <2>5. QED
    BY <1>1, <1>2, <1>3, <1>6, <2>1, <2>2, <2>4, WorkKeeps
<1>7. QED
  BY <1>1, <1>5, <1>6 DEF handlerReturns, Succeed, HandlerFailed

\* XACK closes the entry, and its outcome stays.
LEMMA AckKeeps ==
    ASSUME IInv, NEW i \in Instances, acknowledge(i), trouble' \in 0..MaxTrouble
    PROVE  IInv'
<1>1. PICK c : c = Current(i)
  OBVIOUS
<1>2. /\ pc[i] = "ack" /\ pc[i] \in Working /\ batch[i] # {} /\ NextEntry(i)
      /\ c \in Entries /\ c \in batch[i] /\ TypeOK
      /\ UNCHANGED <<streamVars, dead, ctxDone, historyVars>>
  BY <1>1, CurrentIn DEF acknowledge, Working, IInv, BatchInv
<1>3. /\ UNCHANGED <<successes, failures>>
      /\ successes \in [Entries -> 0..2] /\ failures \in [Entries -> 0..(MaxAttempts + 1)]
      /\ successes[c] \in Nat
  BY <1>2 DEF historyVars, TypeOK
<1>4. Proceeds(i) /\ pc'[i] # "ack" /\ pc'[i] # "range" /\ (pc'[i] = "check" => claiming[i])
  BY <1>2, ToNext
<1>5. CASE XAck(c) /\ UNCHANGED interrupted
  <2>1. /\ pending' = pending \ {c} /\ stale' = stale \ {c} /\ UNCHANGED <<delivered, attempts>>
    BY <1>5 DEF XAck
  <2>2. ASSUME c \notin interrupted PROVE EntryInv(c)'
    <3>1. EntryInv(c)
      BY <1>2, <2>2 DEF IInv, UndisturbedInv
    <3>2. \A j \in Instances : c \notin batch'[j]
      BY <1>1, <1>2, <3>1, ToNext DEF EntryInv, HolderInv
    <3>3. HolderInv(c)'
      BY <1>2, <1>3, <2>1, <3>1, <3>2 DEF EntryInv, HolderInv
    <3>4. RouteInv(c)'
      BY <1>2, <2>1, <3>1, <3>2 DEF EntryInv, RouteInv, CurrentInv
    <3>5. c \notin Malformed => CountInv(c)'
      BY <1>2, <1>3, <2>1, <3>1, <3>2 DEF EntryInv, CountInv, Active
    <3>6. QED
      BY <3>3, <3>4, <3>5 DEF EntryInv
  <2>3. QED
    BY <1>1, <1>2, <1>3, <1>4, <1>5, <2>1, <2>2, WorkKeeps
<1>6. CASE (XAck(c) \/ UNCHANGED groupVars) /\ Interrupt({c})
  <2>1. /\ UNCHANGED <<delivered, attempts>>
        /\ \/ pending' = pending \ {c} /\ stale' = stale \ {c}
           \/ UNCHANGED <<pending, stale>>
    BY <1>6 DEF XAck, groupVars
  <2>2. QED
    BY <1>1, <1>2, <1>3, <1>4, <1>6, <2>1, WorkKeeps DEF Interrupt
<1>7. QED
  BY <1>1, <1>5, <1>6 DEF acknowledge

\* The entry worked on, at one of deadLetter's calls, has used up its attempts.
LEMMA ExhaustedForm ==
    ASSUME IInv, NEW i \in Instances, NEW c \in Entries \ interrupted, c = Current(i),
           pc[i] \in {"range", "copy"}
    PROVE  /\ successes[c] = 0
           /\ c \in Malformed \/ (attempts[c] > MaxAttempts /\ failures[c] = MaxAttempts)
<1>1. pc[i] # "ack" /\ batch[i] # {}
  BY DEF IInv, BatchInv, Working
<1>2. successes[c] = 0 /\ EntryInv(c) /\ Active(i, c) /\ c \in batch[i]
  BY <1>1, CurrentOpen, CurrentIn DEF IInv
<1>3. c \in Malformed \/ attempts[c] > MaxAttempts
  BY <1>2 DEF EntryInv, RouteInv, CurrentInv
<1>4. c \notin Malformed => attempts[c] = failures[c] + 1
  BY <1>2 DEF EntryInv, CountInv
<1>5. /\ attempts[c] \in 0..(MaxAttempts + 1) /\ failures[c] \in 0..(MaxAttempts + 1)
      /\ MaxAttempts \in Nat
  BY ConsumerAssumption DEF IInv, TypeOK
<1>6. QED
  BY <1>2, <1>3, <1>4, <1>5

\* XRANGE shows whether there is something left to copy.
LEMMA RangeKeeps ==
    ASSUME IInv, NEW i \in Instances, deadLetter(i), trouble' \in 0..MaxTrouble
    PROVE  IInv'
<1>1. PICK c : c = Current(i)
  OBVIOUS
<1>2. /\ pc[i] = "range" /\ pc[i] \in Working \ {"ack"} /\ batch[i] # {}
      /\ c \in Entries /\ c \in batch[i] /\ TypeOK /\ "copy" \in Working /\ "ack" \in Working
      /\ UNCHANGED <<streamVars, groupVars, dead, ctxDone, historyVars, interrupted>>
  BY <1>1, CurrentIn DEF deadLetter, Working, IInv, BatchInv
<1>3. /\ UNCHANGED <<delivered, pending, stale, attempts, successes, failures>>
      /\ successes \in [Entries -> 0..2] /\ failures \in [Entries -> 0..(MaxAttempts + 1)]
      /\ successes[c] \in Nat /\ attempts[c] \in Nat /\ MaxAttempts \in Nat
  BY <1>2, ConsumerAssumption DEF groupVars, historyVars, TypeOK
<1>4. c \notin interrupted =>
        successes[c] = 0 /\ (c \in Malformed \/ (attempts[c] > MaxAttempts /\ failures[c] = MaxAttempts))
  BY <1>1, <1>2, ExhaustedForm
<1>5. ASSUME c \notin interrupted PROVE attempts[c] > MaxAttempts
  BY <1>1, <1>2, <1>5, CurrentOpen DEF EntryInv, RouteInv, CurrentInv
<1>6. CASE Goto(i, "copy") /\ UNCHANGED localVars
  <2>1. Proceeds(i) /\ pc'[i] = "copy" /\ claiming[i]
    BY <1>2, <1>6, ToLabel DEF IInv, BatchInv
  <2>2. c \notin interrupted => EntryInv(c)'
    BY <1>1, <1>2, <1>3, <1>4, <1>6, OnwardInv
  <2>3. QED
    BY <1>1, <1>2, <1>3, <1>6, <2>1, <2>2, WorkKeeps
<1>7. CASE Goto(i, "ack") /\ UNCHANGED localVars /\ c <= trimmed
  <2>1. Proceeds(i) /\ pc'[i] = "ack"
    BY <1>2, <1>7, ToLabel
  <2>2. c \notin interrupted => EntryInv(c)'
    <3>1. SUFFICES ASSUME c \notin interrupted PROVE EntryInv(c)'
      OBVIOUS
    <3>2. /\ successes'[c] = 0
          /\ c \in Malformed \/ (attempts[c] > MaxAttempts /\ failures'[c] = MaxAttempts)
      BY <1>3, <1>4, <3>1
    <3>3. QED
      BY <1>1, <1>2, <1>3, <1>7, <3>1, <3>2, DoneInv
  <2>3. QED
    BY <1>1, <1>2, <1>3, <1>7, <2>1, <2>2, WorkKeeps
<1>8. CASE NextEntry(i)
  <2>1. Proceeds(i) /\ pc'[i] # "ack" /\ pc'[i] # "range" /\ (pc'[i] = "check" => claiming[i])
    BY <1>2, <1>8, ToNext
  <2>2. c \notin interrupted => EntryInv(c)'
    <3>1. SUFFICES ASSUME c \notin interrupted PROVE EntryInv(c)'
      OBVIOUS
    <3>2. /\ c \in dead' => c \in Malformed \/ attempts[c] > MaxAttempts
          /\ c \notin Malformed =>
               failures'[c] = IF attempts[c] <= MaxAttempts THEN attempts[c] ELSE MaxAttempts
      BY <1>2, <1>3, <1>4, <3>1, <1>5
    <3>3. QED
      BY <1>1, <1>2, <1>3, <3>1, <3>2, <1>8, LeftInv
  <2>3. QED
    BY <1>1, <1>2, <1>3, <1>8, <2>1, <2>2, WorkKeeps
<1>9. ~(trimmed < c) => c <= trimmed
  BY <1>2, Numbers
<1>10. QED
  BY <1>1, <1>6, <1>7, <1>8, <1>9 DEF deadLetter

\* XADD to the dead-letter stream: the copy comes before the acknowledgement.
LEMMA CopyKeeps ==
    ASSUME IInv, NEW i \in Instances, deadLetterEntry(i), trouble' \in 0..MaxTrouble
    PROVE  IInv'
<1>1. PICK c : c = Current(i)
  OBVIOUS
<1>2. /\ pc[i] = "copy" /\ pc[i] \in Working \ {"ack"} /\ batch[i] # {}
      /\ c \in Entries /\ c \in batch[i] /\ TypeOK /\ "ack" \in Working
      /\ UNCHANGED <<streamVars, groupVars, ctxDone, historyVars, interrupted>>
  BY <1>1, CurrentIn DEF deadLetterEntry, Working, IInv, BatchInv
<1>3. /\ UNCHANGED <<delivered, pending, stale, attempts, successes, failures>>
      /\ successes \in [Entries -> 0..2] /\ failures \in [Entries -> 0..(MaxAttempts + 1)]
      /\ successes[c] \in Nat /\ attempts[c] \in Nat /\ MaxAttempts \in Nat
  BY <1>2, ConsumerAssumption DEF groupVars, historyVars, TypeOK
<1>4. c \notin interrupted =>
        successes[c] = 0 /\ (c \in Malformed \/ (attempts[c] > MaxAttempts /\ failures[c] = MaxAttempts))
  BY <1>1, <1>2, ExhaustedForm
<1>5. CASE dead' = dead \cup {c} /\ Goto(i, "ack") /\ UNCHANGED localVars
  <2>1. Proceeds(i) /\ pc'[i] = "ack"
    BY <1>2, <1>5, ToLabel
  <2>2. c \in Settled'
    BY <1>5 DEF Settled
  <2>3. c \notin interrupted => EntryInv(c)'
    <3>1. SUFFICES ASSUME c \notin interrupted PROVE EntryInv(c)'
      OBVIOUS
    <3>2. /\ successes'[c] = 0
          /\ c \in Malformed \/ (attempts[c] > MaxAttempts /\ failures'[c] = MaxAttempts)
      BY <1>3, <1>4, <3>1
    <3>3. QED
      BY <1>1, <1>2, <1>3, <1>5, <3>1, <3>2, DoneInv
  <2>4. QED
    BY <1>1, <1>2, <1>3, <1>5, <2>1, <2>2, <2>3, WorkKeeps
<1>6. CASE dead' \in {dead, dead \cup {c}} /\ NextEntry(i)
  <2>1. Proceeds(i) /\ pc'[i] # "ack" /\ pc'[i] # "range" /\ (pc'[i] = "check" => claiming[i])
    BY <1>2, <1>6, ToNext
  <2>2. c \notin interrupted => EntryInv(c)'
    <3>1. SUFFICES ASSUME c \notin interrupted PROVE EntryInv(c)'
      OBVIOUS
    <3>2. c \in Malformed \/ attempts[c] > MaxAttempts
      BY <1>4, <3>1
    <3>3. /\ c \in dead' => c \in Malformed \/ attempts[c] > MaxAttempts
          /\ c \notin Malformed =>
               failures'[c] = IF attempts[c] <= MaxAttempts THEN attempts[c] ELSE MaxAttempts
      BY <1>3, <1>4, <3>1, <3>2
    <3>4. QED
      BY <1>1, <1>2, <1>3, <3>1, <3>3, <1>6, LeftInv
  <2>3. QED
    BY <1>1, <1>2, <1>3, <1>6, <2>1, <2>2, WorkKeeps
<1>7. QED
  BY <1>1, <1>5, <1>6 DEF deadLetterEntry, CopyFailed

-----------------------------------------------------------------------------
(* The invariant holds, and what follows from it.                          *)

\* Every step keeps the invariant.
LEMMA StepKeeps ==
    ASSUME IInv, Step
    PROVE  IInv'
<1>1. trouble' \in 0..MaxTrouble
  BY DEF Step
<1>2. ASSUME NEW i \in Instances, OnCurrent(i) PROVE IInv'
  <2>1. ASSUME NEW ok \in BOOLEAN, handlerReturns(i, ok) PROVE IInv'
    BY <1>1, <2>1, HandlerKeeps
  <2>2. QED
    BY <1>1, <1>2, <2>1, CheckKeeps, ParseKeeps, AckKeeps, RangeKeeps, CopyKeeps DEF OnCurrent
<1>3. QED
  BY <1>1, <1>2, GrowsKeeps, MovesKeeps, DieKeeps, ReadKeeps, ClaimKeeps DEF Step

\* It holds when the processes start.
LEMMA InitHolds ==
    ASSUME Init
    PROVE  IInv
<1>1. TypeOK
  BY ConsumerAssumption DEF Init, TypeOK, Labels
<1>2. BatchInv /\ UnreadInv /\ AckInv
  BY DEF Init, BatchInv, UnreadInv, AckInv, Working
<1>3. ASSUME NEW e \in Entries PROVE EntryInv(e)
  BY <1>3, ConsumerAssumption
     DEF Init, EntryInv, HolderInv, RouteInv, CurrentInv, CountInv, Active, Acking
<1>4. QED
  BY <1>1, <1>2, <1>3 DEF IInv, UndisturbedInv

\* The invariant, for the specification.
LEMMA Invariant == Spec => []IInv
<1>1. IInv /\ [Next]_vars => IInv'
  BY NextIsStep, StepKeeps DEF IInv
<1>2. QED
  BY InitHolds, <1>1, PTL DEF Spec

(***************************************************************************)
(* Every variable of the consumer keeps its type: entries are pending only *)
(* when delivered, and the counts stay within their bounds.                *)
(***************************************************************************)
THEOREM TypeCorrect == Spec => []TypeOK
<1>1. IInv => TypeOK
  BY DEF IInv
<1>2. QED
  BY <1>1, Invariant, PTL

(***************************************************************************)
(* An event reaches the dead-letter stream after exactly MaxAttempts       *)
(* failures of its handler, unless a delivery of it was cut short          *)
(* (consumer.go:194-196), whatever the page sizes and however many         *)
(* instances claim from each other.                                        *)
(***************************************************************************)
THEOREM AttemptsAreExact == Spec => []AttemptsExact
<1>1. IInv => AttemptsExact
  <2>1. dead \subseteq Entries \/ ~TypeOK
    BY Numbers, ConsumerAssumption DEF TypeOK, Entries
  <2>2. QED
    BY <2>1 DEF IInv, UndisturbedInv, EntryInv, CountInv, AttemptsExact
<1>2. QED
  BY <1>1, Invariant, PTL

(***************************************************************************)
(* An event no delivery of which was cut short is handled at most once,    *)
(* and never both handled and dead-lettered (consumer.go:269-275).         *)
(***************************************************************************)
THEOREM EveryEntryOneOutcome == Spec => []OneOutcome
<1>1. IInv => OneOutcome
  BY DEF IInv, UndisturbedInv, EntryInv, HolderInv, OneOutcome
<1>2. QED
  BY <1>1, Invariant, PTL

-----------------------------------------------------------------------------
(* The promise.                                                            *)

promiseVars == <<added, trimmed, Settled, Closed>>

\* A step that leaves the stream, the outcomes and the group's list stutters.
LEMMA Stutters ==
    ASSUME UNCHANGED <<streamVars, delivered, pending, dead, successes>>
    PROVE  UNCHANGED promiseVars
BY DEF promiseVars, streamVars, Settled, Handled, Closed

\* Taking entries off the pending list closes them.
LEMMA Closes ==
    ASSUME IInv, NEW S \in SUBSET Entries, S \subseteq Settled \cup {e \in Entries : e <= trimmed},
           UNCHANGED <<streamVars, dead, successes>>,
           Closed' = Closed \cup S, \A e \in S : e <= added
    PROVE  Promise!Next
<1>1. S \in SUBSET (1..added) /\ S \subseteq Settled \cup 1..trimmed
  BY Numbers DEF IInv, Entries
<1>2. Settled' = Settled
  BY DEF Settled, Handled
<1>3. Promise!Close(S)
  BY <1>1, <1>2 DEF Promise!Close, streamVars
<1>4. QED
  BY <1>1, <1>3 DEF Promise!Next

\* An outcome of one entry settles it.
LEMMA Settles ==
    ASSUME IInv, NEW c \in Entries, c <= delivered,
           UNCHANGED <<streamVars, delivered, pending>>, Settled' = Settled \cup {c}
    PROVE  Promise!Next
<1>1. c <= added
  BY Numbers DEF IInv
<1>2. Closed' = Closed
  BY DEF Closed
<1>3. Promise!Settle(c)
  BY <1>1, <1>2 DEF Promise!Settle, streamVars
<1>4. QED
  BY <1>3 DEF Promise!Next, Promise!Entries, Entries

\* Each step is one of the promise's, or stutters.
LEMMA StepPromised ==
    ASSUME IInv, Step
    PROVE  Promise!Next \/ UNCHANGED promiseVars
<1> USE DEF historyVars
<1>1. TypeOK
  BY DEF IInv
<1>2. CASE Grows
  <2>1. added' \in (added + 1)..NumEntries
    BY <1>1, <1>2, Numbers DEF Grows
  <2>2. Settled' = Settled /\ Closed' = Closed
    BY <1>2 DEF Grows, groupVars, Settled, Handled, Closed
  <2>3. QED
    BY <1>2, <2>1, <2>2 DEF Grows, Promise!Next, Promise!Publish
<1>3. CASE Idles \/ Signals
  BY <1>3, Stutters DEF Idles, Signals, groupVars
<1>4. ASSUME NEW i \in Instances, Moves(i) \/ Die(i) PROVE UNCHANGED promiseVars
  <2>1. CASE Moves(i)
    BY <2>1, Stutters DEF Moves, ensureGroup, loopHead, backoff, Restart, groupVars
  <2>2. CASE Die(i)
    BY <2>2, Stutters DEF Die, groupVars
  <2>3. QED
    BY <1>4, <2>1, <2>2
<1>5. ASSUME NEW i \in Instances, readNew(i) PROVE Promise!Next \/ UNCHANGED promiseVars
  <2> DEFINE new == Oldest(Unread, ReadCount)
  <2>1. CASE UNCHANGED groupVars
    BY <1>5, <2>1, Stutters DEF readNew, groupVars
  <2>2. CASE XReadGroup(new)
    <3> DEFINE S == {e \in Entries : delivered < e /\ e <= delivered' /\ e \notin new}
    <3>1. /\ delivered' \in delivered..added /\ new \subseteq Entries
          /\ \A e \in new : delivered < e /\ e <= delivered'
          /\ \A e \in S : e <= trimmed
      BY <1>1, <2>2, ReadForm
    <3>2. pending' = pending \cup new
      BY <2>2 DEF XReadGroup
    <3>3. Closed' = Closed \cup S
      <4>1. ASSUME NEW e \in Entries PROVE e \in Closed' <=> e \in Closed \/ e \in S
        BY <1>1, <3>1, <3>2, Numbers DEF Closed
      <4>2. QED
        BY <4>1 DEF Closed
    <3>4. \A e \in S : e <= added
      BY <1>1, <3>1, Numbers
    <3>5. UNCHANGED <<streamVars, dead, successes>>
      BY <1>5 DEF readNew
    <3> HIDE DEF S
    <3>6. QED
      BY <3>1, <3>3, <3>4, <3>5, Closes DEF S
  <2>3. QED
    BY <1>5, <2>1, <2>2 DEF readNew
<1>6. ASSUME NEW i \in Instances, recoverStuck(i) PROVE Promise!Next \/ UNCHANGED promiseVars
  <2>1. CASE UNCHANGED groupVars
    BY <1>6, <2>1, Stutters DEF recoverStuck, groupVars
  <2>2. CASE XAutoClaim(i)
    <3> DEFINE S == Page(i) \ Claimed(i)
    <3>1. S \subseteq pending /\ pending \subseteq Entries /\ \A e \in S : e <= trimmed
      BY <1>1, PageForm, Numbers
    <3>2. delivered' = delivered /\ pending' = pending \ S
      BY <2>2 DEF XAutoClaim
    <3>3. \A e \in S : e <= delivered /\ e <= added
      BY <1>1, <3>1, Numbers
    <3> HIDE DEF S
    <3>4. Closed' = Closed \cup S
      BY <3>1, <3>2, <3>3 DEF Closed
    <3>5. UNCHANGED <<streamVars, dead, successes>>
      BY <1>6 DEF recoverStuck
    <3>6. QED
      BY <3>1, <3>3, <3>4, <3>5, Closes
  <2>3. QED
    BY <1>6, <2>1, <2>2 DEF recoverStuck
<1>7. ASSUME NEW i \in Instances, OnCurrent(i) PROVE Promise!Next \/ UNCHANGED promiseVars
  <2>1. PICK c : c = Current(i)
    OBVIOUS
  <2>2. pc[i] \in Working => c \in Entries /\ c <= delivered /\ c \in 1..delivered
    BY <1>1, <2>1, CurrentIn, Numbers DEF IInv, BatchInv
  <2>3. CASE recoverOne(i) \/ parseFails(i) \/ deadLetter(i)
    BY <2>3, Stutters DEF recoverOne, parseFails, deadLetter, groupVars
  <2>4. ASSUME NEW ok \in BOOLEAN, handlerReturns(i, ok) PROVE Promise!Next \/ UNCHANGED promiseVars
    <3>1. /\ c \in Entries /\ c <= delivered
          /\ UNCHANGED <<streamVars, delivered, pending, dead>>
      BY <2>1, <2>2, <2>4 DEF handlerReturns, Working, groupVars
    <3>2. CASE UNCHANGED successes
      BY <3>1, <3>2, Stutters
    <3>3. CASE successes' = [successes EXCEPT ![c] = CountUp(@, 2)]
      <4>1. successes'[c] > 0 /\ \A e \in Entries \ {c} : successes'[e] = successes[e]
        BY <1>1, <3>1, <3>3 DEF CountUp, TypeOK
      <4>2. Settled' = Settled \cup {c}
        BY <3>1, <4>1 DEF Settled, Handled
      <4>3. QED
        BY <3>1, <4>2, Settles
    <3>4. QED
      BY <2>1, <2>4, <3>2, <3>3 DEF handlerReturns
  <2>5. CASE acknowledge(i)
    <3>1. /\ c \in Entries /\ c <= delivered /\ (c \in Settled \/ c <= trimmed)
          /\ UNCHANGED <<streamVars, dead, successes>>
      BY <2>1, <2>2, <2>5 DEF acknowledge, Working, IInv, AckInv
    <3>2. CASE UNCHANGED groupVars
      BY <3>1, <3>2, Stutters DEF groupVars
    <3>3. CASE XAck(c)
      <4>1. Closed' = Closed \cup {c}
        BY <3>1, <3>3 DEF XAck, Closed
      <4>2. PICK S : S = {c}
        OBVIOUS
      <4>3. /\ S \in SUBSET Entries /\ S \subseteq Settled \cup {e \in Entries : e <= trimmed}
            /\ \A e \in S : e <= added
        BY <1>1, <3>1, <4>2, Numbers
      <4>4. QED
        BY <3>1, <4>1, <4>2, <4>3, Closes
    <3>4. QED
      BY <2>1, <2>5, <3>2, <3>3 DEF acknowledge
  <2>6. CASE deadLetterEntry(i)
    <3>1. /\ c \in Entries /\ c <= delivered
          /\ UNCHANGED <<streamVars, delivered, pending, successes>>
      BY <2>1, <2>2, <2>6 DEF deadLetterEntry, Working, groupVars
    <3>2. dead' = dead \/ dead' = dead \cup {c}
      BY <2>1, <2>6 DEF deadLetterEntry
    <3>3. CASE dead' = dead
      BY <3>1, <3>3, Stutters
    <3>4. CASE dead' = dead \cup {c}
      <4>1. Settled' = Settled \cup {c}
        BY <3>1, <3>4 DEF Settled, Handled
      <4>2. QED
        BY <3>1, <4>1, Settles
    <3>5. QED
      BY <3>2, <3>3, <3>4
  <2>7. QED
    BY <1>7, <2>3, <2>4, <2>5, <2>6 DEF OnCurrent
<1>8. QED
  BY <1>2, <1>3, <1>4, <1>5, <1>6, <1>7 DEF Step

\* Nothing is settled or closed at first.
LEMMA InitPromised ==
    ASSUME Init
    PROVE  Promise!Init
<1>1. Settled = {}
  BY DEF Init, Settled, Handled
<1>2. \A e \in Entries : ~(e <= delivered)
  BY ConsumerAssumption DEF Init, Entries
<1>3. Closed = {}
  BY <1>2 DEF Closed
<1>4. QED
  BY <1>1, <1>3 DEF Init, Promise!Init

(***************************************************************************)
(* The consumer implements AtLeastOnce: through crashes, shutdowns, lost   *)
(* answers and instances that overtake each other, the group is never done *)
(* with an entry that is neither handled nor dead-lettered nor trimmed     *)
(* (consumer.go:2, 204-207, 225-226).                                      *)
(***************************************************************************)
THEOREM RefinesAtLeastOnce == Spec => ImplementsAtLeastOnce
<1>1. Init => Promise!Init
  BY InitPromised
<1>2. IInv /\ [Next]_vars => [Promise!Next]_promiseVars
  BY NextIsStep, StepPromised DEF IInv
<1>3. QED
  BY <1>1, <1>2, Invariant, PTL DEF Spec, ImplementsAtLeastOnce, Promise!Spec, promiseVars
=============================================================================
