------------------------- MODULE VerdictLoopProofs -------------------------
(***************************************************************************)
(* The aggregation loop computes the worst status of its parts, for any    *)
(* number of parts in any order.                                           *)
(***************************************************************************)
EXTENDS VerdictLoop, StatusLemmas

(***************************************************************************)
(* The loop's invariant.                                                   *)
(***************************************************************************)
LoopInv == TypeOK /\ LoopComputesWorst

LEMMA LoopInvHolds == Spec => []LoopInv
<1>1. Init => LoopInv
  <2>1. SUFFICES ASSUME Init PROVE LoopInv
    OBVIOUS
  <2>2. TypeOK
    BY <2>1 DEF Init, TypeOK, Statuses
  <2>3. WorstOf({}) = "passed"
    BY WorstOfIsWorst
  <2>4. QED
    BY <2>1, <2>2, <2>3 DEF Init, LoopInv, LoopComputesWorst
<1>2. LoopInv /\ [Next]_vars => LoopInv'
  <2>1. SUFFICES ASSUME LoopInv, [Next]_vars PROVE LoopInv'
    OBVIOUS
  <2>2. CASE UNCHANGED vars
    BY <2>1, <2>2 DEF LoopInv, TypeOK, LoopComputesWorst, vars
  <2>3. ASSUME NEW s \in Statuses, Fold(s) PROVE LoopInv'
    <3>1. TypeOK'
      BY <2>1, <2>3 DEF LoopInv, TypeOK, Fold, worstStatus
    <3>2. WorstOf(seen \cup {s}) = worstStatus(WorstOf(seen), s)
      BY <2>1, WorstOfAdd DEF LoopInv, TypeOK
    <3>3. QED
      BY <2>1, <2>3, <3>1, <3>2 DEF LoopInv, LoopComputesWorst, Fold
  <2>4. QED
    BY <2>1, <2>2, <2>3 DEF Next
<1>3. QED
  BY <1>1, <1>2, PTL DEF Spec

(***************************************************************************)
(* The Status methods return the worst status of their parts, for any      *)
(* number of parts in any order (result.go:50-53, 86-89, 111-114).         *)
(***************************************************************************)
THEOREM LoopCorrect == Spec => []LoopComputesWorst
<1>1. LoopInv => LoopComputesWorst
  BY DEF LoopInv
<1>2. QED
  BY <1>1, LoopInvHolds, PTL

(***************************************************************************)
(* The fail-fast gate fires exactly when a part is Failed or Errored       *)
(* (orchestrator.go:107).                                                  *)
(***************************************************************************)
THEOREM GateCorrect == Spec => []GateSeesEveryBadPart
<1>1. LoopInv => GateSeesEveryBadPart
  BY WorstOfBad DEF LoopInv, TypeOK, LoopComputesWorst, GateSeesEveryBadPart
<1>2. QED
  BY <1>1, LoopInvHolds, PTL
=============================================================================
