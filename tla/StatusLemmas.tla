---------------------------- MODULE StatusLemmas ----------------------------
(***************************************************************************)
(* The order of the statuses and what WorstOf returns: the facts about     *)
(* aggregation that the proofs of the other modules rest on.               *)
(***************************************************************************)
EXTENDS Status, TLAPS

(***************************************************************************)
(* Every status has a rank (result.go:121-139).                            *)
(***************************************************************************)
LEMMA RankNat == \A s \in Statuses : statusRank(s) \in Nat
BY DEF Statuses, statusRank

(***************************************************************************)
(* No two statuses share a rank: the order is linear.                      *)
(***************************************************************************)
LEMMA RankInjective ==
    \A s, t \in Statuses : statusRank(s) = statusRank(t) => s = t
BY DEF Statuses, statusRank

(***************************************************************************)
(* Some status of S and Passed ranks no lower than the others.             *)
(***************************************************************************)
LEMMA WorstExists ==
    ASSUME NEW S \in SUBSET Statuses
    PROVE  \E w \in S \cup {"passed"} :
              \A t \in S \cup {"passed"} : statusRank(t) <= statusRank(w)
<1>1. CASE "errored" \in S
  BY <1>1 DEF Statuses, statusRank
<1>2. CASE "errored" \notin S /\ "failed" \in S
  BY <1>2 DEF Statuses, statusRank
<1>3. CASE S \cap {"errored", "failed"} = {} /\ "unknown" \in S
  BY <1>3 DEF Statuses, statusRank
<1>4. CASE S \cap {"errored", "failed", "unknown"} = {} /\ "running" \in S
  BY <1>4 DEF Statuses, statusRank
<1>5. CASE S \cap {"errored", "failed", "unknown", "running"} = {} /\ "pending" \in S
  BY <1>5 DEF Statuses, statusRank
<1>6. CASE /\ S \cap {"errored", "failed", "unknown", "running", "pending"} = {}
           /\ "skipped" \in S
  BY <1>6 DEF Statuses, statusRank
<1>7. CASE S \subseteq {"passed"}
  BY <1>7 DEF Statuses, statusRank
<1>8. QED
  BY <1>1, <1>2, <1>3, <1>4, <1>5, <1>6, <1>7 DEF Statuses

(***************************************************************************)
(* WorstOf is one of the statuses it is given, or Passed, and ranks no     *)
(* lower than any of them.                                                 *)
(***************************************************************************)
LEMMA WorstOfIsWorst ==
    ASSUME NEW S \in SUBSET Statuses
    PROVE  /\ WorstOf(S) \in S \cup {"passed"}
           /\ WorstOf(S) \in Statuses
           /\ \A t \in S \cup {"passed"} : statusRank(t) <= statusRank(WorstOf(S))
<1>1. \E w \in S \cup {"passed"} :
         \A t \in S \cup {"passed"} : statusRank(t) <= statusRank(w)
  BY WorstExists
<1>2. /\ WorstOf(S) \in S \cup {"passed"}
      /\ \A t \in S \cup {"passed"} : statusRank(t) <= statusRank(WorstOf(S))
  BY <1>1 DEF WorstOf
<1>3. WorstOf(S) \in Statuses
  BY <1>2 DEF Statuses
<1>4. QED
  BY <1>2, <1>3

(***************************************************************************)
(* A status that ranks no lower than the others is WorstOf them: there is  *)
(* no second choice, so the verdict does not depend on the order in which  *)
(* the parts are visited.                                                  *)
(***************************************************************************)
LEMMA WorstOfUnique ==
    ASSUME NEW S \in SUBSET Statuses, NEW w \in S \cup {"passed"},
           \A t \in S \cup {"passed"} : statusRank(t) <= statusRank(w)
    PROVE  WorstOf(S) = w
<1>1. w \in Statuses /\ WorstOf(S) \in Statuses
  BY WorstOfIsWorst DEF Statuses
<1>2. statusRank(WorstOf(S)) <= statusRank(w) /\ statusRank(w) <= statusRank(WorstOf(S))
  BY WorstOfIsWorst
<1>3. statusRank(WorstOf(S)) = statusRank(w)
  BY <1>1, <1>2, RankNat
<1>4. QED
  BY <1>1, <1>3, RankInjective

(***************************************************************************)
(* One turn of the loop: folding s in gives the worst of what was seen     *)
(* and s (result.go:142-147).                                              *)
(***************************************************************************)
LEMMA WorstOfAdd ==
    ASSUME NEW S \in SUBSET Statuses, NEW s \in Statuses
    PROVE  WorstOf(S \cup {s}) = worstStatus(WorstOf(S), s)
<1> DEFINE w == worstStatus(WorstOf(S), s)
<1>1. WorstOf(S) \in S \cup {"passed"} /\ WorstOf(S) \in Statuses
  BY WorstOfIsWorst
<1>2. w \in (S \cup {s}) \cup {"passed"}
  BY <1>1 DEF worstStatus
<1>3. \A t \in S \cup {"passed"} : statusRank(t) <= statusRank(WorstOf(S))
  BY WorstOfIsWorst
<1>4. statusRank(WorstOf(S)) <= statusRank(w) /\ statusRank(s) <= statusRank(w)
  BY <1>1, RankNat DEF worstStatus
<1>5. w \in Statuses
  BY <1>1 DEF worstStatus
<1>6. \A t \in (S \cup {s}) \cup {"passed"} : statusRank(t) <= statusRank(w)
  <2>1. TAKE t \in (S \cup {s}) \cup {"passed"}
  <2>2. CASE t = s
    BY <2>2, <1>4
  <2>3. CASE t \in S \cup {"passed"}
    <3>1. t \in Statuses
      BY <2>3 DEF Statuses
    <3>2. statusRank(t) <= statusRank(WorstOf(S))
      BY <2>3, <1>3
    <3>3. QED
      BY <3>1, <3>2, <1>1, <1>4, <1>5, RankNat
  <2>4. QED
    BY <2>2, <2>3
<1>7. S \cup {s} \in SUBSET Statuses
  OBVIOUS
<1>8. QED
  BY <1>2, <1>6, <1>7, WorstOfUnique

(***************************************************************************)
(* A verdict is bad exactly when one of its parts is.                      *)
(***************************************************************************)
LEMMA WorstOfBad ==
    ASSUME NEW S \in SUBSET Statuses
    PROVE  EndsTheRun(WorstOf(S)) <=> \E s \in S : EndsTheRun(s)
<1>1. WorstOf(S) \in S \cup {"passed"}
      /\ \A t \in S \cup {"passed"} : statusRank(t) <= statusRank(WorstOf(S))
  BY WorstOfIsWorst
<1>2. ASSUME EndsTheRun(WorstOf(S)) PROVE \E s \in S : EndsTheRun(s)
  BY <1>1, <1>2 DEF EndsTheRun
<1>3. ASSUME NEW s \in S, EndsTheRun(s) PROVE EndsTheRun(WorstOf(S))
  <2>1. statusRank(s) >= 5 /\ statusRank(s) <= statusRank(WorstOf(S))
    BY <1>1, <1>3 DEF EndsTheRun, statusRank
  <2>2. WorstOf(S) \in Statuses
    BY WorstOfIsWorst
  <2>3. QED
    BY <2>1, <2>2 DEF EndsTheRun, statusRank, Statuses
<1>4. QED
  BY <1>2, <1>3

(***************************************************************************)
(* A verdict is Passed exactly when every part is.                         *)
(***************************************************************************)
LEMMA WorstOfPassed ==
    ASSUME NEW S \in SUBSET Statuses
    PROVE  WorstOf(S) = "passed" <=> \A s \in S : s = "passed"
<1>1. WorstOf(S) \in S \cup {"passed"}
      /\ \A t \in S \cup {"passed"} : statusRank(t) <= statusRank(WorstOf(S))
  BY WorstOfIsWorst
<1>2. ASSUME WorstOf(S) = "passed", NEW s \in S PROVE s = "passed"
  <2>1. statusRank(s) <= statusRank("passed") /\ s \in Statuses
    BY <1>1, <1>2
  <2>2. QED
    BY <2>1 DEF statusRank, Statuses
<1>3. ASSUME \A s \in S : s = "passed" PROVE WorstOf(S) = "passed"
  BY <1>1, <1>3
<1>4. QED
  BY <1>2, <1>3

=============================================================================
