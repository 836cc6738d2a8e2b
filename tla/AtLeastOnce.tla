---------------------------- MODULE AtLeastOnce ----------------------------
(***************************************************************************)
(* What a service is promised that subscribes through internal/consumer    *)
(* (ADR 0001: at-least-once): an event of the stream is closed, never to   *)
(* be delivered again, only when the service handled it or it lies in the  *)
(* dead-letter stream, unless retention removed it first.                  *)
(***************************************************************************)
EXTENDS Naturals

CONSTANT NumEntries     \* entries ever published

VARIABLES
    added,      \* entries published so far
    trimmed,    \* the oldest entries, removed by the stream's retention
    settled,    \* handled with success, or copied to the dead-letter stream
    closed      \* entries the group is done with

Entries == 1..NumEntries

Init ==
    /\ added = 0 /\ trimmed = 0
    /\ settled = {} /\ closed = {}

Publish ==
    /\ added' \in (added + 1)..NumEntries
    /\ trimmed' \in trimmed..added
    /\ UNCHANGED <<settled, closed>>

Settle(e) ==
    /\ e <= added
    /\ settled' = settled \cup {e}
    /\ UNCHANGED <<added, trimmed, closed>>

Close(S) ==
    /\ S \subseteq settled \cup 1..trimmed
    /\ closed' = closed \cup S
    /\ UNCHANGED <<added, trimmed, settled>>

Next ==
    \/ Publish
    \/ \E e \in Entries : Settle(e)
    \/ \E S \in SUBSET (1..added) : Close(S)

Spec == Init /\ [][Next]_<<added, trimmed, settled, closed>>
=============================================================================
