----------------------------- MODULE MCConsumer -----------------------------
(* Instances and entries for TLC. *)
EXTENDS Consumer

CONSTANTS i1, i2

MCTwo == {i1, i2}
MCMalformed == {2}
=============================================================================
