--------------------------- MODULE MCOrchestrator ---------------------------
(* Orchestrator on a small instance: see README.md for the bounds.         *)
EXTENDS Orchestrator

CONSTANTS j1, j2, j3

MCJobs == {j1, j2, j3}
MCJobsOf == <<{j1, j2}, {j3}>>
=============================================================================
