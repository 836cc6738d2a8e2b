--------------------------- MODULE MCDockerRunner ---------------------------
(* DockerRunner on a small instance: see README.md for the bounds.         *)
EXTENDS DockerRunner

CONSTANT j1

MCJobs == {j1}
MCTimed == {2}
=============================================================================
