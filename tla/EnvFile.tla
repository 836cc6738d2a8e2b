------------------------------ MODULE EnvFile -------------------------------
(***************************************************************************)
(* internal/runner/envfile.go: the file through which a step hands         *)
(* variables to the later steps of its job.  A line is <<>> when it is     *)
(* blank or has no "=", and <<key, value>> otherwise.                      *)
(***************************************************************************)
EXTENDS Naturals, Sequences

EnvLines == {<<>>} \cup (STRING \X STRING)

\* Seeded fault: the first value of a key wins.
Assign_FirstWins(env, line) ==
    IF line = <<>> \/ line[1] \in DOMAIN env THEN env
    ELSE [k \in DOMAIN env \cup {line[1]} |-> IF k = line[1] THEN line[2] ELSE env[k]]

\* One turn of parseEnvFile's loop.
Assign(env, line) ==
    IF line = <<>> THEN env
    ELSE [k \in DOMAIN env \cup {line[1]} |-> IF k = line[1] THEN line[2] ELSE env[k]]

\* The map after each of the turns.
envAfter(lines) ==
    LET env[n \in 0..Len(lines)] == IF n = 0 THEN <<>> ELSE Assign(env[n - 1], lines[n])
    IN  env

parseEnvFile(lines) == envAfter(lines)[Len(lines)]
=============================================================================
