----------------------------- MODULE MCRequest ------------------------------
(* Projects, good and bad, and requests for paths in and around a root.    *)
EXTENDS Request

MCRoots == {<<>>, <<"/", "srv", "ci">>, <<"srv", "..", "ci">>}

\* The root itself, below it, and beside it in several ways.
MCPaths ==
    {<<"/", "srv", "ci">>, <<"/", "srv", ".", "ci", "..data", "app">>,
     <<"/", "srv", "ci", "..", "app">>, <<"/", "srv", "ci-other">>, <<"/", "srv">>,
     <<>>, <<"ci", "app">>, <<"..", "..", "..", "home", "ci">>}

MCCwd == <<"home">>

Cmd(name, run, timeout) == [name |-> name, run |-> run, timeout |-> timeout]
good == Cmd("make", "make", 0)
limited == Cmd("test", "make test", 1)

JobOf(stage, env, steps) == [stage |-> stage, image |-> "alpine", env |-> env, steps |-> steps]
build == JobOf("build", [A |-> "job"], <<good, limited, good>>)
test == JobOf("test", <<>>, <<good>>)

File(stages, jobs) == [stages |-> stages, jobs |-> jobs]

Accepted ==
    {File(<<"build">>, [k \in {1} |-> build]),
     File(<<"build">>, [k \in {1, 2} |-> IF k = 1 THEN [build EXCEPT !.steps = <<limited>>]
                                          ELSE [test EXCEPT !.stage = "build"]]),
     File(<<"test", "build">>, [k \in {1, 2} |-> IF k = 1 THEN [build EXCEPT !.steps = <<good>>] ELSE test])}

Refused ==
    {NoConfig,
     File(<<>>, [k \in {1} |-> build]),
     File(<<"build">>, <<>>),
     File(<<"build", "build">>, [k \in {1} |-> build]),
     File(<<"build", "test">>, [k \in {1} |-> build]),
     File(<<"build">>, [k \in {1, 2} |-> IF k = 1 THEN build ELSE test]),
     File(<<"build">>, [k \in {1, 2} |-> IF k = 1 THEN build ELSE [test EXCEPT !.stage = ""]]),
     File(<<"build">>, [k \in {1} |-> [build EXCEPT !.image = ""]]),
     File(<<"build">>, [k \in {1} |-> [build EXCEPT !.steps = <<>>]])}
    \cup {File(<<"build">>, [k \in {1} |-> [build EXCEPT !.steps = <<s>>]]) :
             s \in {Cmd("", "make", 0), Cmd("make", "", 0), Cmd("make", "make", -1)}}

MCPipelineFiles == Accepted \cup Refused

MCEnvFiles == {[A |-> "env", B |-> "env"]}

\* Nothing; one variable, and again; another, after a line without "=".
MCStepLines == {<<>>, <<<<"A", "1">>, <<"A", "2">>>>, <<<<>>, <<"B", "1">>>>}
=============================================================================
