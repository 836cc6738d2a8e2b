----------------------------- MODULE MCService -----------------------------
(* Two runs of one pipeline with one job, two steps of which share their   *)
(* name, and events of other producers.                                    *)
EXTENDS Service

CONSTANTS build, make

MCInstances == {recorder}
MCRuns == 1..NumRuns
MCJobs == {build}
MCSteps == {make}
MCStepsOf == [j \in MCJobs |-> <<make, make>>]
MCForeign ==
    {[Event("artifact.stored", None, None, None, None) EXCEPT !.run = 1],
     Event("pipeline.started", None, None, None, None),
     [Event("step.finished", 1, build, make, "passed") EXCEPT !.numbers = FALSE]}
=============================================================================
