SPECIFICATION Spec
CONSTANTS
    j1 = j1
    Jobs <- MCJobs
    Timed <- MCTimed
    NumSteps = 2
    NumSetup = 1
    MaxQuiet = 0
INVARIANT FinishedEventsSurviveCancellation
