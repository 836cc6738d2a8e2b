SPECIFICATION Spec
CONSTANTS
    j1 = j1
    Jobs <- MCJobs
    Timed <- MCTimed
    NumSteps = 2
    NumSetup = 1
    MaxQuiet = 1
INVARIANT TypeOK
INVARIANT VerdictHonest
INVARIANT NilErrorMeansEveryStepRan
INVARIANT NoOverlap
INVARIANT OnlyUnfinishedCreateLeaks
INVARIANT EventsMatchResults
PROPERTY CancelledRunReturns
PROPERTY TimedStepGetsResult
