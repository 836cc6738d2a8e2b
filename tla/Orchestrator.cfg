SPECIFICATION Spec
CONSTANTS
    j1 = j1
    j2 = j2
    j3 = j3
    Jobs <- MCJobs
    JobsOf <- MCJobsOf
    NumStages = 2
INVARIANT TypeOK
INVARIANT SiblingsUndisturbed
INVARIANT PassedMeansEveryJobPassed
INVARIANT EveryEndRecorded
INVARIANT StreamNested
PROPERTY ImplementsStagedRun
PROPERTY CancelledRunEnds
