SPECIFICATION Spec
CONSTANTS
    Roots <- MCRoots
    Paths <- MCPaths
    Cwd <- MCCwd
    PipelineFiles <- MCPipelineFiles
    EnvFiles <- MCEnvFiles
    StepLines <- MCStepLines
INVARIANTS
    RequestTypeOK
    AllowedIffUnderRoot
    RunsEveryJobOnce
    StepSeesLatest
    ResponseIsFinal
    PassedMeansAllPassed
CHECK_DEADLOCK FALSE
