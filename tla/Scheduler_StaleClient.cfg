\* Four registrations sharing one group of two servers, three invocations.
CONSTANTS
    Paths <- MCPaths
    NoGrid = NoGrid
    s1 = s1  s2 = s2
    GroupArgs <- MCGroupArgs
    ArgSamples <- MCArgSamples
    MaxRuns = 3

SPECIFICATION Spec
SYMMETRY SrvSymmetry

INVARIANT ExperimentRunsOnLiveGroup

CHECK_DEADLOCK FALSE
