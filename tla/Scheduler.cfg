\* Four registrations and three invocations of the controller.
CONSTANTS
    Paths <- MCPaths
    NoGrid = NoGrid
    s1 = s1  s2 = s2
    GroupArgs <- MCGroupArgs
    ArgSamples <- MCArgSamples
    MaxRuns = 3

SPECIFICATION Spec
SYMMETRY SrvSymmetry

INVARIANT TypeOK
INVARIANT AttemptBound
PROPERTY SkipOnlyCompleted
INVARIANT RerunOnlyAfterLostCheckpoint
INVARIANT GroupKeepsArgumentOrder

\* After the last invocation the controller stays stopped.
CHECK_DEADLOCK FALSE
