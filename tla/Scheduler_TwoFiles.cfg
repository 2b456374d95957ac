\* Two experiment files, each with its own parameterless compile(), in one
\* batch; two invocations (a crash, then --resume).
CONSTANTS
    Paths <- MCPathsTwoFiles
    NoGrid = NoGrid
    s1 = s1  s2 = s2
    GroupArgs <- MCGroupArgs
    ArgSamples <- MCArgSamples
    MaxRuns = 2

SPECIFICATION Spec
SYMMETRY SrvSymmetry

PROPERTY SkipOnlyCompleted

CHECK_DEADLOCK FALSE
