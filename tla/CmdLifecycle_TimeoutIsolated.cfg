\* One command printing one line, one stdin call, one cd after connecting, and two
\* registration polls, on one controller <-> agent connection.
CONSTANTS
    t1 = t1
    t2 = t2
    d1 = d1
    Tokens = {t1}
    Dirs <- MCDirs
    MaxLines = 1
    MaxPolls = 2
    MaxStdin = 1
    MaxCd = 1
    PollOrder <- MCNoPoll
    WaitFor <- MCNoPoll
    RaiseOnRc = FALSE
    NONE = NONE
    TIMEOUT = TIMEOUT

SPECIFICATION Spec

INVARIANT TimeoutIsolated


\* The connection's life ends: after Disconnect every task finishes.
CHECK_DEADLOCK FALSE
