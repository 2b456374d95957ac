\* Two commands on one connection, silent and without stdin, to check what
\* any_failed returns while their rc records and timeouts land between polls.
CONSTANTS
    t1 = t1
    t2 = t2
    d1 = d1
    Tokens <- MCTokens
    Dirs <- MCDirs
    MaxLines = 0
    MaxPolls = 2
    MaxStdin = 0
    MaxCd = 0
    PollOrder <- MCPollOrder
    WaitFor <- MCNoPoll
    RaiseOnRc = FALSE
    NONE = NONE
    TIMEOUT = TIMEOUT

SPECIFICATION Spec

INVARIANT AnyFailedSound

\* The connection's life ends: after Disconnect every task finishes.
CHECK_DEADLOCK FALSE
