\* One command printing one line, one stdin call, one cd after connecting, and two
\* registration polls, on one controller <-> agent connection; the experiment
\* waits on it through all(cmd.wait() == 0 ...) under raise_on_rc.
CONSTANTS
    t1 = t1
    t2 = t2
    d1 = d1
    Tokens = {t1}
    Dirs <- MCDirs
    MaxLines = 1
    MaxPolls = 2
    MaxStdin = 1
    MaxCd = 1
    PollOrder <- MCNoPoll
    WaitFor <- MCWaitOne
    RaiseOnRc = TRUE
    NONE = NONE
    TIMEOUT = TIMEOUT

SPECIFICATION Spec

INVARIANT TypeOK
INVARIANT OutputBeforeRc
INVARIANT CwdFollowsIssueOrder
INVARIANT NoProcessOutlivesAgent
PROPERTY RcEventuallyDelivered
 
PROPERTY AgentIdlesOut
PROPERTY HaltStillCleansUp

\* The connection's life ends: after Disconnect every task finishes.
CHECK_DEADLOCK FALSE
