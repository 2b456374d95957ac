-------------------------- MODULE MC_CmdLifecycle --------------------------
(* Model-checking instance of CmdLifecycle: two commands on one connection. *)
EXTENDS CmdLifecycle, TLC

CONSTANTS t1, t2, d1

MCTokens == {t1, t2}
MCDirs == {d1}

\* the list an experiment passes to any_failed: both commands, or no call
MCPollOrder == <<t1, t2>>
MCNoPoll == <<>>

\* the list of all(cmd.wait() == 0 for cmd in cmds): the one command
MCWaitOne == <<t1>>

=============================================================================
