---------------------------- MODULE CmdLifecycle ----------------------------
(***************************************************************************)
(* One controller <-> agent connection of distexprunner.                   *)
(*                                                                         *)
(*  - the RPC transport (_rpc.py): two FIFO byte streams carrying one JSON *)
(*    record per line; the reader loop dispatches each record as a new     *)
(*    asyncio task (fire-and-forget) and runs the disconnect hook on EOF;  *)
(*  - the agent supervisor (_server_impl.py ServerImpl): cd, run_cmd,      *)
(*    kill_cmd, stdin_cmd, the bounded registration poll and the           *)
(*    disconnect hook;                                                     *)
(*  - the controller side (_client_impl.py ClientImpl and the handle       *)
(*    returned by server.py Server.run_cmd): the rc future, output         *)
(*    handlers, timeout task, kill and stdin.                              *)
(*                                                                         *)
(* A handler's code up to its first await runs when the reader loop        *)
(* dispatches the record: asyncio starts tasks in creation order, so that  *)
(* first segment runs in arrival order.  Each later segment (after an      *)
(* await) is an action of its own.  Output is one stream per command       *)
(* (stdout; stderr is handled by identical code).                          *)
(***************************************************************************)
EXTENDS Naturals, Sequences, FiniteSets

CONSTANTS
    Tokens,     \* the uuids the controller gives its commands
    Dirs,       \* directories a cd may name
    MaxLines,   \* lines a process may print
    MaxPolls,   \* registration polls of kill_cmd / stdin_cmd (10 in the code)
    MaxStdin,   \* stdin calls the user may make per command
    MaxCd,      \* cd calls the user may make after connecting
    PollOrder,  \* the cmds list the experiment passes to any_failed (<<>>: no call)
    WaitFor,    \* the cmds of all(cmd.wait() == 0 for cmd in cmds), in order
    RaiseOnRc,  \* the registration's raise_on_rc (exception_handler installed)
    NONE,       \* the rc future is not done (a model value)
    TIMEOUT     \* ReturnCode.TIMEOUT (a model value)

ASSUME MaxPolls \in Nat \ {0} /\ MaxLines \in Nat /\ MaxStdin \in Nat /\ MaxCd \in Nat

KILLED  == 9                \* exit status of a process ended by SIGKILL (-9)
DefaultDir == "default"     \* the agent's cwd before any cd (None)
ExitCodes == {0, 1, KILLED} \* success, a failing command, killed

VARIABLES
    c2a,          \* controller -> agent byte stream, records in order
    a2c,          \* agent -> controller byte stream
    ctlOpen,      \* the controller's writer is open (Server._connect .. _disconnect)
    agOpen,       \* the agent's writer is open (closed by its read loop on EOF)
    cleaned,      \* the agent ran _on_disconnect
    \* controller side
    issued,       \* run_cmd was called for the token
    rcFut,        \* the rc future: NONE, an exit code or TIMEOUT
    timer,        \* timeout task: "none", "armed", "fired"
    handler,      \* a stdout handler was installed by run_cmd
    seen,         \* lines the stdout handlers received
    raised,       \* tokens whose rc handler raised BadReturnCode
    userKilled,   \* the handle's kill() was called
    stdinSent,    \* stdin() calls made on the handle
    cdSent,       \* cd calls the user made
    lastCd,       \* the last directory the controller sent with cd
    issueCwd,     \* lastCd when run_cmd was sent
    \* agent side
    cwd,          \* ServerImpl.__cwd
    runPc,        \* run_cmd task: idle, spawning, streaming, done
    registered,   \* the keys of ServerImpl.__processes
    proc,         \* the OS process: none, alive, dead
    exitCode,     \* its exit status once dead
    produced,     \* lines the process wrote to its stdout pipe
    forwarded,    \* lines _read_stream forwarded to the controller
    spawnCwd,     \* the cwd the process was started in
    killTasks,    \* kill_cmd tasks polling for registration: [tok, waits]
    stdinTasks,   \* stdin_cmd tasks polling for registration: [tok, waits, close]
    stdinClosed,  \* the process's stdin was closed (write_eof)
    written,      \* the stdin() calls whose line reached the process, in order
    hooked,       \* ServerImpl.__at_exit is registered with atexit
    agAlive,      \* the agent process is running
    \* the experiment thread inside utils.any_failed
    afPc,         \* "before" the call, "polling", or "returned"
    afRet,        \* its return value (False is 0 in Python), NONE before it returns
    \* the experiment thread in all(cmd.wait() == 0 for cmd in WaitFor)
    wIdx,         \* position in WaitFor of the last wait() called
    wPc,          \* "idle", or "blocked" in run_until_complete(rc_future)
    verdict,      \* NONE, "ok" (all() is true) or "restart" (return Action.RESTART)
    halted,       \* BadReturnCode stopped the loop: RuntimeError ended the batch
    stopPending,  \* loop.stop() ended a run_until_complete whose future was
                  \* already done: that future's _run_until_complete_cb is
                  \* still queued and stops the next run_forever
    disconnected  \* _disconnect_from_all returned; add_run follows

waitVars == <<wIdx, wPc, verdict, halted, stopPending, disconnected>>
expVars == <<afPc, afRet, waitVars>>
ctlVars == <<issued, rcFut, timer, handler, seen, raised, userKilled,
             stdinSent, cdSent, lastCd, issueCwd, expVars>>
agVars  == <<cwd, runPc, registered, proc, exitCode, produced, forwarded,
             spawnCwd, killTasks, stdinTasks, stdinClosed, written, hooked, agAlive>>
vars == <<c2a, a2c, ctlOpen, agOpen, cleaned, ctlVars, agVars>>

AllDirs == Dirs \cup {DefaultDir}

CtoA == [op : {"cd"}, dir : AllDirs]
          \cup [op : {"run", "kill"}, tok : Tokens]
          \cup [op : {"stdin"}, tok : Tokens, n : 1..MaxStdin, close : BOOLEAN]
          \cup [op : {"eof"}]
AtoC == [op : {"out"}, tok : Tokens] \cup [op : {"rc"}, tok : Tokens, code : ExitCodes]
          \cup [op : {"eof"}]

TypeOK ==
    /\ c2a \in Seq(CtoA) /\ a2c \in Seq(AtoC)
    /\ ctlOpen \in BOOLEAN /\ agOpen \in BOOLEAN /\ cleaned \in BOOLEAN
    /\ issued \in [Tokens -> BOOLEAN]
    /\ rcFut \in [Tokens -> {NONE, TIMEOUT} \cup ExitCodes]
    /\ timer \in [Tokens -> {"none", "armed", "fired"}]
    /\ handler \in [Tokens -> BOOLEAN]
    /\ seen \in [Tokens -> 0..MaxLines]
    /\ raised \subseteq Tokens
    /\ userKilled \in [Tokens -> BOOLEAN]
    /\ stdinSent \in [Tokens -> 0..MaxStdin]
    /\ cdSent \in 0..MaxCd
    /\ lastCd \in AllDirs /\ cwd \in AllDirs
    /\ issueCwd \in [Tokens -> AllDirs] /\ spawnCwd \in [Tokens -> AllDirs]
    /\ runPc \in [Tokens -> {"idle", "spawning", "streaming", "done", "cancelled"}]
    /\ registered \subseteq Tokens
    /\ proc \in [Tokens -> {"none", "alive", "dead"}]
    /\ exitCode \in [Tokens -> {NONE} \cup ExitCodes]
    /\ produced \in [Tokens -> 0..MaxLines] /\ forwarded \in [Tokens -> 0..MaxLines]
    /\ killTasks \subseteq [tok : Tokens, waits : 0..MaxPolls]
    /\ stdinTasks \subseteq [tok : Tokens, n : 1..MaxStdin, waits : 0..MaxPolls, close : BOOLEAN]
    /\ stdinClosed \in [Tokens -> BOOLEAN]
    /\ written \in [Tokens -> Seq(1..MaxStdin)]
    /\ hooked \in BOOLEAN /\ agAlive \in BOOLEAN
    /\ afPc \in {"before", "polling", "returned"}
    /\ afRet \in {NONE, TIMEOUT} \cup ExitCodes
    /\ wIdx \in 0..Len(WaitFor) /\ wPc \in {"idle", "blocked"}
    /\ verdict \in {NONE, "ok", "restart"} /\ halted \in BOOLEAN
    /\ stopPending \in BOOLEAN /\ disconnected \in BOOLEAN

\* ClientImpl.__init__ and Server.run_cmd's per-command state: no futures,
\* no handlers, nothing sent yet.
ClientInit ==
    /\ issued = [t \in Tokens |-> FALSE]
    /\ rcFut = [t \in Tokens |-> NONE]
    /\ timer = [t \in Tokens |-> "none"]
    /\ handler = [t \in Tokens |-> FALSE]
    /\ seen = [t \in Tokens |-> 0]
    /\ raised = {}
    /\ userKilled = [t \in Tokens |-> FALSE]
    /\ stdinSent = [t \in Tokens |-> 0]
    /\ cdSent = 0
    /\ issueCwd = [t \in Tokens |-> DefaultDir]
    /\ afPc = "before" /\ afRet = NONE
    /\ wIdx = 0 /\ wPc = "idle" /\ verdict = NONE /\ halted = FALSE
    /\ stopPending = FALSE /\ disconnected = FALSE

\* ServerImpl.__init__ (one per accepted connection): no processes, cwd
\* None, __at_exit registered with atexit.
AgentInit ==
    /\ cwd = DefaultDir
    /\ registered = {}
    /\ hooked = TRUE /\ agAlive = TRUE
    /\ spawnCwd = [t \in Tokens |-> DefaultDir]
    /\ runPc = [t \in Tokens |-> "idle"]
    /\ proc = [t \in Tokens |-> "none"]
    /\ exitCode = [t \in Tokens |-> NONE]
    /\ produced = [t \in Tokens |-> 0] /\ forwarded = [t \in Tokens |-> 0]
    /\ killTasks = {} /\ stdinTasks = {}
    /\ stdinClosed = [t \in Tokens |-> FALSE]
    /\ written = [t \in Tokens |-> <<>>]

\* ServerList._connect_to_all connects and then sends cd(working_directory),
\* which is None (the agent's default directory) unless one was configured.
Init ==
    /\ \E wd \in AllDirs :
          /\ c2a = << [op |-> "cd", dir |-> wd] >>
          /\ lastCd = wd
    /\ a2c = <<>>
    /\ ctlOpen = TRUE /\ agOpen = TRUE /\ cleaned = FALSE
    /\ ClientInit
    /\ AgentInit

-----------------------------------------------------------------------------
(* RPC writers.  A write on an open writer appends the record; a write     *)
(* after the writer is closed goes nowhere (the transport drops it, drain  *)
(* does not raise).                                                        *)
CtlSend(m) == c2a' = IF ctlOpen THEN Append(c2a, m) ELSE c2a
AgSend(m)  == a2c' = IF agOpen THEN Append(a2c, m) ELSE a2c

KillProcs(S) ==
    \* os.killpg(..., SIGKILL) on each registered process in S; a process
    \* that already exited raises ProcessLookupError, which is swallowed
    /\ proc' = [u \in Tokens |-> IF u \in S /\ proc[u] = "alive" THEN "dead" ELSE proc[u]]
    /\ exitCode' = [u \in Tokens |-> IF u \in S /\ proc[u] = "alive" THEN KILLED ELSE exitCode[u]]

-----------------------------------------------------------------------------
(***************************************************************************)
(* Controller: the experiment function's calls on its servers and handles *)
(***************************************************************************)

\* The experiment thread is free to make a call: it is not blocked in a
\* wait() or inside any_failed, and the batch was not halted.
ExpFree == ~halted /\ wPc # "blocked" /\ afPc # "polling"

\* A loop call made while a stop is pending: the queued callback stops
\* run_forever after one iteration.  A call whose coroutine finishes in that
\* iteration returns normally (and its own callback is queued in turn, so
\* the stop stays pending); otherwise run_until_complete raises
\* RuntimeError('Event loop stopped before Future completed.'), which
\* start() swallows.  A write with its drain() does not suspend on an open,
\* unpaused writer, so cd, run_cmd and stdin finish in one iteration.
StopEndsCall(finishes) == stopPending /\ ~finishes

\* Server.cd / ServerList.cd: send cd(directory), wait for the write.
Cd(d) ==
    /\ ctlOpen /\ cdSent < MaxCd /\ ExpFree
    /\ CtlSend([op |-> "cd", dir |-> d])
    /\ cdSent' = cdSent + 1 /\ lastCd' = d
    /\ UNCHANGED <<a2c, ctlOpen, agOpen, cleaned, issued, rcFut, timer, handler,
                   seen, raised, userKilled, stdinSent, issueCwd, expVars, agVars>>

\* Server.run_cmd: install the stdout handlers, create the rc future, send
\* run_cmd, start the timeout task if a timeout was given.
RunCmd(t, withTimeout, withHandler) ==
    /\ ctlOpen /\ ~issued[t] /\ ExpFree
    /\ issued' = [issued EXCEPT ![t] = TRUE]
    /\ handler' = [handler EXCEPT ![t] = withHandler]
    /\ timer' = [timer EXCEPT ![t] = IF withTimeout THEN "armed" ELSE "none"]
    /\ CtlSend([op |-> "run", tok |-> t])
    /\ issueCwd' = [issueCwd EXCEPT ![t] = lastCd]
    /\ UNCHANGED <<a2c, ctlOpen, agOpen, cleaned, rcFut, seen, raised, userKilled,
                   stdinSent, cdSent, lastCd, expVars, agVars>>

\* Actions.kill: send kill_cmd, then wait for the rc future.
Kill(t) ==
    /\ ctlOpen /\ issued[t] /\ ~userKilled[t] /\ ExpFree
    /\ userKilled' = [userKilled EXCEPT ![t] = TRUE]
    /\ CtlSend([op |-> "kill", tok |-> t])
    /\ halted' = StopEndsCall(rcFut[t] # NONE)
    /\ UNCHANGED <<a2c, ctlOpen, agOpen, cleaned, issued, rcFut, timer, handler,
                   seen, raised, stdinSent, cdSent, lastCd, issueCwd, afPc, afRet,
                   wIdx, wPc, verdict, stopPending, disconnected, agVars>>

\* Actions.stdin / async_stdin: send stdin_cmd(line, close).  The line is
\* identified by its position n among the handle's stdin calls.
Stdin(t, close) ==
    /\ ctlOpen /\ issued[t] /\ stdinSent[t] < MaxStdin /\ ExpFree
    /\ stdinSent' = [stdinSent EXCEPT ![t] = @ + 1]
    /\ CtlSend([op |-> "stdin", tok |-> t, n |-> stdinSent[t] + 1, close |-> close])
    /\ UNCHANGED <<a2c, ctlOpen, agOpen, cleaned, issued, rcFut, timer, handler,
                   seen, raised, userKilled, cdSent, lastCd, issueCwd, expVars, agVars>>

\* ServerList._disconnect_from_all -> Server._disconnect: close the writer
\* (buffered records still reach the agent, then EOF); the controller's
\* reader stops, so records the agent sends later are never dispatched.
Disconnect ==
    /\ ctlOpen /\ ExpFree /\ ~stopPending
    /\ ctlOpen' = FALSE /\ disconnected' = TRUE
    /\ c2a' = Append(c2a, [op |-> "eof"])
    /\ a2c' = <<>>
    /\ UNCHANGED <<agOpen, cleaned, issued, rcFut, timer, handler, seen, raised,
                   userKilled, stdinSent, cdSent, lastCd, issueCwd, afPc, afRet,
                   wIdx, wPc, verdict, halted, stopPending, agVars>>

\* _disconnect_from_all under a pending stop: asyncio.wait only creates the
\* _disconnect tasks in the one iteration, so no writer is closed and
\* run_until_complete raises; add_run is skipped and the batch is over.
DisconnectStopped ==
    /\ ctlOpen /\ ExpFree /\ stopPending
    /\ halted' = TRUE
    /\ UNCHANGED <<c2a, a2c, ctlOpen, agOpen, cleaned, issued, rcFut, timer, handler,
                   seen, raised, userKilled, stdinSent, cdSent, lastCd, issueCwd,
                   afPc, afRet, wIdx, wPc, verdict, stopPending, disconnected, agVars>>

\* timeout_task: after the sleep, if no rc arrived yet, resolve the future to
\* TIMEOUT and run kill_task (send kill_cmd, then await the future).
TimerFire(t) ==
    /\ timer[t] = "armed" /\ ~halted
    /\ timer' = [timer EXCEPT ![t] = "fired"]
    /\ IF rcFut[t] = NONE
         THEN /\ rcFut' = [rcFut EXCEPT ![t] = TIMEOUT]
              /\ CtlSend([op |-> "kill", tok |-> t])
         ELSE UNCHANGED <<rcFut, c2a>>
    /\ UNCHANGED <<a2c, ctlOpen, agOpen, cleaned, issued, handler, seen, raised,
                   userKilled, stdinSent, cdSent, lastCd, issueCwd, expVars, agVars>>

\* Bug variant: the rc future is resolved only for commands that installed
\* a stdout handler (the lookup keyed on the wrong dict).
RcHandlerNeedsHandler(t, code) ==
    /\ rcFut' = [rcFut EXCEPT ![t] = IF @ = NONE /\ handler[t] THEN code ELSE @]
    /\ raised' = IF code # 0 THEN raised \cup {t} ELSE raised

\* ClientImpl.rc: the first writer of the future wins; any nonzero code
\* raises BadReturnCode inside the task.
RcHandler(t, code) ==
    /\ rcFut' = [rcFut EXCEPT ![t] = IF @ = NONE THEN code ELSE @]
    /\ raised' = IF code # 0 THEN raised \cup {t} ELSE raised

StopsBatch(code) ==
    IF RaiseOnRc /\ code # 0
      THEN IF wPc = "blocked" /\ rcFut'[WaitFor[wIdx]] # NONE
             THEN stopPending' = TRUE /\ UNCHANGED halted
             ELSE halted' = TRUE /\ UNCHANGED stopPending
      ELSE UNCHANGED <<halted, stopPending>>

\* ClientImpl.stdout: every installed handler gets the line.
StdoutHandler(t) ==
    seen' = [seen EXCEPT ![t] = IF handler[t] THEN @ + 1 ELSE @]

\* The controller's RPCReader._read_loop takes the next record and runs the
\* named ClientImpl method (neither has an await, so it runs to completion).
\* ClientImpl._on_disconnect, awaited after the read loop closes its writer
\* on EOF: a no-op, so pending rc futures stay unresolved.
ClientOnDisconnect == UNCHANGED <<rcFut, raised, seen>>

CtlReceive ==
    /\ ctlOpen /\ a2c # <<>> /\ ~halted
    /\ a2c' = Tail(a2c)
    /\ LET m == Head(a2c) IN
         \/ /\ m.op = "out"
            /\ StdoutHandler(m.tok)
            /\ UNCHANGED <<rcFut, raised, ctlOpen, halted, stopPending>>
         \/ /\ m.op = "rc"
            /\ RcHandler(m.tok, m.code)
            /\ StopsBatch(m.code)
            /\ UNCHANGED <<seen, ctlOpen>>
         \/ /\ m.op = "eof"
            /\ ctlOpen' = FALSE
            /\ ClientOnDisconnect
            /\ UNCHANGED <<halted, stopPending>>
    /\ UNCHANGED <<c2a, agOpen, cleaned, issued, timer, handler, userKilled,
                   stdinSent, cdSent, lastCd, issueCwd, afPc, afRet, wIdx, wPc,
                   verdict, disconnected, agVars>>

(* utils.any_failed(cmds): the experiment thread polls the handles'       *)
(* wait(block=False) and sleeps between polls (utils.sleep runs the loop,  *)
(* so records and timers are handled meanwhile).  A poll that returns      *)
(* nothing changes no state; only the poll that returns is a step.         *)

\* Actions.wait(block=False): None while the rc future is pending, else its
\* result.
WaitNoBlock(t) == rcFut[t]

\* Bug variant: `rc != 0` without `rc is not None`.
FailedRcUnchecked(rc) == rc # 0

\* any_failed: an rc that is there and is not 0 (TIMEOUT is not 0).
FailedRc(rc) == rc # NONE /\ rc # 0

\* The experiment calls any_failed once every command of the list was issued;
\* until it returns it makes no other call on the handles.
AnyFailedCall ==
    /\ afPc = "before" /\ PollOrder # <<>> /\ ~halted /\ wPc # "blocked"
    /\ \A i \in DOMAIN PollOrder : issued[PollOrder[i]]
    /\ afPc' = "polling"
    /\ UNCHANGED <<c2a, a2c, ctlOpen, agOpen, cleaned, issued, rcFut, timer, handler,
                   seen, raised, userKilled, stdinSent, cdSent, lastCd, issueCwd,
                   afRet, waitVars, agVars>>

\* One pass of the while loop that returns: the first failed rc in list
\* order, or False once every rc is 0.
AnyFailedPoll ==
    /\ afPc = "polling" /\ ~halted
    /\ LET rcs == [i \in DOMAIN PollOrder |-> WaitNoBlock(PollOrder[i])]
           bad == {i \in DOMAIN rcs : FailedRc(rcs[i])}
       IN  \/ /\ bad # {}
              /\ afRet' = rcs[CHOOSE i \in bad : \A j \in bad : i <= j]
           \/ /\ bad = {} /\ \A i \in DOMAIN rcs : rcs[i] = 0
              /\ afRet' = 0
    /\ afPc' = "returned"
    /\ UNCHANGED <<c2a, a2c, ctlOpen, agOpen, cleaned, issued, rcFut, timer, handler,
                   seen, raised, userKilled, stdinSent, cdSent, lastCd, issueCwd,
                   waitVars, agVars>>

(* The experiment scripts' `if not all(cmd.wait() == 0 for cmd in cmds):   *)
(* return Action.RESTART`: blocking waits on the commands in list order.  *)

\* Actions.wait(): run_until_complete(rc_future) of the next command.
WaitCall ==
    /\ ExpFree /\ verdict = NONE /\ wIdx < Len(WaitFor)
    /\ issued[WaitFor[wIdx + 1]]
    /\ wIdx' = wIdx + 1 /\ wPc' = "blocked"
    /\ halted' = StopEndsCall(rcFut[WaitFor[wIdx + 1]] # NONE)
    /\ UNCHANGED <<c2a, a2c, ctlOpen, agOpen, cleaned, issued, rcFut, timer, handler,
                   seen, raised, userKilled, stdinSent, cdSent, lastCd, issueCwd,
                   afPc, afRet, verdict, stopPending, disconnected, agVars>>

\* The future is done and wait() returns its result; all() stops at the
\* first result that is not 0, and the experiment returns Action.RESTART.
WaitReturn ==
    /\ wPc = "blocked" /\ ~halted /\ rcFut[WaitFor[wIdx]] # NONE
    /\ wPc' = "idle"
    /\ verdict' = CASE rcFut[WaitFor[wIdx]] # 0 -> "restart"
                    [] wIdx = Len(WaitFor)     -> "ok"
                    [] OTHER                   -> NONE
    /\ UNCHANGED <<c2a, a2c, ctlOpen, agOpen, cleaned, issued, rcFut, timer, handler,
                   seen, raised, userKilled, stdinSent, cdSent, lastCd, issueCwd,
                   afPc, afRet, wIdx, halted, stopPending, disconnected, agVars>>

\* Bug variant: the controller process lingers after the halt and keeps its
\* socket open.
ControllerExitKeepsSocket ==
    /\ halted /\ ctlOpen
    /\ ctlOpen' = FALSE
    /\ UNCHANGED <<c2a, a2c, agOpen, cleaned, ctlVars, agVars>>

\* After the halt, start()'s finally cancels every task and closes the loop,
\* and the controller process exits: its socket closes, and the agent reads
\* the records already sent and then EOF.
ControllerExit ==
    /\ halted /\ ctlOpen
    /\ ctlOpen' = FALSE
    /\ c2a' = Append(c2a, [op |-> "eof"])
    /\ a2c' = <<>>
    /\ UNCHANGED <<agOpen, cleaned, ctlVars, agVars>>

-----------------------------------------------------------------------------
(***************************************************************************)
(* Agent: ServerImpl                                                       *)
(***************************************************************************)

\* cd: the directory used by later run_cmd calls on this connection.
AgentCd(d) ==
    /\ cwd' = d
    /\ UNCHANGED <<runPc, registered, proc, exitCode, produced, forwarded,
                   spawnCwd, killTasks, stdinTasks, stdinClosed, written,
                   hooked, agAlive>>

\* run_cmd up to its first await: create_subprocess_shell forks the shell in
\* its own session with cwd=self.__cwd, then awaits the pipe setup; the
\* process is not in __processes yet.
AgentRunCmd(t) ==
    /\ proc' = [proc EXCEPT ![t] = "alive"]
    /\ runPc' = [runPc EXCEPT ![t] = "spawning"]
    /\ spawnCwd' = [spawnCwd EXCEPT ![t] = cwd]
    /\ UNCHANGED <<cwd, registered, exitCode, produced, forwarded, killTasks,
                   stdinTasks, stdinClosed, written, hooked, agAlive>>

\* stdin_cmd once the process is found: a closed stdin is logged and left
\* alone; otherwise write the line and, with close, write_eof.
WriteStdin(t, n, close) ==
    IF stdinClosed[t] THEN UNCHANGED <<stdinClosed, written>>
    ELSE /\ written' = [written EXCEPT ![t] = Append(@, n)]
         /\ stdinClosed' = [stdinClosed EXCEPT ![t] = close]

\* kill_cmd up to its first await: __process_startup returns at once when
\* the uuid is registered; otherwise it sleeps and polls.
AgentKillCmd(t) ==
    /\ IF t \in registered
         THEN /\ KillProcs({t})
              /\ UNCHANGED killTasks
         ELSE /\ killTasks' = killTasks \cup {[tok |-> t, waits |-> 0]}
              /\ UNCHANGED <<proc, exitCode>>
    /\ UNCHANGED <<cwd, runPc, registered, produced, forwarded, spawnCwd,
                   stdinTasks, stdinClosed, written, hooked, agAlive>>

AgentStdinCmd(t, n, close) ==
    /\ IF t \in registered
         THEN /\ WriteStdin(t, n, close)
              /\ UNCHANGED stdinTasks
         ELSE /\ stdinTasks' = stdinTasks \cup {[tok |-> t, n |-> n, waits |-> 0, close |-> close]}
              /\ UNCHANGED <<stdinClosed, written>>
    /\ UNCHANGED <<cwd, runPc, registered, proc, exitCode, produced, forwarded,
                   spawnCwd, killTasks, hooked, agAlive>>

\* ServerImpl._on_disconnect: kill_cmd every registered uuid, then
\* atexit.unregister(self.__at_exit).
OnDisconnect ==
    /\ cleaned' = TRUE
    /\ KillProcs(registered)
    /\ hooked' = FALSE

\* The agent's read loop: the next record is dispatched as a task whose
\* first segment runs in arrival order.  On EOF the loop closes its writer
\* and awaits _on_disconnect, which kill_cmd's every registered uuid (none
\* of those calls suspends, so the hook runs as one step).
AgRead ==
    /\ agOpen /\ c2a # <<>>
    /\ c2a' = Tail(c2a)
    /\ LET m == Head(c2a) IN
         \/ /\ m.op = "cd"
            /\ AgentCd(m.dir)
            /\ UNCHANGED <<agOpen, cleaned>>
         \/ /\ m.op = "run"
            /\ AgentRunCmd(m.tok)
            /\ UNCHANGED <<agOpen, cleaned>>
         \/ /\ m.op = "kill"
            /\ AgentKillCmd(m.tok)
            /\ UNCHANGED <<agOpen, cleaned>>
         \/ /\ m.op = "stdin"
            /\ AgentStdinCmd(m.tok, m.n, m.close)
            /\ UNCHANGED <<agOpen, cleaned>>
         \/ /\ m.op = "eof"
            /\ agOpen' = FALSE
            /\ OnDisconnect
            /\ UNCHANGED <<cwd, runPc, registered, produced, forwarded, spawnCwd,
                           killTasks, stdinTasks, stdinClosed, written, agAlive>>
    /\ UNCHANGED <<a2c, ctlOpen, ctlVars>>

\* Bug variant: the working directory is read after the await.
RunRegisterRereadCwd(t) ==
    /\ runPc[t] = "spawning"
    /\ runPc' = [runPc EXCEPT ![t] = "streaming"]
    /\ registered' = registered \cup {t}
    /\ spawnCwd' = [spawnCwd EXCEPT ![t] = cwd]
    /\ UNCHANGED <<c2a, a2c, ctlOpen, agOpen, cleaned, ctlVars, cwd, proc, exitCode,
                   produced, forwarded, killTasks, stdinTasks, stdinClosed, written,
                   hooked, agAlive>>

\* run_cmd after create_subprocess_shell returns: self.__processes[uuid] = process.
RunRegister(t) ==
    /\ runPc[t] = "spawning"
    /\ runPc' = [runPc EXCEPT ![t] = "streaming"]
    /\ registered' = registered \cup {t}
    /\ UNCHANGED <<c2a, a2c, ctlOpen, agOpen, cleaned, ctlVars, cwd, proc, exitCode,
                   produced, forwarded, spawnCwd, killTasks, stdinTasks, stdinClosed, written,
                   hooked, agAlive>>

\* Bug variant: _read_stream without its `if not line: break`.
ForwardPastEof(t) ==
    /\ runPc[t] = "streaming"
    /\ forwarded' = [forwarded EXCEPT ![t] = @ + 1]
    /\ AgSend([op |-> "out", tok |-> t])
    /\ UNCHANGED <<c2a, ctlOpen, agOpen, cleaned, ctlVars, cwd, runPc, registered,
                   proc, exitCode, produced, spawnCwd, killTasks, stdinTasks, stdinClosed, written,
                   hooked, agAlive>>

\* _read_stream: forward the next line the process wrote.
Forward(t) ==
    /\ runPc[t] = "streaming" /\ forwarded[t] < produced[t]
    /\ forwarded' = [forwarded EXCEPT ![t] = @ + 1]
    /\ AgSend([op |-> "out", tok |-> t])
    /\ UNCHANGED <<c2a, ctlOpen, agOpen, cleaned, ctlVars, cwd, runPc, registered,
                   proc, exitCode, produced, spawnCwd, killTasks, stdinTasks, stdinClosed, written,
                   hooked, agAlive>>

\* Bug variant: process.wait() and rpc.rc before the pipes are drained.
ReapBeforeDrain(t) ==
    /\ runPc[t] = "streaming" /\ proc[t] = "dead"
    /\ runPc' = [runPc EXCEPT ![t] = "done"]
    /\ AgSend([op |-> "rc", tok |-> t, code |-> exitCode[t]])
    /\ UNCHANGED <<c2a, ctlOpen, agOpen, cleaned, ctlVars, cwd, registered, proc,
                   exitCode, produced, forwarded, spawnCwd, killTasks, stdinTasks,
                   stdinClosed, written, hooked, agAlive>>

\* Both streams hit EOF (the process is gone and every line was forwarded),
\* then process.wait() and rpc.rc(uuid, rc).  The uuid stays in __processes.
Reap(t) ==
    /\ runPc[t] = "streaming" /\ proc[t] = "dead" /\ forwarded[t] = produced[t]
    /\ runPc' = [runPc EXCEPT ![t] = "done"]
    /\ AgSend([op |-> "rc", tok |-> t, code |-> exitCode[t]])
    /\ UNCHANGED <<c2a, ctlOpen, agOpen, cleaned, ctlVars, cwd, registered, proc,
                   exitCode, produced, forwarded, spawnCwd, killTasks, stdinTasks,
                   stdinClosed, written, hooked, agAlive>>

\* __process_startup wakes from asyncio.sleep(0.1): registered -> the caller
\* proceeds; the MaxPolls-th wake -> it returns anyway and the caller's
\* self.__processes[uuid] succeeds only if registered meanwhile (KeyError
\* otherwise, which ends the task); else poll again.
PollOutcome(k) ==
    IF k.tok \in registered THEN "found"
    ELSE IF k.waits + 1 = MaxPolls THEN "gave_up"
    ELSE "again"

KillPoll(k) ==
    /\ k \in killTasks
    /\ killTasks' = (killTasks \ {k}) \cup
                       (IF PollOutcome(k) = "again" THEN {[k EXCEPT !.waits = @ + 1]} ELSE {})
    /\ IF PollOutcome(k) = "found" THEN KillProcs({k.tok}) ELSE UNCHANGED <<proc, exitCode>>
    /\ UNCHANGED <<c2a, a2c, ctlOpen, agOpen, cleaned, ctlVars, cwd, runPc, registered,
                   produced, forwarded, spawnCwd, stdinTasks, stdinClosed, written,
                   hooked, agAlive>>

StdinPoll(k) ==
    /\ k \in stdinTasks
    /\ stdinTasks' = (stdinTasks \ {k}) \cup
                       (IF PollOutcome(k) = "again" THEN {[k EXCEPT !.waits = @ + 1]} ELSE {})
    /\ IF PollOutcome(k) = "found" THEN WriteStdin(k.tok, k.n, k.close)
                                     ELSE UNCHANGED <<stdinClosed, written>>
    /\ UNCHANGED <<c2a, a2c, ctlOpen, agOpen, cleaned, ctlVars, cwd, runPc, registered,
                   proc, exitCode, produced, forwarded, spawnCwd, killTasks, hooked, agAlive>>

(* The spawned process itself: it prints and exits when it likes. *)
ProcOutput(t) ==
    /\ proc[t] = "alive" /\ produced[t] < MaxLines
    /\ produced' = [produced EXCEPT ![t] = @ + 1]
    /\ UNCHANGED <<c2a, a2c, ctlOpen, agOpen, cleaned, ctlVars, cwd, runPc, registered,
                   proc, exitCode, forwarded, spawnCwd, killTasks, stdinTasks, stdinClosed, written,
                   hooked, agAlive>>

ProcExit(t) ==
    /\ proc[t] = "alive"
    /\ \E code \in ExitCodes \ {KILLED} :
          /\ proc' = [proc EXCEPT ![t] = "dead"]
          /\ exitCode' = [exitCode EXCEPT ![t] = code]
    /\ UNCHANGED <<c2a, a2c, ctlOpen, agOpen, cleaned, ctlVars, cwd, runPc, registered,
                   produced, forwarded, spawnCwd, killTasks, stdinTasks, stdinClosed, written,
                   hooked, agAlive>>

\* Bug variant: the constructor never calls atexit.register.
AtExitNone == {}

\* ServerImpl.__at_exit, while registered with atexit: the processes it
\* killpg's (every one in __processes; ProcessLookupError is swallowed).
AtExit == IF hooked THEN registered ELSE {}

\* len(asyncio.all_tasks()) as the checker of ExperimentServer.start_terminator
\* sees it: listen() and the checker itself, the connection's read loop until
\* it returns after _on_disconnect, and every run_cmd, kill_cmd and stdin_cmd
\* task (a streaming run_cmd also has its reader tasks, counted here as one).
TaskCount ==
    2 + (IF cleaned THEN 0 ELSE 1)
      + Cardinality({t \in Tokens : runPc[t] \in {"spawning", "streaming"}})
      + Cardinality(killTasks) + Cardinality(stdinTasks)

\* Bug variant: the count forgets that listen() is one of the two tasks.
IdleOffByOne == TaskCount <= 1

\* The checker (max_idle > 0) counts down only while len(all_tasks()) <= 2;
\* any other task resets the countdown.
Idle == TaskCount <= 2

\* What ends run_until_complete(stop_future): a KeyboardInterrupt at any
\* time, or the checker setting the future after max_idle idle seconds.
Stops(cause) == cause = "interrupt" \/ (cause = "idle" /\ Idle)

\* The agent process ends: ExperimentServer.start cancels every task and closes the loop,
\* then the interpreter runs the atexit hook __at_exit, which killpg's every
\* registered process unless _on_disconnect already unregistered it.  The
\* cancelled run_cmd tasks never register, stream or report; one cancelled
\* inside create_subprocess_shell is run to completion by start(), and
\* asyncio's cleanup there closes the transport, which kills the shell.  The
\* socket closes after the bytes already written, so the controller reads EOF.
AgentExit(cause) ==
    /\ agAlive /\ Stops(cause)
    /\ agAlive' = FALSE
    /\ KillProcs(AtExit \cup {t \in Tokens : runPc[t] = "spawning"})
    /\ agOpen' = FALSE
    /\ AgSend([op |-> "eof"])
    /\ runPc' = [t \in Tokens |->
                    IF runPc[t] \in {"spawning", "streaming"} THEN "cancelled" ELSE runPc[t]]
    /\ killTasks' = {} /\ stdinTasks' = {}
    /\ UNCHANGED <<c2a, ctlOpen, cleaned, ctlVars, cwd, registered, produced, forwarded,
                   spawnCwd, stdinClosed, written, hooked>>

-----------------------------------------------------------------------------
Controller ==
    \/ \E d \in Dirs : Cd(d)
    \/ \E t \in Tokens, tmo, h \in BOOLEAN : RunCmd(t, tmo, h)
    \/ \E t \in Tokens : Kill(t)
    \/ \E t \in Tokens, close \in BOOLEAN : Stdin(t, close)
    \/ Disconnect
    \/ DisconnectStopped
    \/ \E t \in Tokens : TimerFire(t)
    \/ CtlReceive
    \/ AnyFailedCall
    \/ AnyFailedPoll
    \/ WaitCall
    \/ WaitReturn
    \/ ControllerExit

Agent ==
    \/ AgRead
    \/ \E t \in Tokens : RunRegister(t) \/ Forward(t) \/ Reap(t)
    \/ \E k \in killTasks : KillPoll(k)
    \/ \E k \in stdinTasks : StdinPoll(k)
    \/ \E cause \in {"interrupt", "idle"} : AgentExit(cause)

Process == \E t \in Tokens : ProcOutput(t) \/ ProcExit(t)

Next == Controller \/ Agent \/ Process

(* Both event loops keep running their ready tasks and timers; the user's  *)
(* calls and the spawned processes are not obliged to do anything.  The    *)
(* agent runs with the CLI's default --max-idle (3600 s), so its checker   *)
(* fires once the agent stays idle; a Ctrl-C is never forced.              *)
Fairness ==
    /\ WF_vars(AgRead)
    /\ WF_vars(CtlReceive)
    /\ \A t \in Tokens : WF_vars(RunRegister(t)) /\ WF_vars(Forward(t))
                         /\ WF_vars(Reap(t)) /\ WF_vars(TimerFire(t))
    /\ WF_vars(\E k \in killTasks : KillPoll(k))
    /\ WF_vars(\E k \in stdinTasks : StdinPoll(k))
    /\ WF_vars(AgentExit("idle"))
    /\ WF_vars(AnyFailedPoll)
    /\ WF_vars(WaitReturn) /\ WF_vars(ControllerExit)

Spec == Init /\ [][Next]_vars /\ Fairness

-----------------------------------------------------------------------------
(***************************************************************************)
(* Properties                                                              *)
(***************************************************************************)

\* When wait() returns a real exit code, every line the command printed has
\* already reached its stdout handlers: the agent drains both pipes before
\* process.wait() and rpc.rc, and the controller runs the stdout and rc
\* records in arrival order.  (A SubstrMatcher or CSVGenerator read right
\* after wait() relies on this.)
OutputBeforeRc ==
    \A t \in Tokens :
        (rcFut[t] \in ExitCodes /\ handler[t]) => seen[t] = produced[t]

\* Every command starts in the directory of the last cd the controller sent
\* before its run_cmd, although run_cmd and cd are fire-and-forget tasks on
\* the agent and run_cmd suspends inside create_subprocess_shell.
CwdFollowsIssueOrder ==
    \A t \in Tokens : runPc[t] # "idle" => spawnCwd[t] = issueCwd[t]

\* As long as the connection stays up, once a command's process has exited
\* (on its own or killed) its handle's wait() eventually returns.
RcEventuallyDelivered ==
    []ctlOpen => \A t \in Tokens : (proc[t] = "dead") ~> (rcFut[t] # NONE)

\* Section 8 of the spec: a kill_cmd issued right after run_cmd (before the
\* agent registered the process) takes effect once registration completes.
\* While the connection stays up, a command the user killed is eventually
\* not running.
KillTakesEffect ==
    []ctlOpen => \A t \in Tokens : userKilled[t] ~> (proc[t] # "alive")

\* Scenario D of the spec: once the controller has disconnected, the agent's
\* disconnect hook has run and no run_cmd or kill_cmd task of the
\* connection is still pending, no process of the connection is alive.
NoOrphanAfterDisconnect ==
    (/\ cleaned
     /\ \A t \in Tokens : runPc[t] # "spawning"
     /\ killTasks = {})
    => \A t \in Tokens : proc[t] # "alive"

\* A timeout cancels one command without affecting the experiment: the
\* rc handler of a command whose wait() returned TIMEOUT never raises
\* BadReturnCode (which, with raise_on_rc, stops the whole batch).
TimeoutIsolated ==
    \A t \in Tokens : rcFut[t] = TIMEOUT => t \notin raised

\* An agent that ends while its controller is still connected (Ctrl-C or
\* the idle terminator, with the atexit hook still registered) leaves no
\* command of the connection running: __at_exit kills the registered ones,
\* and the cancellation of a run_cmd task still inside create_subprocess_shell
\* kills the shell it forked, although neither path knows of the other.
NoProcessOutlivesAgent ==
    (~agAlive /\ hooked) => \A t \in Tokens : proc[t] # "alive"

\* Lines reach a command's stdin in the order the experiment sent them:
\* stdin_cmd records are dispatched in arrival order, but a stdin_cmd that
\* arrives before run_cmd registered the process sleeps in
\* __process_startup, while one arriving after registration writes at once.
StdinInIssueOrder ==
    \A t \in Tokens : \A a, b \in 1..Len(written[t]) :
        a < b => written[t][a] < written[t][b]

\* The idle terminator (experiment_server.py) ends an agent whose controller
\* has disconnected once none of its commands is running any more: no
\* read loop, registration poll or finished run_cmd task keeps it alive.
AgentIdlesOut == (cleaned /\ \A t \in Tokens : proc[t] # "alive") ~> ~agAlive

\* A BadReturnCode halt skips _disconnect_from_all (run_experiments unwinds
\* past it), yet the agent still runs its disconnect cleanup for the
\* connection, unless it ended itself first: the controller process exits
\* and the agent's read loop reads EOF (spec: a halt lets the
\* per-experiment cleanup still run).
HaltStillCleansUp == halted ~> (cleaned \/ ~agAlive)

AnyFailedSound ==
    afPc = "returned" =>
        IF afRet \in {0, NONE}
        THEN \A i \in DOMAIN PollOrder : exitCode[PollOrder[i]] = 0
        ELSE afRet = TIMEOUT \/ \E i \in DOMAIN PollOrder : exitCode[PollOrder[i]] = afRet

=============================================================================
