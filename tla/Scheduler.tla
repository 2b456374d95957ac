----------------------------- MODULE Scheduler -----------------------------
(***************************************************************************)
(* The experiment scheduler of distexprunner (experiment_client.py         *)
(* ExperimentClient.run_experiments and start) with its resume checkpoint *)
(* (_resume_manager.py ResumeManager), over repeated invocations of the   *)
(* controller: an invocation may halt on a failure or be killed at any     *)
(* point, and the user may start it again with or without --resume.       *)
(*                                                                         *)
(* The experiment function is opaque: each attempt ends in one of the      *)
(* outcomes the loop tells apart.  A BadReturnCode raised by a command's   *)
(* rc task while raise_on_rc is set stops the event loop, so the blocking  *)
(* call that is running (inside the function, or the group's connect or   *)
(* disconnect) raises RuntimeError, which start() swallows: the batch      *)
(* halts.                                                                  *)
(***************************************************************************)
EXTENDS Naturals, Sequences, FiniteSets, FiniteSetsExt, SequencesExt

CONSTANTS
    Paths,       \* the experiment paths given to the client, in order:
                 \* <<[kind: "file" or "dir", files]>>, files the file's (or
                 \* the folder's files') reg_exp decorators in import order,
                 \* each [fn, grid, maxRestarts, raiseOnRc], grid the sequence
                 \* of parameter sets ParameterGrid.get yields, or NoGrid
    NoGrid,      \* reg_exp(params=None)
    GroupArgs,   \* the arguments of the group's ServerList(*args): each
                 \* [kind |-> "server", id] or [kind |-> "iter", items]
    ArgSamples,  \* argument lists the flattening is checked on
    MaxRuns      \* invocations of the controller the model allows

ASSUME MaxRuns \in Nat \ {0}
ASSUME \A k \in DOMAIN Paths : Paths[k].kind \in {"file", "dir"}

\* Bug variant: an iterable's items are put behind the remaining arguments.
RECURSIVE UnpackAtBack(_, _)
UnpackAtBack(args, servers) ==
    IF args = <<>> THEN servers
    ELSE IF Head(args).kind = "server"
           THEN UnpackAtBack(Tail(args), Append(servers, Head(args).id))
           ELSE UnpackAtBack(Tail(args) \o Head(args).items, servers)

\* ServerList.__init__: pop the first argument; a Server is appended, an
\* iterable's items are spliced in front of the others (args[0:0] = arg).
RECURSIVE Unpack(_, _)
Unpack(args, servers) ==
    IF args = <<>> THEN servers
    ELSE IF Head(args).kind = "server"
           THEN Unpack(Tail(args), Append(servers, Head(args).id))
           ELSE Unpack(Head(args).items \o Tail(args), servers)

\* The constructor raises on repeated server ids, so the group that exists
\* lists each Server once.
ASSUME IsInjective(Unpack(GroupArgs, <<>>))

\* The Server objects of the group (shared by all registrations).
Srv == ToSet(Unpack(GroupArgs, <<>>))

\* registry.reg_exp: without a grid, decorator adds one registration with
\* params {}; with one, decorator_grid adds a registration per parameter set
\* of params.get(), in the grid's order.  ExperimentStore.add appends to the
\* one process-wide list.
RegExp(d) ==
    LET Reg(p) == [fn |-> d.fn, params |-> p, maxRestarts |-> d.maxRestarts,
                   raiseOnRc |-> d.raiseOnRc]
    IN  IF d.grid = NoGrid THEN << Reg("{}") >>
        ELSE [j \in 1..Len(d.grid) |-> Reg(d.grid[j])]

\* __read_file: exec_module runs the file's decorators top to bottom.
ReadFile(f) == FlattenSeq([d \in 1..Len(f) |-> RegExp(f[d])])

\* ExperimentClient.__init__: each path is read in argument order, a file
\* directly and a folder through __read_folder, every *.py under it in glob
\* order (the folder's files are listed in that order).
ReadPath(p) == FlattenSeq([k \in 1..Len(p.files) |-> ReadFile(p.files[k])])

\* ExperimentStore.get(): the registrations in decoration order, one list
\* for every file the client imported.
Regs == FlattenSeq([k \in 1..Len(Paths) |-> ReadPath(Paths[k])])

N == Len(Regs)
Idx == 1..N

\* Bug variant: the fingerprint leaves out the parameters.
FingerprintNameOnly(i) == <<Regs[i].fn>>

\* ResumeManager.was_run / add_run: json.dumps({'name': experiment.__name__,
\* 'params': params}, sort_keys=True) -- the function's name, not the
\* registration's grid-derived name.
Fingerprint(i) == <<Regs[i].fn, Regs[i].params>>

MaxAttempts(i) == Regs[i].maxRestarts   \* 0 means unlimited
AttemptsLimit == Max({Regs[j].maxRestarts : j \in Idx})

VARIABLES
    runs,        \* invocations started so far
    resume,      \* this invocation was started with --resume
    pc,          \* idle, loop, connect, cd, attempt, disconnect, checkpoint,
                 \* done, halted, crashed
    i,           \* the loop's current registration
    attempts,    \* attempts of registration i started in this invocation
    client,      \* client[s]: Server.__client of s: none (never connected in this
                 \* process), live, or dead (its writer closed by _disconnect)
    file,        \* fingerprints in .distexprunner (survives the process)
    alreadyRun,  \* ResumeManager.already_run, read once at start
    notified,    \* Notifier.on_finish was called
    \* history
    done,        \* registrations whose attempt loop and disconnect completed
                 \* since the checkpoint file was last reset
    completions, \* how often each registration completed since that reset
    lost         \* how often a crash fell between a registration's
                 \* _disconnect_from_all and its add_run since that reset

vars == <<runs, resume, pc, i, attempts, client, file, alreadyRun, notified,
          done, completions, lost>>

Fps == {Fingerprint(j) : j \in Idx}

TypeOK ==
    /\ runs \in 0..MaxRuns /\ resume \in BOOLEAN
    /\ pc \in {"idle", "loop", "connect", "cd", "attempt", "disconnect",
               "checkpoint", "done", "halted", "crashed"}
    /\ i \in 1..(N + 1)
    /\ attempts \in 0..AttemptsLimit
    /\ client \in [Srv -> {"none", "live", "dead"}]
    /\ file \subseteq Fps /\ alreadyRun \subseteq Fps
    /\ notified \in BOOLEAN
    /\ done \subseteq Idx
    /\ completions \in [Idx -> Nat] /\ lost \in [Idx -> Nat]

Init ==
    /\ runs = 0 /\ resume = FALSE /\ pc = "idle" /\ i = 1 /\ attempts = 0
    /\ client = [s \in Srv |-> "none"]
    /\ file = {} /\ alreadyRun = {}
    /\ notified = FALSE
    /\ done = {} /\ completions = [j \in Idx |-> 0] /\ lost = [j \in Idx |-> 0]

\* ResumeManager.reset: forget and unlink the file.
ResetFile ==
    /\ file' = {} /\ alreadyRun' = {}
    /\ done' = {} /\ completions' = [j \in Idx |-> 0] /\ lost' = [j \in Idx |-> 0]

-----------------------------------------------------------------------------
\* client.py main -> ExperimentClient.start -> run_experiments: read the
\* checkpoint file; without --resume reset it.
Start(withResume) ==
    /\ pc \in {"idle", "done", "halted", "crashed"} /\ runs < MaxRuns
    /\ runs' = runs + 1 /\ resume' = withResume
    /\ pc' = "loop" /\ i' = 1 /\ attempts' = 0 /\ client' = [s \in Srv |-> "none"]
    /\ notified' = FALSE
    /\ IF withResume
         THEN /\ alreadyRun' = file
              /\ UNCHANGED <<file, done, completions, lost>>
         ELSE ResetFile

\* The top of the for loop: skip a registration whose fingerprint the file
\* held at start, else set the exception handler and connect.
Skip ==
    /\ pc = "loop" /\ i <= N
    /\ resume /\ Fingerprint(i) \in alreadyRun
    /\ i' = i + 1
    /\ UNCHANGED <<runs, resume, pc, attempts, client, file, alreadyRun,
                   notified, done, completions, lost>>

\* Bug variant: the resume check never matches (e.g. was_run asked with the
\* registration's grid name while add_run stores the function's name).
BeginIgnoringCheckpoint ==
    /\ pc = "loop" /\ i <= N
    /\ pc' = "connect"
    /\ UNCHANGED <<runs, resume, i, attempts, client, file, alreadyRun,
                   notified, done, completions, lost>>

Begin ==
    /\ pc = "loop" /\ i <= N
    /\ ~(resume /\ Fingerprint(i) \in alreadyRun)
    /\ pc' = "connect"
    /\ UNCHANGED <<runs, resume, i, attempts, client, file, alreadyRun,
                   notified, done, completions, lost>>

\* Server._connect: open_connection either succeeds, and a new ClientImpl
\* replaces the old one, or raises and leaves __client as it was: none, or
\* the previous registration's client whose writer is closed.
Reconnect(c, ok) == IF ok THEN "live" ELSE c

\* ServerList._connect_to_all, first half: asyncio.wait over every _connect;
\* wait() keeps a failed _connect's exception in its task and returns.
ConnectAll ==
    /\ pc = "connect"
    /\ \E ok \in SUBSET Srv : client' = [s \in Srv |-> Reconnect(client[s], s \in ok)]
    /\ pc' = "cd"
    /\ UNCHANGED <<runs, resume, i, attempts, file, alreadyRun, notified, done,
                   completions, lost>>

\* Server.cd: self.__client raises AttributeError on a server that never
\* connected; on a closed writer, drain raises ConnectionResetError, which
\* the RPCWriter turns into a False result, so cd returns normally.
CdRaises(c) == c = "none"

\* run_experiments: try: servers._connect_to_all() except AttributeError:
\* raise -- a cd on a server without a client ends the batch.
ConnectRaises == \E s \in Srv : CdRaises(client[s])

\* Bug variant: the attempt count is not reset for the next registration.
CdAllKeepingCount ==
    /\ pc = "cd"
    /\ IF ConnectRaises
         THEN pc' = "halted" /\ UNCHANGED attempts
         ELSE pc' = "attempt" /\ UNCHANGED attempts
    /\ UNCHANGED <<runs, resume, i, client, file, alreadyRun, notified, done,
                   completions, lost>>

\* _connect_to_all, second half: cd(working_directory) on every server in
\* turn; an AttributeError propagates out of run_experiments (re-raised by
\* its except clause), so the batch halts with the other servers still
\* connected.  Otherwise the attempt loop starts with range(max_restarts).
CdAll ==
    /\ pc = "cd"
    /\ IF ConnectRaises
         THEN pc' = "halted" /\ UNCHANGED attempts
         ELSE pc' = "attempt" /\ attempts' = 0
    /\ UNCHANGED <<runs, resume, i, client, file, alreadyRun, notified, done,
                   completions, lost>>

\* Bug variant: range(max_restarts + 1).
AttemptOffByOne ==
    /\ pc = "attempt"
    /\ \/ pc' = "disconnect" /\ UNCHANGED attempts
       \/ /\ attempts' = IF MaxAttempts(i) = 0 THEN attempts ELSE attempts + 1
          /\ pc' = IF MaxAttempts(i) # 0 /\ attempts = MaxAttempts(i)
                     THEN "disconnect" ELSE "attempt"
       \/ pc' = "halted" /\ UNCHANGED attempts
    /\ UNCHANGED <<runs, resume, i, client, file, alreadyRun, notified,
                   done, completions, lost>>

\* One call of experiment(servers, **params).  A return other than
\* Action.RESTART ends the loop; RESTART starts another attempt unless
\* range(max_restarts) is used up; an exception is re-raised.
Attempt ==
    /\ pc = "attempt"
    /\ \/ pc' = "disconnect" /\ UNCHANGED attempts                  \* returned
       \/ /\ attempts' = IF MaxAttempts(i) = 0 THEN attempts ELSE attempts + 1  \* RESTART
          /\ pc' = IF MaxAttempts(i) # 0 /\ attempts + 1 = MaxAttempts(i)
                     THEN "disconnect" ELSE "attempt"
       \/ pc' = "halted" /\ UNCHANGED attempts                      \* raised
    /\ UNCHANGED <<runs, resume, i, client, file, alreadyRun, notified,
                   done, completions, lost>>

\* A BadReturnCode under raise_on_rc stops the loop during whichever
\* blocking call is running; the RuntimeError ends run_experiments.
BadRcHalt ==
    /\ pc \in {"connect", "cd", "attempt", "disconnect"} /\ Regs[i].raiseOnRc
    /\ pc' = "halted"
    /\ UNCHANGED <<runs, resume, i, attempts, client, file, alreadyRun,
                   notified, done, completions, lost>>

\* Server._disconnect: close the writer; the client object stays.
Closed(c) == IF c = "live" THEN "dead" ELSE c

\* ServerList._disconnect_from_all: asyncio.wait over every _disconnect.
DisconnectFromAll == [s \in Srv |-> Closed(client[s])]

\* servers._disconnect_from_all() returns: the registration's work is done.
Disconnect ==
    /\ pc = "disconnect"
    /\ client' = DisconnectFromAll
    /\ done' = done \cup {i}
    /\ completions' = [completions EXCEPT ![i] = @ + 1]
    /\ pc' = "checkpoint"
    /\ UNCHANGED <<runs, resume, i, attempts, file, alreadyRun, notified, lost>>

\* resume_manager.add_run appends the fingerprint to the file; the loop
\* moves on (the logging and progress bar calls change no modelled state).
AddRun ==
    /\ pc = "checkpoint"
    /\ file' = file \cup {Fingerprint(i)}
    /\ i' = i + 1 /\ pc' = "loop"
    /\ UNCHANGED <<runs, resume, attempts, client, alreadyRun, notified, done,
                   completions, lost>>

\* After the last registration: reset the file, call the notifier.
Finish ==
    /\ pc = "loop" /\ i = N + 1
    /\ ResetFile
    /\ notified' = TRUE /\ pc' = "done"
    /\ UNCHANGED <<runs, resume, i, attempts, client>>

\* The controller process dies (kill, Ctrl-C, power): only the file stays;
\* the agents see their connections drop.
Crash ==
    /\ pc \in {"loop", "connect", "cd", "attempt", "disconnect", "checkpoint"}
    /\ pc' = "crashed" /\ client' = [s \in Srv |-> "none"]
    /\ lost' = IF pc = "checkpoint" THEN [lost EXCEPT ![i] = @ + 1] ELSE lost
    /\ UNCHANGED <<runs, resume, i, attempts, file, alreadyRun, notified,
                   done, completions>>

Next ==
    \/ \E r \in BOOLEAN : Start(r)
    \/ Skip \/ Begin \/ ConnectAll \/ CdAll \/ Attempt \/ BadRcHalt \/ Disconnect
    \/ AddRun \/ Finish \/ Crash

\* The scheduler loop runs on; the experiment function returns (or raises)
\* eventually.  Crashes, BadReturnCode and new invocations are not forced.
Fairness ==
    /\ WF_vars(Skip) /\ WF_vars(Begin) /\ WF_vars(ConnectAll) /\ WF_vars(CdAll)
    /\ WF_vars(Attempt) /\ WF_vars(Disconnect) /\ WF_vars(AddRun)
    /\ WF_vars(Finish)

Spec == Init /\ [][Next]_vars /\ Fairness

-----------------------------------------------------------------------------
(***************************************************************************)
(* Properties                                                              *)
(***************************************************************************)

\* Scenario B of the spec: a registration with max_restarts = m > 0 has its
\* function called at most m times in one invocation.
AttemptBound ==
    pc = "attempt" /\ MaxAttempts(i) # 0 => attempts + 1 <= MaxAttempts(i)

\* Resume never skips work that was not done: a registration is skipped
\* only if it itself completed (attempt loop, disconnect, checkpoint) in an
\* earlier invocation since the checkpoint file was last reset.
SkipOnlyCompleted == [][Skip => i \in done]_vars

\* Resume repeats work only where the checkpoint could not record it: across
\* crashes, halts and resumed invocations (each re-reading the file), a
\* registration completes again after it completed only if a crash fell
\* between its _disconnect_from_all and its add_run.  Between two resets of
\* the checkpoint file it completes at most once more than such crashes.
RerunOnlyAfterLostCheckpoint == \A j \in Idx : completions[j] <= 1 + lost[j]

\* Spec 4.5 step 2: a connection failure aborts the registration before
\* the experiment function runs; the cd after asyncio.wait is what should
\* detect it.  Every server holds a live connection while the function runs.
ExperimentRunsOnLiveGroup == pc = "attempt" => \A s \in Srv : client[s] = "live"

\* The servers an argument stands for, depth first.
RECURSIVE Leaves(_)
Leaves(a) ==
    IF a.kind = "server" THEN <<a.id>>
    ELSE FlattenSeq([k \in DOMAIN a.items |-> Leaves(a.items[k])])

\* ServerList's comment "insert at front to preserve order": the group lists
\* the servers of its arguments in the order they are written, however the
\* iterables nest (config.server_list[:2], (s, [t, u]), ...).
GroupKeepsArgumentOrder ==
    \A args \in ArgSamples :
        Unpack(args, <<>>) = FlattenSeq([k \in DOMAIN args |-> Leaves(args[k])])

=============================================================================
