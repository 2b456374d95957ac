-------------------------- MODULE StdinController --------------------------
(***************************************************************************)
(* stdin_controller.py StdinController: the interactive multiplexer that   *)
(* forwards what the user types at the controller's terminal to the stdin  *)
(* of one of the commands registered with it (run_cmd(..., stdin=ctl)).    *)
(*                                                                         *)
(* The experiment function calls add() (through Server.run_cmd) and wait() *)
(* from the main thread; while wait() runs the event loop, __on_stdin      *)
(* handles one character per reader callback.  A line sent to a command   *)
(* is a create_task(rpc.stdin_cmd(...)); tasks write in creation order, so *)
(* sent is the order of the records on the wire.  Typed text is a         *)
(* sequence of characters of Chars; terminal echo and log lines are left   *)
(* out.                                                                   *)
(***************************************************************************)
EXTENDS Naturals, Sequences, SequencesExt

CONSTANTS
    Uuids,       \* the commands an experiment may register (model values)
    Chars,       \* printable characters the user types: digits and others
    Digit,       \* Digit[c]: the value of a digit character
    NoCmd,       \* self.__cmd is None
    MaxInput,    \* longest line typed
    MaxSent,     \* stdin_cmd records the model lets the user create
    MaxWaits     \* wait() calls

ASSUME DOMAIN Digit \subseteq Chars /\ \A c \in DOMAIN Digit : Digit[c] \in 0..9

\* The control keys __on_stdin tells apart.
CtrlC == "ctrl-c"
CtrlH == "ctrl-h"
CtrlD == "ctrl-d"
Backspace == "backspace"
Enter == "enter"
Keys == {CtrlC, CtrlH, CtrlD, Backspace, Enter} \cup Chars

VARIABLES
    cmds,        \* self.cmds: the registered uuids in insertion order
    sel,         \* self.__cmd: the selected uuid, or NoCmd
    input,       \* self.__input
    stopped,     \* self.__stop_future is done
    session,     \* "out", or "in" while wait() runs the loop with the reader
    late,        \* a key was handled after the future was set in this session
    sent,        \* the stdin_cmd records created: [tok, line, close]
    waits,       \* wait() calls so far
    keyed        \* a Ctrl-C or Ctrl-D of the current wait() set the future

vars == <<cmds, sel, input, stopped, session, late, sent, waits, keyed>>

Records == [tok : Uuids, line : Seq(Chars), close : BOOLEAN]

TypeOK ==
    /\ cmds \in Seq(Uuids) /\ sel \in Uuids \cup {NoCmd}
    /\ input \in Seq(Chars) /\ Len(input) <= MaxInput
    /\ stopped \in BOOLEAN /\ session \in {"out", "in"} /\ late \in BOOLEAN
    /\ sent \in Seq(Records) /\ waits \in 0..MaxWaits /\ keyed \in BOOLEAN

\* __init__: no commands, an empty line and a fresh stop future.
Init ==
    /\ cmds = <<>> /\ sel = NoCmd /\ input = <<>>
    /\ stopped = FALSE /\ session = "out" /\ late = FALSE
    /\ sent = <<>> /\ waits = 0 /\ keyed = FALSE

\* add(server_id, uuid, cmd, rpc), called by Server.run_cmd outside wait().
Add(u) ==
    /\ session = "out" /\ u \notin ToSet(cmds)
    /\ cmds' = Append(cmds, u)
    /\ UNCHANGED <<sel, input, stopped, session, late, sent, waits, keyed>>

\* int(select): a non-empty string of digits, read in base 10.
IsNumber(s) == s # <<>> /\ \A j \in 1..Len(s) : s[j] \in DOMAIN Digit
NumberOf(s) == FoldLeft(LAMBDA acc, c : 10 * acc + Digit[c], 0, s)

\* __menu(select): __cmd = None; an int in range selects the command at
\* that position of the dict, anything else prints an error.
Select(s) ==
    IF IsNumber(s) /\ NumberOf(s) < Len(cmds) THEN cmds[NumberOf(s) + 1] ELSE NoCmd

\* wait(): print the menu (which clears the selection), switch the terminal
\* to raw mode, add the reader and run the loop until the stop future is done.
Wait ==
    /\ session = "out" /\ waits < MaxWaits
    /\ waits' = waits + 1
    /\ sel' = NoCmd
    /\ session' = "in" /\ late' = FALSE /\ keyed' = FALSE
    /\ UNCHANGED <<cmds, input, stopped, sent>>

\* set_result on the stop future: the first call resolves it; a second one
\* raises InvalidStateError, which aborts the rest of the callback.
Resolve ==
    /\ ~stopped
    /\ stopped' = TRUE /\ keyed' = TRUE

\* __on_stdin for one character c.
OnStdin(c) ==
    CASE c = CtrlC ->
           /\ IF stopped THEN UNCHANGED <<stopped, keyed>> ELSE Resolve
           /\ UNCHANGED <<sel, input, sent>>
      [] c = CtrlH ->
           /\ sel' = NoCmd
           /\ UNCHANGED <<input, stopped, sent, keyed>>
      [] c = CtrlD /\ sel # NoCmd ->
           /\ Len(sent) < MaxSent
           /\ sent' = Append(sent, [tok |-> sel, line |-> <<>>, close |-> TRUE])
           /\ IF stopped THEN UNCHANGED <<input, stopped, keyed>>
                         ELSE Resolve /\ input' = <<>>
           /\ UNCHANGED sel
      [] c = CtrlD ->
           UNCHANGED <<sel, input, stopped, sent, keyed>>
      [] c = Backspace ->
           /\ input' = SubSeq(input, 1, Len(input) - 1)
           /\ UNCHANGED <<sel, stopped, sent, keyed>>
      [] c = Enter /\ sel # NoCmd ->
           /\ Len(sent) < MaxSent
           /\ sent' = Append(sent, [tok |-> sel, line |-> input, close |-> FALSE])
           /\ input' = <<>>
           /\ UNCHANGED <<sel, stopped, keyed>>
      [] c = Enter ->
           /\ sel' = Select(input)
           /\ input' = <<>>
           /\ UNCHANGED <<stopped, sent, keyed>>
      [] OTHER ->
           /\ Len(input) < MaxInput
           /\ input' = Append(input, c)
           /\ UNCHANGED <<sel, stopped, sent, keyed>>

\* The loop calls the reader once per iteration while stdin is readable.
\* Once the future is set, the loop stops after the iteration that runs its
\* done callback; a character already buffered is still handled in it.
Key(c) ==
    /\ session = "in" /\ ~(stopped /\ late)
    /\ OnStdin(c)
    /\ late' = stopped
    /\ UNCHANGED <<cmds, session, waits>>

\* run_until_complete returns: remove the reader and restore the terminal.
End ==
    /\ session = "in" /\ stopped
    /\ session' = "out"
    /\ UNCHANGED <<cmds, sel, input, stopped, late, sent, waits, keyed>>

Next ==
    \/ \E u \in Uuids : Add(u)
    \/ Wait
    \/ \E c \in Keys : Key(c)
    \/ End

Spec == Init /\ [][Next]_vars

-----------------------------------------------------------------------------
(* Properties                                                              *)

\* The menu says "Press Ctrl-C to quit this controller": every wait() runs
\* until the user presses Ctrl-C, or Ctrl-D on a selected command, during
\* that wait().  The stop future is created once, in __init__.
WaitEndsOnExitKey == [][session = "in" /\ session' = "out" => keyed]_vars

=============================================================================
