------------------------ MODULE MC_StdinController ------------------------
(* Model-checking instances of StdinController.                           *)
EXTENDS StdinController

CONSTANTS u1, u2

MCUuids == {u1, u2}

\* Two digits and one other printable character.
MCChars == {"0", "1", "x"}
MCDigit == ("0" :> 0) @@ ("1" :> 1)
=============================================================================
