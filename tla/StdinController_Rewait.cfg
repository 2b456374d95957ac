\* Two commands, lines of up to two characters, two stdin records and two
\* wait() calls: a second controller session after the first one ended.
CONSTANTS
    u1 = u1
    u2 = u2
    Uuids <- MCUuids
    Chars <- MCChars
    Digit <- MCDigit
    NoCmd = NoCmd
    MaxInput = 2
    MaxSent = 2
    MaxWaits = 2

SPECIFICATION Spec
CHECK_DEADLOCK FALSE

PROPERTY WaitEndsOnExitKey
