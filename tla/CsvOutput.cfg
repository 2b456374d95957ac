\* A generator with a Default, a median Percentile, a SortedArray and a Max
\* aggregator, a manual column and one later add_columns, over three lines.
CONSTANTS
    NoneV = NoneV  RowError = RowError
    Handlers <- MCHandlers
    Regs <- MCRegsHalf
    ManualInit <- MCManualInit
    ManualOrder <- MCManualOrder
    Extra <- MCExtra
    Vals = {1, 2}
    MaxIdx = 2
    MaxLines = 3

SPECIFICATION Spec
CHECK_DEADLOCK FALSE

INVARIANT RowAfterEveryRegexMatched
