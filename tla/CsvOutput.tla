----------------------------- MODULE CsvOutput -----------------------------
(***************************************************************************)
(* outputs.py CSVGenerator: a stdout handler that feeds every line of a    *)
(* command to a list of regex aggregators (Default, Array, Percentile,     *)
(* Mean, Max, Min, Sum, SortedArray, GroupedArray) and, once the command   *)
(* is done, assembles one CSV row from their columns and the manual        *)
(* columns of add_columns.  The generator is one of the stdout handlers    *)
(* of a command: ClientImpl.stdout calls the command's handler list in     *)
(* order for every line, next to a SubstrMatcher, an EnvParser, a Console  *)
(* or a File.                                                              *)
(*                                                                         *)
(* A line is abstracted to the set of aggregators whose regex it matches,  *)
(* the value every matched named group captures (eval() of it is a small   *)
(* natural), the <i>/<key> group of SortedArray/GroupedArray, whether it   *)
(* contains the matcher's substring and whether it contains '='.  A        *)
(* column's text is abstracted to the value it is formatted from.          *)
(***************************************************************************)
EXTENDS Naturals, Sequences, SequencesExt, FiniteSets

CONSTANTS
    Handlers,    \* the command's stdout list: "csv", "substr", "env", "console", "file"
    Regs,        \* the aggregators: <<[kind, keys (group names in order), num, den]>>
    ManualInit,  \* add_columns(**kwargs) of the constructor: a function name -> value
    ManualOrder, \* the order of those kwargs
    Extra,       \* names a later add_columns call may use
    Vals,        \* captured values
    MaxIdx,      \* largest <i> / <key> captured
    MaxLines,    \* lines the command prints
    NoneV,       \* Default's column before any match (None)
    RowError     \* row raised (IndexError or "Not enough values for row")

R == 1..Len(Regs)
PairKinds  == {"sorted", "grouped"}

RegexKeys == FlattenSeq([r \in R |-> Regs[r].keys])

\* __init__ raises on a repeated column name, so a generator that exists has
\* a header without repetitions.
ASSUME IsInjective(ManualOrder \o RegexKeys)
ASSUME \A h \in ToSet(Handlers) : h \in {"csv", "substr", "env", "console", "file"}
ASSUME \A r \in R : Regs[r].kind = "percentile" =>
          0 <= Regs[r].num /\ Regs[r].num <= Regs[r].den /\ Regs[r].den > 0

VARIABLES
    header,      \* CSVGenerator.__header
    manual,      \* CSVGenerator.__manual
    cols,        \* cols[r]: the _cols of aggregator r
    fed,         \* lines delivered so far
    matched,     \* the SubstrMatcher's future is done
    env          \* the names the EnvParser has stored

vars == <<header, manual, cols, fed, matched, env>>

\* The regex aggregators' constructors: Default starts every group at None,
\* the others at an empty list.
InitCols(r) ==
    [k \in ToSet(Regs[r].keys) |-> IF Regs[r].kind = "default" THEN NoneV ELSE <<>>]

\* CSVGenerator.__init__: add_columns(**kwargs), then each regex's keys.
Init ==
    /\ header = ManualOrder \o RegexKeys
    /\ manual = ManualInit
    /\ cols = [r \in R |-> InitCols(r)]
    /\ fed = 0
    /\ matched = FALSE
    /\ env = {}

Lines == [hit : SUBSET R, v : Vals, idx : 1..MaxIdx, sub : BOOLEAN, eq : BOOLEAN]

\* Each aggregator's search(line): no match leaves it alone; Default takes
\* the match's groupdict, the list kinds append the value, SortedArray and
\* GroupedArray append (int(i or key), value).
Search(r, line) ==
    IF r \notin line.hit THEN cols[r]
    ELSE [k \in DOMAIN cols[r] |->
            IF Regs[r].kind = "default" THEN line.v
            ELSE IF Regs[r].kind \in PairKinds THEN Append(cols[r][k], <<line.idx, line.v>>)
            ELSE Append(cols[r][k], line.v)]

\* EnvParser.__call__: line.split('=', 1) unpacks into name, value, and
\* raises ValueError on a line without '='.  No other handler raises.
Raises(h, line) == h = "env" /\ ~line.eq

\* ClientImpl.stdout: the handlers in order, each called synchronously; the
\* first one that raises ends the task of this line, so the handlers after
\* it never see the line (the next line is a new task).
Reached(line) ==
    LET stop == SelectInSeq(Handlers, LAMBDA h : Raises(h, line))
    IN  ToSet(IF stop = 0 THEN Handlers ELSE SubSeq(Handlers, 1, stop))

\* SubstrMatcher.__call__: once the future is done the line is ignored;
\* otherwise a line containing the substring resolves it.
SubstrMatch(line) == matched \/ line.sub

\* One stdout line of the command: every reached handler does its part
\* (CSVGenerator.__call__: every regex searches the line; EnvParser stores
\* the name; Console and File only print).
Feed(line) ==
    /\ fed < MaxLines
    /\ LET reached == Reached(line) IN
         /\ cols' = IF "csv" \in reached THEN [r \in R |-> Search(r, line)] ELSE cols
         /\ matched' = IF "substr" \in reached THEN SubstrMatch(line) ELSE matched
         /\ env' = IF "env" \in reached /\ line.eq THEN env \cup {line.v} ELSE env
    /\ fed' = fed + 1
    /\ UNCHANGED <<header, manual>>

\* SubstrMatcher.reset: a fresh future, so the next match is waited for.
Reset ==
    /\ matched
    /\ matched' = FALSE
    /\ UNCHANGED <<header, manual, cols, fed, env>>

\* add_columns(**kwargs) called later by the experiment; a name already in
\* the header raises in the caller and changes nothing.
AddColumns(k, v) ==
    /\ k \notin ToSet(header)
    /\ header' = Append(header, k)
    /\ manual' = manual @@ (k :> v)
    /\ UNCHANGED <<cols, fed, matched, env>>

Next ==
    \/ \E line \in Lines : Feed(line)
    \/ \E k \in Extra, v \in Vals : AddColumns(k, v)
    \/ "substr" \in ToSet(Handlers) /\ Reset

Spec == Init /\ [][Next]_vars

-----------------------------------------------------------------------------
(* row: the columns of every aggregator's cols(), then the manual ones.    *)

SumOf(s) == FoldLeft(LAMBDA a, b : a + b, 0, s)

\* Bug variant: one past int(len(v) * percentile).
PercentileIndexOffByOne(n, num, den) == (n * num) \div den + 1

\* Percentile.cols: sorted(values)[int(len(v) * percentile)], 0-based.
PercentileIndex(n, num, den) == (n * num) \div den

\* The index is out of range: the list comprehension raises IndexError.
PercentileRaises(r) ==
    /\ Regs[r].kind = "percentile"
    /\ \E k \in DOMAIN cols[r] :
          /\ cols[r][k] # <<>>
          /\ PercentileIndex(Len(cols[r][k]), Regs[r].num, Regs[r].den) >= Len(cols[r][k])

\* SortedArray.cols: v.sort(key=lambda x: x[0]), a stable sort on <i>.
RECURSIVE SortByIdx(_)
SortByIdx(s) ==
    IF s = <<>> THEN <<>>
    ELSE LET rest == SortByIdx(Tail(s))
             at   == SelectInSeq(rest, LAMBDA x : x[1] >= Head(s)[1])
             pos  == IF at = 0 THEN Len(rest) + 1 ELSE at
         IN  SubSeq(rest, 1, pos - 1) \o <<Head(s)>> \o SubSeq(rest, pos, Len(rest))

\* The column one aggregator yields for key k (Default yields only the keys
\* that are not None).
Column(r, k) ==
    LET v == cols[r][k]
        n == Len(v)
        kind == Regs[r].kind
    IN  CASE kind = "array"      -> v
          [] kind = "percentile" -> IF n > 0
                                      THEN SortSeq(v, <)[PercentileIndex(n, Regs[r].num, Regs[r].den) + 1]
                                      ELSE 0
          [] kind = "mean"       -> IF n > 0 THEN <<SumOf(v), n>> ELSE 0
          [] kind = "max"        -> IF n > 0 THEN Max(ToSet(v)) ELSE 0
          [] kind = "min"        -> IF n > 0 THEN Min(ToSet(v)) ELSE 0
          [] kind = "sum"        -> SumOf(v)
          [] kind = "sorted"     -> [j \in 1..n |-> SortByIdx(v)[j][2]]
          [] kind = "grouped"    -> v
          [] OTHER               -> v

Yielded(r) ==
    IF Regs[r].kind = "default" THEN {k \in DOMAIN cols[r] : cols[r][k] # NoneV}
    ELSE DOMAIN cols[r]

\* CSVGenerator.row: columns = {k: v for regex in regexs for k, v in
\* regex.cols()}; columns.update(manual); a header column without a value
\* raises, else the values in header order.
Row ==
    IF \E r \in R : PercentileRaises(r) THEN RowError
    ELSE LET fromRegex == UNION {{<<r, k>> : k \in Yielded(r)} : r \in R}
             named     == {p[2] : p \in fromRegex} \cup DOMAIN manual
             valueOf(k) == IF k \in DOMAIN manual THEN manual[k]
                           ELSE LET p == CHOOSE p \in fromRegex : p[2] = k
                                IN  Column(p[1], k)
         IN  IF Cardinality(named) # Len(header) THEN RowError
             ELSE [i \in 1..Len(header) |-> valueOf(header[i])]

-----------------------------------------------------------------------------
(* Properties                                                              *)

\* The aggregator has seen a match of its regex.
Matched(r) ==
    \A k \in DOMAIN cols[r] :
        IF Regs[r].kind = "default" THEN cols[r][k] # NoneV ELSE cols[r][k] # <<>>

\* Once every regex of the generator has matched some line of the command,
\* CSVGenerator.row (and so write()) yields a row: every aggregator that has
\* values produces its column, and the regex, manual and later add_columns
\* columns fill the header, for every percentile Percentile.__init__
\* accepts (0 <= percentile <= 1).  CsvOutput.cfg checks the median;
\* CsvOutput_PercentileOne.cfg checks percentile 1.
RowAfterEveryRegexMatched == (\A r \in R : Matched(r)) => Row # RowError

=============================================================================
