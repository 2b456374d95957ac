---------------------------- MODULE MC_CsvOutput ----------------------------
EXTENDS CsvOutput

\* CSVGenerator(Default(r'a=(?P<a>\d+)'), Percentile(r'p=(?P<p>\d+)', pct),
\*              SortedArray(r'(?P<i>\d+):(?P<s>\d+)'), Max(r'x=(?P<x>\d+)'),
\*              run=1), with pct = 0.5 or 1.
MCRegs(num) ==
    << [kind |-> "default",    keys |-> <<"a">>, num |-> 0,   den |-> 1],
       [kind |-> "percentile", keys |-> <<"p">>, num |-> num, den |-> 2],
       [kind |-> "sorted",     keys |-> <<"s">>, num |-> 0,   den |-> 1],
       [kind |-> "max",        keys |-> <<"x">>, num |-> 0,   den |-> 1] >>

MCRegsHalf == MCRegs(1)
MCRegsOne  == MCRegs(2)

\* stdout=[csv, SubstrMatcher("done"), EnvParser()]
MCHandlers == <<"csv", "substr", "env">>

MCManualInit == "run" :> 1
MCManualOrder == <<"run">>
MCExtra == {"note"}
=============================================================================
