---------------------------- MODULE MC_ParamGrid ----------------------------
EXTENDS ParamGrid

CONSTANTS a, b, c, v1, v2

MCKeyNames == <<a, b, c>>
MCVals == {v1, v2}

\* Computed-parameter functions: "scalar" returns a plain value, "pair" a
\* list, "echo" a one-element list holding one of its arguments (v1 when it
\* has none), "none" an empty list.
MCApply(fn, kw) ==
    CASE fn = "scalar" -> v2
      [] fn = "pair"   -> <<v1, v2>>
      [] fn = "echo"   -> IF DOMAIN kw = {} THEN <<v1>>
                          ELSE <<kw[CHOOSE k \in DOMAIN kw : TRUE]>>
      [] fn = "none"   -> <<>>

MCFns == {"scalar", "pair", "echo"}
\* The same functions and "none": a computed parameter that returns [].
MCFnsWithEmpty == MCFns \cup {"none"}
=============================================================================
