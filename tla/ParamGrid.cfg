\* Every declaration of up to three parameters, plain lists of up to two
\* distinct values, computed parameters that return a value, a list, or an
\* empty list.
CONSTANTS
    a = a  b = b  c = c  v1 = v1  v2 = v2
    NoFn = NoFn  IndexError = IndexError
    KeyNames <- MCKeyNames
    Vals <- MCVals
    Fns <- MCFnsWithEmpty
    Apply <- MCApply
    MaxListLen = 2

SPECIFICATION Spec

INVARIANT GridMatchesReference
