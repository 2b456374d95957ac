----------------------------- MODULE ParamGrid -----------------------------
(***************************************************************************)
(* Parameter-grid expansion of distexprunner (parameter_grid.py product,  *)
(* ParameterGrid.get, ComputedParam).  The expansion is a pure function   *)
(* of the declaration; the module gives it as the code computes it        *)
(* (positional value lists zipped with the keys at the end) and as the    *)
(* reference expansion of section 4.4 of the design (named partial        *)
(* assignments, empty parameters skipped), and the single state variable  *)
(* ranges over every bounded declaration so that TLC compares the two on  *)
(* all of them.                                                           *)
(*                                                                         *)
(* A declared parameter is a record: a plain list ("list", vals) or a     *)
(* ComputedParam ("computed", fn, args = the names of fn's arguments).    *)
(* Apply(fn, d) is what the user's function returns for the keyword       *)
(* arguments d: one value of Vals (not iterable) or a sequence.           *)
(***************************************************************************)
EXTENDS Naturals, Sequences, SequencesExt, Functions, TLC

CONSTANTS
    KeyNames,    \* the keyword names, in declaration order
    Vals,        \* parameter values (model values)
    Fns,         \* the computed-parameter functions
    Apply(_, _), \* Apply(fn, kwargs): fn(**kwargs)
    MaxListLen,  \* longest plain list
    NoFn,        \* fn field of a plain list
    IndexError   \* the expansion raised IndexError

VARIABLE decl    \* the ParameterGrid(**kwargs) being expanded

Declarable(i) ==
    [key : {KeyNames[i]}, kind : {"list"}, fn : {NoFn}, args : {{}},
     vals : {s \in BoundedSeq(Vals, MaxListLen) : IsInjective(s)}]
    \cup
    [key : {KeyNames[i]}, kind : {"computed"}, fn : Fns, vals : {<<>>},
     args : SUBSET {KeyNames[j] : j \in 1..(i - 1)}]

Decls ==
    UNION {{d \in [1..n -> UNION {Declarable(i) : i \in 1..n}] :
              \A i \in 1..n : d[i] \in Declarable(i)} : n \in 0..Len(KeyNames)}

Init == decl \in Decls

\* The expansion does not change the declaration.
Next == UNCHANGED decl

Spec == Init /\ [][Next]_decl

-----------------------------------------------------------------------------
(* The code.                                                               *)

\* ComputedParam.__len__ is 1; a list's length is its own.
PoolLen(p) == IF p.kind = "computed" THEN 1 ELSE Len(p.vals)

\* product: params = {k: v for k, v in params.items() if len(v) != 0}
Params(d) == SelectSeq(d, LAMBDA p : PoolLen(p) # 0)

\* ComputedParam.get(keys[:len(x)], x): the keyword arguments are the first
\* len(x) keys zipped with x, those named in fn_args only.
ArgDict(p, ks, x) ==
    [k \in {ks[i] : i \in 1..Len(x)} \cap p.args |->
        x[CHOOSE i \in 1..Len(x) : ks[i] = k]]

\* ComputedParam.get: a non-iterable result becomes (ret,).
AsPool(r) == IF r \in Vals THEN <<r>> ELSE r

\* fn(x, pool): the branches of one partial value list x.
Branch(x, p, ks) ==
    LET pool == IF p.kind = "computed" THEN AsPool(Apply(p.fn, ArgDict(p, ks, x)))
                                       ELSE p.vals
    IN  (IF Len(pool) = 0 THEN <<x>> ELSE <<>>)
        \o [j \in 1..Len(pool) |-> Append(x, pool[j])]

Keys(P) == [i \in 1..Len(P) |-> P[i].key]

\* result = [[]]; for pool in values: result = [y for x in result for y in fn(x, pool)]
Expand(P) ==
    FoldLeft(LAMBDA result, p :
                 FlattenSeq([m \in 1..Len(result) |-> Branch(result[m], p, Keys(P))]),
             <<<<>>>>, P)

\* product's last loop and ParameterGrid.get: {key: prod[i] for i, key in
\* enumerate(keys)}; a value list shorter than keys raises IndexError, which
\* escapes reg_exp and the experiment file's import.
Product(d) ==
    LET P == Params(d)
        R == Expand(P)
    IN  IF \E m \in 1..Len(R) : Len(R[m]) < Len(P)
          THEN IndexError
          ELSE [m \in 1..Len(R) |->
                  [k \in ToSet(Keys(P)) |-> R[m][CHOOSE i \in 1..Len(P) : P[i].key = k]]]

-----------------------------------------------------------------------------
(* The reference: section 4.4, over named partial assignments.            *)

RECURSIVE RefExpand(_, _)
RefExpand(ds, partials) ==
    IF ds = <<>> THEN partials
    ELSE LET p == Head(ds)
             Vs(a) == IF p.kind = "list" THEN p.vals
                      ELSE AsPool(Apply(p.fn, Restrict(a, p.args \cap DOMAIN a)))
             Grow(a) == IF Vs(a) = <<>> THEN <<a>>
                        ELSE [j \in 1..Len(Vs(a)) |-> a @@ (p.key :> Vs(a)[j])]
         IN  RefExpand(Tail(ds), FlattenSeq([m \in 1..Len(partials) |-> Grow(partials[m])]))

RefGrid(d) == RefExpand(d, <<[k \in {} |-> NoFn]>>)

\* Section 4.4 and the product's own `if len(pool) == 0: yield x`: empty
\* parameters are skipped, never collapse or break the grid; every computed
\* parameter sees exactly the earlier values it names; the grid comes out in
\* declaration order.  The code's expansion equals the reference one.
GridMatchesReference == Product(decl) = RefGrid(decl)

=============================================================================
