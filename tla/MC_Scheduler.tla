--------------------------- MODULE MC_Scheduler ---------------------------
(* Model-checking instances of Scheduler.                                 *)
EXTENDS Scheduler, TLC

CONSTANTS s1, s2

\* A group of two servers; they play the same role, so any permutation of
\* them is a symmetry of the model.
SrvSymmetry == Permutations({s1, s2})

S(s) == [kind |-> "server", id |-> s]
Iter(items) == [kind |-> "iter", items |-> items]

\* The experiment files' servers=config.server_list[:2]: one iterable.
MCGroupArgs == << Iter(<< S(s1), S(s2) >>) >>

\* Servers and nested iterables as ServerList arguments: every list of up
\* to three of them.
ArgAtoms == { S(s1), S(s2), Iter(<< S(s1), S(s2) >>),
              Iter(<< Iter(<< S(s2) >>), S(s1) >>), Iter(<<>>) }
MCArgSamples == UNION {[1..n -> ArgAtoms] : n \in 0..3}

Decl(f, g, m, r) == [fn |-> f, grid |-> g, maxRestarts |-> m, raiseOnRc |-> r]

File(decls) == [kind |-> "file", files |-> <<decls>>]

\* One file: a function over a two-point grid with a budget of 2 and
\* raise_on_rc, a parameterless one with unlimited restarts without it, and
\* a third with a budget of 1.
MCPaths ==
    << File(<< Decl("bench", <<"x=1", "x=2">>, 2, TRUE),
               Decl("other", NoGrid, 0, FALSE),
               Decl("third", NoGrid, 1, TRUE) >>) >>

\* The experiments/ folder passed to one client: two files, each registering
\* its own parameterless compile() before its benchmark grid (as every file
\* under experiments/ does).
MCPathsTwoFiles ==
    << [kind |-> "dir",
        files |-> << << Decl("compile", NoGrid, 1, TRUE),
                        Decl("fa_benchmark", <<"worker=1">>, 1, TRUE) >>,
                     << Decl("compile", NoGrid, 1, TRUE),
                        Decl("batch_benchmark", <<"worker=1">>, 1, TRUE) >> >>] >>

=============================================================================
