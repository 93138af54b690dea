----------------------------- MODULE MCSymStack -----------------------------
(* SymStack on small instances. *)
EXTENDS SymStack, TLC

Symmetry == Permutations(Names)

\* Statement expressions and external declarations, but not both.
MCPrograms ==
    {[exprs |-> FALSE, externals |-> TRUE], [exprs |-> TRUE, externals |-> FALSE]}
MCBoth == {[exprs |-> TRUE, externals |-> TRUE]}
=============================================================================
