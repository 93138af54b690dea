------------------------------ MODULE MCJumps -------------------------------
(* Instances of Jumps for TLC: programs by the statements they are made of. *)
EXTENDS Jumps

Leaf0(k, id) == [k |-> k, id |-> id, args |-> <<>>]
Tree(k, id, args) == [k |-> k, id |-> id, args |-> args]

less == Leaf0("less", 1)
call == Leaf0("call", 1)
die == Leaf0("die", 1)
zero == Leaf0("zero", 0)
one == Leaf0("one", 0)
Numbered(e, id) == [e EXCEPT !.id = id]

\* Trees over the leaves ls, each with its own number.
Leaves(ls, id) == {IF l.id = 0 THEN l ELSE Numbered(l, id) : l \in ls}
Two(ls, id) ==
    {Tree(k, 0, <<a, b>>) : k \in {"land", "lor"}, a \in Leaves(ls, id), b \in Leaves(ls, id + 1)}
Negated(es) == {Tree("not", 0, <<e>>) : e \in es}
Cond(as, bs, cs) == {Tree("cond", 0, <<a, b, c>>) : a \in as, b \in bs, c \in cs}

ls == {less, call, zero, one}
Second == Two(ls, 1) \cup Negated(Leaves(ls, 1)) \cup Cond(Leaves(ls, 1), Leaves(ls, 2), Leaves(ls, 3))
Small(id) == Two({less, one}, id) \cup Negated(Leaves({less, call}, id))
Third3 == {Tree(k, 0, <<a, b, c>>) : k \in {"land", "lor"}, a \in Leaves({less, zero}, 1),
                                      b \in Small(2), c \in Leaves({less, one}, 5)}
          \cup Cond(Small(1), Small(3), Leaves({less, call, zero}, 5))
          \cup Cond(Leaves({less}, 1), Leaves({call, one}, 2), Small(3))
          \cup Negated(Second)

\* Calls that do not return, in operands that are evaluated.
Dying == {die} \cup Two({less, die}, 1) \cup Cond({less}, Leaves({die, call}, 2), Leaves({die, one}, 3))

\* And in operands that are not.
Suppressed == {Tree("lor", 0, <<one, die>>), Tree("land", 0, <<zero, die>>)}

mc_flow == {"exprs", "loops", "switch", "nested", "gotos"}
mc_noreturn == {"noreturn"}
mc_return == {"loops"}
mc_statements ==
    [noreturn |-> <<{"expr", "if"}, {"expr"}>>,
     exprs |-> <<{"expr", "use", "if", "while", "switch"}, {"expr", "return"}>>,
     loops |-> <<{"while", "for", "do", "block"},
                 {"if", "block", "while", "for", "declare"},
                 {"if", "break", "continue", "return", "declare", "expr"},
                 {"break", "continue", "return", "expr"},
                 {"break", "expr"}>>,
     switch |-> <<{"switch", "block"},
                  {"block", "case"},
                  {"case", "expr", "declare", "while"},
                  {"case", "break", "expr", "declare"},
                  {"case", "break", "expr", "return"},
                  {"case", "expr", "break"}>>,
     nested |-> <<{"while", "for", "switch"},
                  {"block"},
                  {"declare", "case"},
                  {"switch", "while", "do", "block"},
                  {"case", "block"},
                  {"break", "continue", "case", "declare"},
                  {"break", "continue", "expr"}>>,
     gotos |-> <<{"goto", "label", "block", "if"},
                 {"goto", "label", "block", "declare", "expr"},
                 {"goto", "label", "block", "declare"},
                 {"goto", "label", "block", "declare", "if"},
                 {"goto", "label", "expr"},
                 {"goto", "label", "expr"}>>]
mc_exprs == [noreturn |-> <<Suppressed, {call}>>,
             exprs |-> <<Second \cup Third3 \cup Dying, {call}>>,
             loops |-> <<{less, one}, {less}, {call}, {call}, {call}>>,
             switch |-> <<{less, Tree("land", 0, <<less, Numbered(less, 2)>>)}, {}, {less}, {call},
                          {call}, {call}>>,
             nested |-> <<{less}, {}, {}, {less}, {}, {}, {call}>>,
             gotos |-> <<{less}, {call}, {}, {less}, {call}, {call}>>]
=============================================================================
