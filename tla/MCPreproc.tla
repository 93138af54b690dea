----------------------------- MODULE MCPreproc -----------------------------
(***************************************************************************)
(* Programs for Preproc: a source file, headers a.h and b.h, and what the  *)
(* lines of each may be.  Families, so that each can be long enough for    *)
(* its own hazards: guards, conditionals across files, "#pragma once",     *)
(* definitions that are pushed, and expansion.                             *)
(***************************************************************************)
EXTENDS Preproc

MCMacros == {"G", "H"}

Line0(d) == [d |-> d]
Tokens(toks) == [d |-> "text", toks |-> toks]
T == Tokens(<<>>)
Else0 == Line0("else")
Endif0 == Line0("endif")
Once0 == Line0("once")
Inc(f) == [d |-> "include", f |-> f]
Def(m, v) == [d |-> "define", m |-> m, v |-> v]
On(d, m) == [d |-> d, m |-> m]
Expr(d, c) == [d |-> d, c |-> c, f |-> "b.h"]
Rename(f) == [d |-> "line", f |-> f]

Program(cmd, main, a, b) ==
  [f \in {"<command line>", "main.c", "a.h", "b.h", "z.y"} |->
     CASE f = "<command line>" -> cmd
       [] f = "main.c" -> main
       [] f = "a.h" -> a
       [] f = "b.h" -> b
       [] f = "z.y" -> {}]

\* A header with a guard, or nearly one, included more than once.
Guards ==
  Program({Inc("a.h")}, {Inc("a.h"), On("undef", "G")},
          {On("ifndef", "G"), On("ifndef", "H"), Def("G", 1), T, Else0,
           Endif0, Rename("z.y"), Inc("b.h")},
          {T})

\* Conditionals that cross the end of a file.
Crossing ==
  Program({Def("G", 1)},
          {On("ifdef", "G"), Inc("a.h"), Else0, Endif0, T, Expr("elif", "has")},
          {On("ifdef", "G"), Else0, Endif0, Expr("if", "0"), Expr("if", "has"),
           Expr("elif", "0"), T},
          {})

\* Macros defined, undefined, pushed and popped.
Definitions ==
  Program({Def("G", 1)},
          {Def("G", 1), Def("G", 2), On("undef", "G"), On("push", "G"),
           On("pop", "G"), On("push", "H"), Def("H", 3), On("pop", "H"), T},
          {}, {})

\* Headers that include each other and say "#pragma once".
Onces ==
  Program({}, {Inc("a.h"), Inc("b.h")},
          {Once0, T, Inc("a.h"), Inc("b.h"), On("ifdef", "G"), Endif0},
          {Once0, T, Inc("a.h"), Def("G", 1)})

\* Replacement lists: names that expand to each other and to themselves, calls
\* that begin in one and end in another or outside of it, arguments that are
\* expanded, spelled, joined or dropped.  1 to 3 are for the other families.
Object(body) == [func |-> FALSE, params |-> <<>>, varg |-> FALSE, body |-> body]
Func(params, body) ==
  [func |-> TRUE, params |-> params, varg |-> FALSE, body |-> body]
Variadic(params, body) == [Func(params, body) EXCEPT !.varg = TRUE]

MCReplacement ==
  << Object(<<"x">>),
     Object(<<"H">>),
     Object(<<>>),
     Object(<<"G", "x">>),
     Object(<<"H", "(">>),
     Object(<<"H", "(", "G", ")">>),
     Object(<<"H", "##", "x">>),
     Func(<<>>, <<"G">>),
     Func(<<"a">>, <<"a", "a">>),
     Func(<<"a">>, <<"#", "a">>),
     Func(<<"a">>, <<"G", "a">>),
     Func(<<"a">>, <<"H">>),
     Func(<<"a">>, <<"H", "(", "a", ")">>),
     Func(<<"a">>, <<"G", "(", "H", ")", "a">>),
     Func(<<"a">>, <<"x", "##", "a", "##", "H">>),
     Func(<<"a", "b">>, <<"a", "##", "b">>),
     Func(<<"a", "b">>, <<"H", "b", "a">>),
     Variadic(<<"a", "v">>, <<"a", ",", "##", "v">>),
     Variadic(<<"v">>, <<"H", "(", "v", ")">>) >>

Texts ==
  { <<"G">>,
    <<"G", "H">>,
    <<"G", ")">>,
    <<"G", "G", ")">>,
    <<"G", "(", ")">>,
    <<"G", "(", "x">>,
    <<"G", "(", "H", ")">>,
    <<"H", "(", "G", ")", "x">>,
    <<"G", "(", "x", ",", "H", ")">>,
    <<"G", "(", ",", "G", ",", "H", ")">>,
    <<"G", "(", "(", ",", ")", ",", ")">>,
    <<"G", "(", "H", "(", "x", ")", ")">>,
    <<"H", "(", "G", "(", "H", ",", "x", ")", ")">>,
    <<"G", "(", "x", ")", "(", "G", ")", "(", "x", ")">>,
    <<"H", "(", "G", ")", "(", "x", ",", "G", ")", "(", "x", ")">> }

Expansions ==
  Program({Def(m, v) : m \in MCMacros, v \in DOMAIN MCReplacement},
          {Tokens(toks) : toks \in Texts}, {}, {})

MCMaxLines == <<7, 7, 7, 5, 3>>

MCPrograms == <<Guards, Crossing, Onces, Definitions, Expansions>>

=============================================================================
