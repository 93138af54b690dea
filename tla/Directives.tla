----------------------------- MODULE Directives -----------------------------
(***************************************************************************)
(* What the C standard says a translation unit is after its directives are *)
(* carried out (C11 6.10.1, 6.10.2, 6.10.3), and what GCC documents of     *)
(* "#pragma once", push_macro and pop_macro: every #include reads its file *)
(* again, from a state that knows nothing of guards or caches.  Text is    *)
(* expanded as in Expansion.  Preproc, the preprocessor of tccpp.c, is     *)
(* compared with it.                                                       *)
(***************************************************************************)
EXTENDS Integers, Sequences

CONSTANTS Macros, Replacement, TooDeep

Expands == INSTANCE Expansion

\* The state of a translation: the text produced, with the macros it was
\* produced under, the macros, the definitions pushed on each name, the files
\* that said "#pragma once", and whether a constraint was violated or the
\* behaviour is undefined.
Nothing(undefined) ==
  [out |-> <<>>, defs |-> [m \in Macros |-> undefined],
   pushed |-> [m \in Macros |-> <<>>], once |-> {}, err |-> FALSE,
   ub |-> FALSE]

Opens == {"ifdef", "ifndef", "if"}

\* Whether the condition of a directive holds.  Every file of a model exists,
\* so __has_include does too.
Holds(l, defs) ==
  CASE l.d = "ifdef"  -> defs[l.m] # 0
    [] l.d = "ifndef" -> defs[l.m] = 0
    [] l.c = "has"    -> TRUE
    [] l.c = "0"      -> FALSE

\* An open #if: its current group is included, one of its groups was, and
\* its #else has been seen.
Cond(now, taken, else) == [now |-> now, taken |-> taken, else |-> else]

Included(conds) == \A i \in DOMAIN conds : conds[i].now
Outer(conds) == SubSeq(conds, 1, Len(conds) - 1)
Inner(conds) == conds[Len(conds)]

Failed(s) == [s EXCEPT !.err = TRUE]

\* The conditions after a conditional directive; <<>> stands in for none.
Opened(l, conds, s) ==
  LET c == Included(conds) /\ Holds(l, s.defs)
  IN  Append(conds, Cond(c, c, FALSE))

Elsed(conds) ==
  Append(Outer(conds), Cond(~Inner(conds).taken, TRUE, TRUE))

Elifed(l, conds, s) ==
  LET c == /\ ~Inner(conds).taken
           /\ Included(Outer(conds))
           /\ Holds(l, s.defs)
  IN  Append(Outer(conds), Cond(c, c \/ Inner(conds).taken, FALSE))

\* An #else or #elif belongs to an #if of its own file and comes before the
\* #else of that #if; in a group that is skipped only the nesting counts.
Misplaced(conds) ==
  \/ conds = <<>>
  \/ Included(Outer(conds)) /\ Inner(conds).else

\* Text that expands to r.
Expanded(r, f, i, s) ==
  IF Expands!IsBad(r) THEN [s EXCEPT !.err = r.err, !.ub = r.undefined]
  ELSE [s EXCEPT !.out = Append(@, <<f, i, s.defs, r.toks>>)]

\* A line that is neither conditional nor #include, at line i of file f.
Simple(l, f, i, s) ==
  CASE l.d = "text"   -> 
         Expanded(Expands!Line(s.defs, l.toks), f, i, s)
    [] l.d = "define" -> [s EXCEPT !.defs[l.m] = l.v]
    [] l.d = "undef"  -> [s EXCEPT !.defs[l.m] = 0]
    [] l.d = "once"   -> [s EXCEPT !.once = @ \cup {f}]
    [] l.d = "line"   -> s
    [] l.d = "push"   -> [s EXCEPT !.pushed[l.m] = Append(@, s.defs[l.m])]
    [] l.d = "pop"    ->
         IF s.pushed[l.m] = <<>> THEN s
         ELSE [s EXCEPT !.defs[l.m] = Inner(s.pushed[l.m]),
                        !.pushed[l.m] = Outer(@)]

\* What the lines of f from line i on do to s, under the open conditions
\* conds, at a given depth of inclusion.  The end of the text ends the file.
RECURSIVE Translate(_, _, _, _, _, _)
Translate(text, f, i, conds, depth, s) ==
  IF s.err \/ s.ub THEN s
  ELSE IF i > Len(text[f]) \/ text[f][i].d = "eof"
  THEN IF conds = <<>> THEN s ELSE Failed(s)
  ELSE
    LET l == text[f][i]
        Go(cs, t) == Translate(text, f, i + 1, cs, depth, t)
    IN  CASE l.d \in Opens -> Go(Opened(l, conds, s), s)
          [] l.d \in {"else", "elif"} ->
               IF Misplaced(conds) THEN Failed(s)
               ELSE Go(IF l.d = "else" THEN Elsed(conds)
                       ELSE Elifed(l, conds, s), s)
          [] l.d = "endif" ->
               IF conds = <<>> THEN Failed(s) ELSE Go(Outer(conds), s)
          [] l.d = "include" /\ Included(conds) ->
               IF l.f \in s.once THEN Go(conds, s)
               ELSE IF depth = TooDeep THEN Failed(s)
               ELSE Go(conds, Translate(text, l.f, 1, <<>>, depth + 1, s))
          [] OTHER ->
               Go(conds, IF Included(conds) THEN Simple(l, f, i, s) ELSE s)

=============================================================================
