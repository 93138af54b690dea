------------------------------ MODULE Preproc ------------------------------
(***************************************************************************)
(* The directives of tccpp.c: conditionals (preprocess, preprocess_skip),  *)
(* the stack of included files (parse_include and the end of a file in     *)
(* next_nomacro1), the cache that skips a file whose include guard is      *)
(* defined or that said "#pragma once" (search_cached_include), and the    *)
(* macros with #pragma push_macro and pop_macro (define_push, ...).        *)
(*                                                                         *)
(* A file is a sequence of lines; its lines are chosen when they are first *)
(* read and stay what they are for every later inclusion.  A text line     *)
(* stands for all the text up to the next directive; it yields its tokens  *)
(* as MacroSubst expands them, with the macros it was read under.          *)
(***************************************************************************)
EXTENDS Integers, Sequences, FiniteSets

CONSTANTS
  Macros, \* names that are defined as macros
  Replacement, \* the replacement lists a #define may give, see MacroSubst
  INCLUDE_STACK_SIZE, IFDEF_STACK_SIZE, \* tcc.h, smaller
  MaxLines,  \* how many lines are chosen for each, over all its files
  Programs,  \* for each program, the lines each of its files may have
  Main, CommandLine, \* the source file, and the text of the -D and -include
  EmptyFiles, \* whether an included file may yield no token at all
  PushesTwice \* whether a definition is pushed again while it is pushed

VARIABLES
  program, \* the program, of those in Programs
  text,    \* the lines chosen so far, for each file
  left,    \* how many more lines may be chosen
  file,    \* the BufferedFile being read
  include_stack, \* the files it is included from
  ifdef_stack,   \* one number for each open #if: bit 0 included, bit 1 #else
  skip,    \* preprocess_skip's a, the nesting of #if in it; or NotSkipping
  tok_flags,     \* of TOK_FLAG_BOF, TOK_FLAG_ENDIF
  define_stack,  \* every definition that was ever made
  sym_define,    \* index of the definition in force for each macro, or 0
  cached,  \* the CachedInclude of each file name
  out,     \* the tokens delivered
  status   \* "run", "done" or the error that ended the translation

vars == <<program, text, left, file, include_stack, ifdef_stack, skip, tok_flags,
          define_stack, sym_define, cached, out, status>>

Files == DOMAIN Programs[program]
NotSkipping == -1
None == "none"

\* A number of the ifdef_stack, as the code uses it: 0 or 1, and 3 or 2 after
\* "^= 3" at the #else.
Flip(c) == 3 - c
Odd(c) == c % 2 = 1

(***************************************************************************)
(* Macros.                                                                 *)
(***************************************************************************)
define_find(m) == sym_define[m]
IsDefined(m) == IF m = None THEN FALSE ELSE define_find(m) # 0
Value(m) == IF IsDefined(m) THEN define_stack[define_find(m)].d ELSE 0
Values == [m \in Macros |-> Value(m)]

\* sym_push2 and table_ident[v]->sym_define = s.
define_push(m, v) ==
  /\ define_stack' = Append(define_stack, [v |-> m, d |-> v, bound |-> FALSE])
  /\ sym_define' = [sym_define EXCEPT ![m] = Len(define_stack) + 1]

define_undef(m) ==
  /\ sym_define' = [sym_define EXCEPT ![m] = 0]
  /\ UNCHANGED define_stack

\* #pragma push_macro marks the definition in force, an empty one if there
\* is none.
push_macro(m) ==
  IF IsDefined(m)
  THEN /\ define_stack' = [define_stack EXCEPT ![define_find(m)].bound = TRUE]
       /\ UNCHANGED sym_define
  ELSE /\ define_stack' =
            Append(define_stack, [v |-> m, d |-> 0, bound |-> TRUE])
       /\ UNCHANGED sym_define

\* The newest marked definition of m, or 0.
Boundary(m) ==
  LET marked == {i \in DOMAIN define_stack :
                   define_stack[i].v = m /\ define_stack[i].bound}
  IN  IF marked = {} THEN 0 ELSE CHOOSE i \in marked : \A j \in marked : j <= i

\* Mutant: the mark stays.
pop_macroKeepsMark(m) ==
  LET b == Boundary(m)
  IN  IF b = 0 THEN UNCHANGED <<define_stack, sym_define>>
      ELSE /\ sym_define' = [sym_define EXCEPT
                               ![m] = IF define_stack[b].d = 0 THEN 0 ELSE b]
           /\ UNCHANGED define_stack

pop_macro(m) ==
  LET b == Boundary(m)
  IN  IF b = 0 THEN UNCHANGED <<define_stack, sym_define>>
      ELSE /\ define_stack' = [define_stack EXCEPT ![b].bound = FALSE]
           /\ sym_define' = [sym_define EXCEPT
                               ![m] = IF define_stack[b].d = 0 THEN 0 ELSE b]

Directive(l) ==
  CASE l.d = "define" -> define_push(l.m, l.v)
    [] l.d = "undef"  -> define_undef(l.m)
    [] l.d = "push"   -> push_macro(l.m)
    [] l.d = "pop"    -> pop_macro(l.m)

Pushed(m) == IsDefined(m) /\ define_stack[define_find(m)].bound

(***************************************************************************)
(* The text.                                                               *)
(***************************************************************************)
EOF == [d |-> "eof"]
\* A definition is pushed again only if the instance allows it, and text ends
\* at a directive.
Allowed(l) ==
  /\ l.d = "push" => PushesTwice \/ ~Pushed(l.m)
  /\ l.d = "text" => \/ file.pos = 1
                      \/ text[file.true_filename][file.pos - 1].d # "text"

\* The lines that may come next in the file being read: the one chosen
\* before, or any of its lines, or its end.
Next1 ==
  LET f == file.true_filename
      empty == file.pos = 1 /\ f \notin {Main, CommandLine}
  IN  IF file.pos <= Len(text[f]) THEN {text[f][file.pos]}
      ELSE (IF left = 0 /\ ~empty THEN {}
            ELSE {l \in Programs[program][f] : Allowed(l)})
             \cup (IF empty /\ ~EmptyFiles THEN {} ELSE {EOF})

Choose(l) ==
  LET f == file.true_filename
  IN  IF file.pos <= Len(text[f]) THEN UNCHANGED <<text, left>>
      ELSE /\ text' = [text EXCEPT ![f] = Append(@, l)]
           /\ left' = IF l = EOF \/ left = 0 THEN left ELSE left - 1

NextLine == [file EXCEPT !.pos = @ + 1]

\* tcc_open_bf: a file starts with the conditionals that are open.
tcc_open_bf(f) ==
  [true_filename |-> f, filename |-> f, pos |-> 1,
   ifdef_stack_ptr |-> Len(ifdef_stack),
   ifndef_macro |-> None, ifndef_macro_saved |-> None]

NotCached == [ifndef_macro |-> None, once |-> FALSE]

\* preprocess_start: the command line is read first, the source file is
\* already on the stack.
Init ==
  /\ program \in DOMAIN Programs
  /\ text = [f \in Files |-> <<>>]
  /\ left = MaxLines[program]
  /\ ifdef_stack = <<>>
  /\ file = tcc_open_bf(CommandLine)
  /\ include_stack = <<tcc_open_bf(Main)>>
  /\ skip = NotSkipping
  /\ tok_flags = {"BOF"}
  /\ define_stack = <<>>
  /\ sym_define = [m \in Macros |-> 0]
  /\ cached = [f \in Files |-> NotCached]
  /\ out = <<>>
  /\ status = "run"

Reads(l) ==
  /\ status = "run"
  /\ Choose(l)

tcc_error(what) ==
  /\ status' = what
  /\ UNCHANGED <<file, include_stack, ifdef_stack, skip, tok_flags,
                 define_stack, sym_define, cached, out, program>>

(***************************************************************************)
(* next and next_nomacro1 outside of directives.                           *)
(***************************************************************************)
Subst == INSTANCE MacroSubst

\* What the text expands to.  A token clears tok_flags.
Deliver(toks) ==
  /\ out' = Append(out, <<file.true_filename, file.pos, Values, toks>>)
  /\ file' = NextLine
  /\ tok_flags' = {}
  /\ UNCHANGED <<program, include_stack, ifdef_stack, skip, define_stack,
                 sym_define, cached, status>>

Parsed(r) == IF r.err = None THEN Deliver(r.toks) ELSE tcc_error(r.err)

Text ==
  \E l \in Next1 :
    /\ l.d = "text"
    /\ Reads(l) /\ skip = NotSkipping
    /\ Parsed(Subst!Line(Values, l.toks))

\* The end of an included file: its guard is remembered if its last token
\* closed the #ifndef it began with.
PopFile ==
  LET prev == include_stack[Len(include_stack)]
  IN  /\ cached' = IF "ENDIF" \in tok_flags
                   THEN [cached EXCEPT ![file.filename].ifndef_macro =
                                         file.ifndef_macro_saved]
                   ELSE cached
      /\ file' = prev
      /\ include_stack' = SubSeq(include_stack, 1, Len(include_stack) - 1)
      /\ tok_flags' = IF prev.pos = 1 THEN {"BOF"} ELSE tok_flags \ {"ENDIF"}
      /\ UNCHANGED <<program, ifdef_stack, skip, define_stack, sym_define, out,
                     status>>

EndOfFile ==
  /\ EOF \in Next1
  /\ Reads(EOF) /\ skip = NotSkipping
  /\ IF Len(ifdef_stack) # file.ifdef_stack_ptr
     THEN tcc_error("missing #endif")
     ELSE IF include_stack = <<>>
     THEN /\ status' = "done"
          /\ UNCHANGED <<program, file, include_stack, ifdef_stack, skip,
                         tok_flags, define_stack, sym_define, cached, out>>
     ELSE PopFile

(***************************************************************************)
(* preprocess.                                                             *)
(***************************************************************************)
DefineUndefPragma ==
  \E l \in Next1 :
    /\ l.d \in {"define", "undef", "push", "pop"}
    /\ Reads(l) /\ skip = NotSkipping
    /\ Directive(l)
    /\ file' = NextLine
    /\ tok_flags' = {}
    /\ UNCHANGED <<program, include_stack, ifdef_stack, skip, cached, out,
                   status>>

PragmaOnce ==
  \E l \in Next1 :
    /\ l.d = "once"
    /\ Reads(l) /\ skip = NotSkipping
    /\ cached' = [cached EXCEPT ![file.filename].once = TRUE]
    /\ file' = NextLine
    /\ tok_flags' = {}
    /\ UNCHANGED <<program, include_stack, ifdef_stack, skip, define_stack,
                   sym_define, out, status>>

\* #line: tcc_debug_putfile renames the buffer, not the file.
Line ==
  \E l \in Next1 :
    /\ l.d = "line"
    /\ Reads(l) /\ skip = NotSkipping
    /\ file' = [NextLine EXCEPT !.filename = l.f]
    /\ tok_flags' = {}
    /\ UNCHANGED <<program, include_stack, ifdef_stack, skip, define_stack,
                   sym_define, cached, out, status>>

\* parse_include's test of the cache.
Skipped(f) == IsDefined(cached[f].ifndef_macro) \/ cached[f].once

parse_include ==
  \E l \in Next1 :
    /\ l.d = "include"
    /\ Reads(l) /\ skip = NotSkipping
    /\ IF Skipped(l.f)
       THEN /\ file' = NextLine
            /\ tok_flags' = {}
            /\ UNCHANGED <<include_stack, status>>
       ELSE IF Len(include_stack) >= INCLUDE_STACK_SIZE
       THEN /\ status' = "#include recursion too deep"
            /\ UNCHANGED <<file, include_stack, tok_flags>>
       ELSE /\ include_stack' = Append(include_stack, NextLine)
            /\ file' = tcc_open_bf(l.f)
            /\ tok_flags' = {"BOF"}
            /\ UNCHANGED status
    /\ UNCHANGED <<program, ifdef_stack, skip, define_stack, sym_define,
                   cached, out>>

\* expr_preprocess, as far as conditions go: __has_include opens the file,
\* and so sets tok_flags, and closes it.
expr_preprocess(l) == IF l.c = "has" THEN 1 ELSE 0
FlagsAfter(l) == IF l.c = "has" /\ ~Skipped(l.f) THEN {"BOF"} ELSE {}

SkipUnless(c) == skip' = IF Odd(c) THEN NotSkipping ELSE 0

PushIf(c) ==
  IF Len(ifdef_stack) >= IFDEF_STACK_SIZE
  THEN status' = "memory full (ifdef)" /\ UNCHANGED <<ifdef_stack, skip>>
  ELSE /\ ifdef_stack' = Append(ifdef_stack, c)
       /\ SkipUnless(c)
       /\ UNCHANGED status

Ifdef ==
  \E l \in Next1 :
    /\ l.d \in {"ifdef", "ifndef"}
    /\ Reads(l) /\ skip = NotSkipping
    /\ file' = IF "BOF" \in tok_flags /\ l.d = "ifndef"
               THEN [NextLine EXCEPT !.ifndef_macro = l.m] ELSE NextLine
    /\ PushIf(IF IsDefined(l.m) = (l.d = "ifdef") THEN 1 ELSE 0)
    /\ tok_flags' = {}
    /\ UNCHANGED <<program, include_stack, define_stack, sym_define, cached,
                   out>>

If ==
  \E l \in Next1 :
    /\ l.d = "if"
    /\ Reads(l) /\ skip = NotSkipping
    /\ PushIf(expr_preprocess(l))
    /\ file' = NextLine
    /\ tok_flags' = FlagsAfter(l)
    /\ UNCHANGED <<program, include_stack, define_stack, sym_define, cached,
                   out>>

\* #else, #elif and #endif are carried out when they are read, and when they
\* end what preprocess_skip skips.
AtSameLevel == skip \in {NotSkipping, 0}
LastIf == ifdef_stack[Len(ifdef_stack)]
SetLastIf(c) == ifdef_stack' = [ifdef_stack EXCEPT ![Len(ifdef_stack)] = c]

\* test_else: a guard with an #else is none.
\* Mutant: a guard may have an #else.
KeepGuard == file' = NextLine

ForgetGuard ==
  file' = IF Len(ifdef_stack) = file.ifdef_stack_ptr + 1
          THEN [NextLine EXCEPT !.ifndef_macro = None] ELSE NextLine

Else ==
  \E l \in Next1 :
    /\ l.d = "else"
    /\ Reads(l) /\ AtSameLevel
    /\ IF ifdef_stack = <<>> THEN tcc_error("#else without matching #if")
       ELSE IF LastIf \in {2, 3} THEN tcc_error("#else after #else")
       ELSE /\ SetLastIf(Flip(LastIf))
            /\ SkipUnless(Flip(LastIf))
            /\ ForgetGuard
            /\ tok_flags' = {}
            /\ UNCHANGED <<program, include_stack, define_stack, sym_define,
                           cached, out, status>>

Elif ==
  \E l \in Next1 :
    /\ l.d = "elif"
    /\ Reads(l) /\ AtSameLevel
    /\ IF ifdef_stack = <<>> THEN tcc_error("#elif without matching #if")
       ELSE IF LastIf > 1 THEN tcc_error("#elif after #else")
       ELSE /\ IF LastIf = 1
               THEN skip' = 0 /\ tok_flags' = {} /\ UNCHANGED ifdef_stack
               ELSE /\ SetLastIf(expr_preprocess(l))
                    /\ SkipUnless(expr_preprocess(l))
                    /\ tok_flags' = FlagsAfter(l)
            /\ ForgetGuard
            /\ UNCHANGED <<program, include_stack, define_stack, sym_define,
                           cached, out, status>>

\* Whether an #endif, just popped, closed the #ifndef its file began with.
ClosesGuard ==
  /\ file.ifndef_macro # None
  /\ Len(ifdef_stack) - 1 = file.ifdef_stack_ptr

Endif ==
  /\ [d |-> "endif"] \in Next1
  /\ Reads([d |-> "endif"]) /\ AtSameLevel
  /\ IF Len(ifdef_stack) <= file.ifdef_stack_ptr
     THEN tcc_error("#endif without matching #if")
     ELSE /\ ifdef_stack' = SubSeq(ifdef_stack, 1, Len(ifdef_stack) - 1)
          /\ skip' = NotSkipping
          /\ file' = IF ClosesGuard
                     THEN [NextLine EXCEPT
                             !.ifndef_macro_saved = file.ifndef_macro,
                             !.ifndef_macro = None]
                     ELSE NextLine
          /\ tok_flags' = IF ClosesGuard THEN {"ENDIF"} ELSE {}
          /\ UNCHANGED <<program, include_stack, define_stack, sym_define,
                         cached, out, status>>

\* preprocess_skip: every other line is passed over, whatever it says.
preprocess_skip ==
  \E l \in Next1 :
    /\ Reads(l) /\ skip # NotSkipping
    /\ skip = 0 => l.d \notin {"else", "elif", "endif"}
    /\ IF l = EOF THEN tcc_error("#endif expected")
       ELSE /\ skip' = CASE l.d \in {"if", "ifdef", "ifndef"} -> skip + 1
                         [] l.d = "endif" -> skip - 1
                         [] OTHER -> skip
            /\ file' = NextLine
            /\ UNCHANGED <<program, include_stack, ifdef_stack, tok_flags,
                           define_stack, sym_define, cached, out, status>>

Next ==
  \/ Text \/ EndOfFile \/ DefineUndefPragma \/ PragmaOnce \/ Line
  \/ parse_include \/ Ifdef \/ If \/ Else \/ Elif \/ Endif \/ preprocess_skip

Spec == Init /\ [][Next]_vars


(***************************************************************************)
(* Properties.                                                             *)
(***************************************************************************)
Standard == INSTANCE Directives WITH TooDeep <- INCLUDE_STACK_SIZE + 1

Limits == {"#include recursion too deep", "memory full (ifdef)"}

\* The source file in the state the command line leaves.
Translation ==
  Standard!Translate(text, Main, 1, <<>>, 0,
    Standard!Translate(text, CommandLine, 1, <<>>, 0, Standard!Nothing(0)))

Gives(r) ==
  \/ r.ub
  \/ /\ out = r.out
     /\ r.err = (status # "done")
     /\ status = "done" => Values = r.defs

\* A translation unit means what it means without the cache: the same tokens,
\* the text under the same macros and expanded to the same, the same macros in
\* the end, and an error where the standard has one - an #else that reaches
\* into the #if of the including file, too, which preprocess lets pass and only
\* preprocess_skip ends.
MeansSource ==
  status \notin Limits \cup {"run"} => Gives(Translation)

\* Where the cache takes a macro for the guard of a file, the file does
\* nothing while that macro is defined (the comment in parse_include: "no
\* need to parse the include because the 'ifndef macro' is defined").
GuardsGuard ==
  \A f \in Files :
    LET m == cached[f].ifndef_macro
        s == [Standard!Nothing(0) EXCEPT !.defs[m] = 1]
    IN  m # None => Standard!Translate(text, f, 1, <<>>, 0, s) = s

=============================================================================
