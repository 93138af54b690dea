----------------------------- MODULE MacroSubst -----------------------------
(***************************************************************************)
(* Macro expansion in tccpp.c.  A name that is being expanded is found in  *)
(* nested_list and marked with NOSUBST where it occurs again; the          *)
(* arguments of a call may begin in one expansion and end outside of it,   *)
(* since next_argstream leaves the streams that are at their end.          *)
(*                                                                         *)
(* The state S of an expansion: the definitions defs, by name; the streams *)
(* being read, from the line of the file (first) to the innermost, each    *)
(* with the tokens it has left; nested_list, the innermost last, None for  *)
(* a name whose scope is over; the result out; and an error, or None.      *)
(*                                                                         *)
(* A token is its spelling; spaces are left out.  The text that is read    *)
(* has no "##", and replacement lists join words, never strings.           *)
(***************************************************************************)
EXTENDS Integers, Sequences

CONSTANTS
  Macros,      \* the names that may be macros
  Replacement  \* the replacement lists: [func, params, varg, body]

None == "none"
NOSUBST == "<nosubst>"   \* TOK_NOSUBST: the next token is not expanded
PLCHLDR == "<>"          \* TOK_PLCHLDR: nothing, where an argument was
ARGEND == "<-1>"         \* what stands at the end of an argument

Punctuators == {"(", ")", ",", "#", "##"}
Front1(s) == SubSeq(s, 1, Len(s) - 1)
Has(s, t) == \E i \in DOMAIN s : s[i] = t

define_find(S, t) == IF t \in Macros THEN S.defs[t] ELSE 0

(***************************************************************************)
(* The streams.                                                            *)
(***************************************************************************)
Top(S) == S.in[Len(S.in)]
Read(S) == [S EXCEPT !.in[Len(S.in)] = Tail(@)]
Put(S, t) == [S EXCEPT !.out = Append(@, t)]

\* The scope of the innermost name that still has one ends with its stream.
EndScope(nested) ==
  LET open == {i \in DOMAIN nested : nested[i] # None}
  IN  IF open = {} THEN nested
      ELSE [nested EXCEPT ![CHOOSE i \in open : \A j \in open : j <= i] = None]

LeaveStream(S) == [S EXCEPT !.in = Front1(@), !.nested = EndScope(@)]

RECURSIVE SkipPlaceholders(_)
SkipPlaceholders(str) ==
  IF str # <<>> /\ Head(str) = PLCHLDR THEN SkipPlaceholders(Tail(str)) ELSE str

\* next_argstream: S where there is a token to read, placeholders aside when
\* it only looks for one.  At the end of the line it stays there.
RECURSIVE next_argstream(_, _)
next_argstream(S, peek) ==
  LET rest == IF peek THEN SkipPlaceholders(Top(S)) ELSE Top(S)
  IN  IF rest = <<>> /\ Len(S.in) > 1 THEN next_argstream(LeaveStream(S), peek)
      ELSE S

Peeked(S) ==
  LET rest == SkipPlaceholders(Top(S)) IN IF rest = <<>> THEN None ELSE Head(rest)

\* "(", behind placeholders, is read.
EatParen(S) == [S EXCEPT !.in[Len(S.in)] = Tail(SkipPlaceholders(@))]

\* The next token: [S, tok].  The text ends as an argument does: a call that
\* is still open there is an error.
NextArg(S) ==
  LET R == next_argstream(S, FALSE)
  IN  IF Top(R) = <<>> THEN [S |-> R, tok |-> ARGEND]
      ELSE [S |-> Read(R), tok |-> Head(Top(R))]

RECURSIVE FirstOfArg(_)
FirstOfArg(n) == IF n.tok = PLCHLDR THEN FirstOfArg(NextArg(n.S)) ELSE n

(***************************************************************************)
(* The arguments of a call.                                                *)
(***************************************************************************)
\* The tokens of one argument from n.tok on: [S, tok, str, parlevel].
RECURSIVE Collect(_, _, _, _)
Collect(n, varg, parlevel, str) ==
  IF n.tok = ARGEND \/ (parlevel = 0 /\ (n.tok = ")" \/ (n.tok = "," /\ ~varg)))
  THEN [S |-> n.S, tok |-> n.tok, str |-> str, parlevel |-> parlevel]
  ELSE Collect(NextArg(n.S), varg,
               parlevel + (CASE n.tok = "(" -> 1 [] n.tok = ")" -> -1 [] OTHER -> 0),
               Append(str, n.tok))

Failed(S, what) == [S |-> [S EXCEPT !.err = what], args |-> <<>>]

\* The arguments from n on, for the parameters from number Len(args) + 1 on.
RECURSIVE Arguments(_, _, _)
ArgumentsAfter(c, mac, args) ==
  IF c.tok = ARGEND THEN Failed(c.S, "call not terminated")
  ELSE IF c.tok = "," THEN Arguments(c.S, mac, args)
  ELSE IF Len(args) = Len(mac.params) THEN [S |-> c.S, args |-> args]
  ELSE IF mac.varg /\ Len(args) + 1 = Len(mac.params)
  THEN [S |-> c.S, args |-> Append(args, <<>>)]
  ELSE Failed(c.S, "too few args")

Collected(c, mac, args) == ArgumentsAfter(c, mac, Append(args, c.str))

ArgumentFrom(n, mac, args) ==
  LET k == Len(args) + 1
  IN  IF args = <<>> /\ mac.params = <<>> /\ n.tok = ")"
      THEN [S |-> n.S, args |-> <<>>]
      ELSE IF k > Len(mac.params) THEN Failed(n.S, "too many args")
      ELSE Collected(Collect(n, mac.varg /\ k = Len(mac.params), 0, <<>>), mac, args)

Arguments(S, mac, args) == ArgumentFrom(FirstOfArg(NextArg(S)), mac, args)

(***************************************************************************)
(* '##' and '#'.                                                           *)
(***************************************************************************)
Text(t) == IF t \in {PLCHLDR, NOSUBST} THEN "" ELSE t

RECURSIVE Spell(_)
Spell(str) == IF str = <<>> THEN "" ELSE Text(Head(str)) \o Spell(Tail(str))
Stringized(str) == "\"" \o Spell(str) \o "\""

\* Two words, or a token and a placeholder, give one token.
Pastes(t, t1) == PLCHLDR \in {t, t1} \/ {t, t1} \cap Punctuators = {}
paste_tokens(t, t1) ==
  IF t = PLCHLDR /\ t1 = PLCHLDR THEN PLCHLDR ELSE Text(t) \o Text(t1)

RECURSIVE SkipMarks(_)
SkipMarks(str) ==
  IF str # <<>> /\ Head(str) = NOSUBST THEN SkipMarks(Tail(str)) ELSE str

\* out without the marks at its end.
RECURSIVE DropMarks(_)
DropMarks(out) ==
  IF out # <<>> /\ out[Len(out)] = NOSUBST THEN DropMarks(Front1(out)) ELSE out

\* macro_twosharps from ptr on, with t read: all that is joined to t, then the
\* rest.
RECURSIVE Twosharps(_, _, _)
Twosharps(ptr, t, out) ==
  IF ptr # <<>> /\ Head(ptr) = "##"
  THEN LET after == SkipMarks(Tail(ptr))
           t1    == IF after = <<>> THEN None ELSE Head(after)
           kept  == DropMarks(out)
       IN  IF t1 \in {None, "##"} THEN Twosharps(after, t, kept)
           ELSE IF Pastes(t, t1) THEN Twosharps(Tail(after), paste_tokens(t, t1), kept)
           ELSE Twosharps(Tail(after), t1, Append(kept, t))
  ELSE LET all == Append(out, t)
       IN  IF ptr = <<>> THEN all ELSE Twosharps(Tail(ptr), Head(ptr), all)

macro_twosharps(str) ==
  IF ~Has(str, "##") THEN str ELSE Twosharps(Tail(str), Head(str), <<>>)

(***************************************************************************)
(* Substitution.                                                           *)
(***************************************************************************)
RECURSIVE macro_subst(_, _, _)

Param(mac, t) ==
  IF Has(mac.params, t) THEN CHOOSE i \in DOMAIN mac.params : mac.params[i] = t ELSE 0

\* An argument expanded by itself, up to its ARGEND.
Expanded(S, arg) == macro_subst([S EXCEPT !.out = <<>>], Append(arg, ARGEND), FALSE)

\* What an argument has left after l0 tokens, or a placeholder.
Filled(str, l0) == IF Len(str) = l0 THEN Append(str, PLCHLDR) ELSE str

\* macro_arg_subst: the body from token i on with its parameters replaced by
\* args, behind str: [str, err].
RECURSIVE macro_arg_subst(_, _, _, _, _)

\* With parameter i expanded, to full.out, behind before.
ArgExpanded(S, mac, args, i, before, l0, full) ==
  IF full.err # None THEN [str |-> <<>>, err |-> full.err]
  ELSE macro_arg_subst(S, mac, args, i + 1, Filled(before \o full.out, l0))

macro_arg_subst(S, mac, args, i, str) ==
  LET body == mac.body
      t  == body[i]
      p  == Param(mac, t)
      q  == Param(mac, body[i + 1])
      Prev(k) == IF i > k THEN body[i - k] ELSE None
      joined == Prev(1) = "##" \/ (i < Len(body) /\ body[i + 1] = "##")
      eats   == Prev(1) = "##" /\ Prev(2) = "," /\ mac.varg /\ p = Len(mac.params)
      Go(k, new) == macro_arg_subst(S, mac, args, k, new)
  IN  IF i > Len(body) THEN [str |-> str, err |-> None]
      ELSE IF t = "#"
      THEN IF i = Len(body) \/ q = 0
           THEN [str |-> <<>>, err |-> "macro parameter after '#' expected"]
           ELSE Go(i + 2, Append(str, Stringized(args[q])))
      ELSE IF p = 0 THEN Go(i + 1, Append(str, t))
      ELSE IF eats /\ args[p] = <<>> THEN Go(i + 1, SubSeq(str, 1, Len(str) - 2))
      ELSE IF joined /\ ~eats THEN Go(i + 1, Filled(str \o args[p], Len(str)))
      ELSE ArgExpanded(S, mac, args, i, IF eats THEN Front1(str) ELSE str,
                       Len(str), Expanded(S, args[p]))

Unnested(S) == IF S.err # None THEN S ELSE [S EXCEPT !.nested = Front1(@)]
SubstBody(S, m, str) ==
  Unnested(macro_subst([S EXCEPT !.nested = Append(@, m)], macro_twosharps(str), FALSE))

SubstReplaced(S, m, sub) ==
  IF sub.err # None THEN [S EXCEPT !.err = sub.err] ELSE SubstBody(S, m, sub.str)

SubstArgs(a, m, mac) ==
  IF a.S.err # None THEN a.S
  ELSE SubstReplaced(a.S, m, macro_arg_subst(a.S, mac, a.args, 1, <<>>))

SubstCall(S, m, mac) ==
  IF Peeked(S) # "(" THEN Put(S, m)
  ELSE SubstArgs(Arguments(EatParen(S), mac, <<>>), m, mac)

macro_subst_tok(S, m) ==
  LET mac == Replacement[define_find(S, m)]
  IN  IF mac.func THEN SubstCall(next_argstream(S, TRUE), m, mac)
      ELSE SubstBody(S, m, mac.body)

\* What is left of the innermost of depth streams once its first token is
\* expanded, to S.  S may have left it, in search of arguments.
Resumed(S, depth) ==
  IF S.err # None \/ Len(S.in) < depth THEN S
  ELSE macro_subst([S EXCEPT !.in = Front1(@)], Top(S), FALSE)

macro_subst(S, str, nosubst) ==
  IF str = <<>> \/ Head(str) = ARGEND THEN S
  ELSE LET t == Head(str)
       IN  IF nosubst \/ define_find(S, t) = 0
           THEN macro_subst(Put(S, t), Tail(str), t = NOSUBST)
           ELSE IF Has(S.nested, t)
           THEN macro_subst(Put(Put(S, NOSUBST), t), Tail(str), FALSE)
           ELSE Resumed(macro_subst_tok([S EXCEPT !.in = Append(@, Tail(str))], t),
                        Len(S.in) + 1)

(***************************************************************************)
(* next: what the parser gets of a text, and the error that ends it.       *)
(***************************************************************************)
IsMark(t) == t \in {NOSUBST, PLCHLDR}

RECURSIVE next(_)
NextFrom(S, t) ==
  IF define_find(S, t) = 0 THEN next(Put(S, t)) ELSE next(macro_subst_tok(S, t))
next(S) ==
  IF S.err # None \/ Top(S) = <<>> THEN S ELSE NextFrom(Read(S), Head(Top(S)))

Delivered(S) ==
  [toks |-> SelectSeq(S.out, LAMBDA t : ~IsMark(t)), err |-> S.err]
Line(defs, toks) ==
  Delivered(next([defs |-> defs, in |-> <<toks>>, nested |-> <<>>, out |-> <<>>,
                  err |-> None]))

=============================================================================
