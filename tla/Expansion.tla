------------------------------ MODULE Expansion ------------------------------
(***************************************************************************)
(* Macro expansion as the C standard has it (C11 6.10.3), after the        *)
(* algorithm by which its committee explained it: each token carries the   *)
(* set of names that may no longer be expanded in it.  And what GCC        *)
(* documents of a comma before "## __VA_ARGS__".  MacroSubst, the code of  *)
(* tccpp.c, is compared with it.                                           *)
(***************************************************************************)
EXTENDS Integers, Sequences, FiniteSets

CONSTANTS Macros, Replacement

Token(t, hide) == [t |-> t, hide |-> hide]
Placemarker == Token("", {})
Plain(str) == [i \in DOMAIN str |-> Token(str[i], {})]
Hide(str, names) == [i \in DOMAIN str |-> [str[i] EXCEPT !.hide = @ \cup names]]

\* A result: tokens, or a violated constraint (err), or behaviour that the
\* standard does not define (undefined).
Result(toks) == [toks |-> toks, err |-> FALSE, undefined |-> FALSE]
Wrong == [Result(<<>>) EXCEPT !.err = TRUE]
Undefined == [Result(<<>>) EXCEPT !.undefined = TRUE]
IsBad(r) == r.err \/ r.undefined

IsPunctuator(t) == t \in {"(", ")", ",", "#", "##"}

(***************************************************************************)
(* The arguments of a call: str begins behind the name, with "(".          *)
(***************************************************************************)
Count(str, i, t) == Cardinality({j \in 1..i : str[j].t = t})
Depth(str, i) == Count(str, i, "(") - Count(str, i, ")")

Closings(str) == {i \in DOMAIN str : Depth(str, i) = 0}
Closing(str) == CHOOSE i \in Closings(str) : \A j \in Closings(str) : i <= j

\* The commas that separate the arguments; those from the last parameter of a
\* variadic macro on do not.
Commas(str, mac) ==
  LET all == {i \in 1..Closing(str) : str[i].t = "," /\ Depth(str, i) = 1}
  IN  IF ~mac.varg THEN all
      ELSE {i \in all : Cardinality({j \in all : j <= i}) < Len(mac.params)}

NthLeast(S, n) == CHOOSE i \in S : Cardinality({j \in S : j <= i}) = n

Actuals(str, mac) ==
  LET cuts == {1, Closing(str)} \cup Commas(str, mac)
      cut(n) == NthLeast(cuts, n)
  IN  [n \in 1..(Cardinality(cuts) - 1) |-> SubSeq(str, cut(n) + 1, cut(n + 1) - 1)]

\* The arguments for the parameters: "()" may be no argument, and GCC lets
\* the variable ones be left out with their comma.
Matched(args, mac) ==
  IF mac.params = <<>> /\ args = <<<<>>>> THEN <<>>
  ELSE IF mac.varg /\ Len(args) = Len(mac.params) - 1 THEN Append(args, <<>>)
  ELSE args

(***************************************************************************)
(* Replacement.                                                            *)
(***************************************************************************)
OrPlacemarker(str) == IF str = <<>> THEN <<Placemarker>> ELSE str

RECURSIVE Spelling(_)
Spelling(str) == IF str = <<>> THEN "" ELSE Head(str).t \o Spelling(Tail(str))

Param(mac, t) == {n \in DOMAIN mac.params : mac.params[n] = t}
ParamAt(mac, i) == CHOOSE n \in Param(mac, mac.body[i]) : TRUE
IsParam(mac, i) == i \in DOMAIN mac.body /\ Param(mac, mac.body[i]) # {}
At(mac, i, t) == i \in DOMAIN mac.body /\ mac.body[i] = t

\* ", ## __VA_ARGS__", at the last of the three.
TakesComma(mac, i) ==
  /\ mac.varg /\ IsParam(mac, i) /\ ParamAt(mac, i) = Len(mac.params)
  /\ At(mac, i - 1, "##") /\ At(mac, i - 2, ",")

Joined(mac, i) == At(mac, i - 1, "##") \/ At(mac, i + 1, "##")

Stringized(mac, i) == mac.func /\ At(mac, i - 1, "#")
\* An argument that is neither spelled nor joined is expanded first.
Expanded(mac, n) ==
  \E i \in DOMAIN mac.body :
    /\ IsParam(mac, i) /\ ParamAt(mac, i) = n
    /\ ~Stringized(mac, i) /\ (~Joined(mac, i) \/ TakesComma(mac, i))

\* What stands in the replacement for the i-th token of the body.
Piece(mac, args, full, i) ==
  IF ~IsParam(mac, i) THEN <<Token(mac.body[i], {})>>
  ELSE IF Stringized(mac, i)
  THEN <<Token("\"" \o Spelling(args[ParamAt(mac, i)]) \o "\"", {})>>
  ELSE IF Joined(mac, i) /\ ~TakesComma(mac, i) THEN OrPlacemarker(args[ParamAt(mac, i)])
  ELSE OrPlacemarker(full[ParamAt(mac, i)])

Pasted(a, b) == Token(a.t \o b.t, a.hide \cap b.hide)
BadPaste(a, b) == a.t # "" /\ b.t # "" /\ (IsPunctuator(a.t) \/ IsPunctuator(b.t))

\* left ## right
Glue(left, right) ==
  LET a == left[Len(left)]
      b == Head(right)
  IN  IF BadPaste(a, b) THEN Undefined
      ELSE Result(SubSeq(left, 1, Len(left) - 1)
                    \o <<IF a.t = "" THEN b ELSE IF b.t = "" THEN a ELSE Pasted(a, b)>>
                    \o Tail(right))

\* The replacement from the i-th token of the body on, behind done.
RECURSIVE Replaced(_, _, _, _, _)
Replaced(mac, args, full, i, done) ==
  IF i > Len(mac.body) THEN Result(SelectSeq(done, LAMBDA x : x.t # ""))
  ELSE IF At(mac, i, "##") \/ (mac.func /\ At(mac, i, "#"))
  THEN Replaced(mac, args, full, i + 1, done)
  ELSE
    LET piece == Piece(mac, args, full, i)
        glued == Glue(done, piece)
    IN  IF TakesComma(mac, i)
        THEN Replaced(mac, args, full, i + 1,
                      IF args[ParamAt(mac, i)] = <<>>
                      THEN Append(SubSeq(done, 1, Len(done) - 1), Placemarker)
                      ELSE done \o piece)
        ELSE IF ~At(mac, i - 1, "##")
        THEN Replaced(mac, args, full, i + 1, done \o piece)
        ELSE IF IsBad(glued) THEN glued
        ELSE Replaced(mac, args, full, i + 1, glued.toks)

(***************************************************************************)
(* Expansion.  defs gives each name its number in Replacement, or 0.       *)
(***************************************************************************)
RECURSIVE Expand(_, _)

Then(done, defs, str) ==
  LET r == Expand(defs, str) IN [r EXCEPT !.toks = done \o @]

Rescanned(defs, body, hide, rest) ==
  IF IsBad(body) THEN body ELSE Expand(defs, Hide(body.toks, hide) \o rest)

\* The use of a macro with the arguments args, expanded to full, before the
\* tokens rest.
Substituted(defs, mac, args, full, hide, rest) ==
  LET bad == {n \in DOMAIN args : Expanded(mac, n) /\ IsBad(full[n])}
  IN  IF bad # {} THEN full[CHOOSE n \in bad : TRUE]
      ELSE Rescanned(defs,
             Replaced(mac, args, [n \in DOMAIN args |-> full[n].toks], 1, <<>>),
             hide, rest)

Use(defs, name, mac, args, hide, rest) ==
  Substituted(defs, mac, args, [n \in DOMAIN args |-> Expand(defs, args[n])],
              hide \cup {name}, rest)

Call(defs, x, mac, str) ==
  LET end  == Closing(str)
      args == Matched(Actuals(str, mac), mac)
  IN  IF Closings(str) = {} \/ Len(args) # Len(mac.params) THEN Wrong
      ELSE Use(defs, x.t, mac, args, x.hide \cap str[end].hide,
               SubSeq(str, end + 1, Len(str)))

Expand(defs, str) ==
  IF str = <<>> THEN Result(<<>>)
  ELSE
    LET x    == Head(str)
        rest == Tail(str)
        mac  == Replacement[defs[x.t]]
    IN  IF x.t \notin Macros \/ x.t \in x.hide THEN Then(<<x>>, defs, rest)
        ELSE IF defs[x.t] = 0 THEN Then(<<x>>, defs, rest)
        ELSE IF ~mac.func THEN Use(defs, x.t, mac, <<>>, x.hide, rest)
        ELSE IF rest = <<>> THEN Result(str)
        ELSE IF Head(rest).t # "(" THEN Then(<<x>>, defs, rest)
        ELSE Call(defs, x, mac, rest)

Line(defs, toks) ==
  LET r == Expand(defs, Plain(toks))
  IN  [r EXCEPT !.toks = [i \in DOMAIN @ |-> @[i].t]]

==============================================================================
