------------------------------- MODULE Jumps --------------------------------
(***************************************************************************)
(* The control flow of a function: tccgen.c parses its statements in one   *)
(* pass and jumps forward by chains, lists of unfinished jumps that run    *)
(* through the code itself; behind a jump it suppresses code (CODE_OFF)    *)
(* until something may arrive there.  __attribute__((cleanup)) calls are   *)
(* made on every way out of a scope.                                       *)
(*                                                                         *)
(* An action parses one statement, up to its substatement, or the end of   *)
(* one.  Beside the code, the module builds the flow graph that C gives    *)
(* the program, with none of tcc's means: no chains, no patching, nothing  *)
(* suppressed.  In phase "run" the processor runs the code and the graph   *)
(* together.                                                               *)
(***************************************************************************)
EXTENDS Integers, Sequences, SequencesExt, FiniteSets, TLC

CONSTANTS Programs,    \* names of kinds of programs, for each of which there are
          Statements,  \* per statement, first to last, what it may be
          Exprs,       \* likewise the expressions of it: trees of [k, id, args]
          Labels,      \* the labels of a function
          Allowed      \* the constructs, of Troubles, that programs may have

\* What tcc gets wrong.  "last": a return is the last token of the function, in a loop or a
\* switch, or in an if with variables to clean up.  "mixed": gotos with and without variables to
\* clean up wait for one label.  "late": a variable to clean up is declared behind a goto out of
\* its scope.
Troubles == {"last", "mixed", "late"}

Kinds == {"expr", "use", "if", "while", "for", "do", "block", "return", "break", "continue",
          "switch", "case", "goto", "label", "declare"}

ASSUME ProgramAssumption ==
    \A p \in Programs : Len(Exprs[p]) = Len(Statements[p]) /\ UNION ToSet(Statements[p]) \subseteq Kinds
ASSUME AllowedAssumption == Allowed \subseteq Troubles

VARIABLES gen,       \* the code generator: code, CODE_OFF, suppressed operands, vtop
          frames,    \* the open calls of block() with their locals
          scopes,    \* struct scope, cur_scope last: bsym, csym, cl
          loop_scope,
          rsym,      \* the chain of the returns
          labels,    \* per label: r, jnext, cleanupstate, next
          pending_gotos,  \* label, number of cleanups, place in the label's next
          expects,   \* what comes next: "list" in a block, "stmt", or "end" of one
          closing,   \* whether the next token is a closing brace: "yes", "no" or "any"
          stmts,     \* statements so far
          ref,       \* the flow graph of the program
          phase,     \* "parse", "run"
          pc, val,   \* the processor: the next event, the registers
          at,        \* the program: its next event
          live,      \* history: the variables to be cleaned up
          program    \* of Programs

parser == <<frames, scopes, loop_scope, rsym, labels, pending_gotos, expects, closing, stmts>>
cpu == <<pc, val, at, live>>
\* Bound: the statements of a program.
MaxStmts == Len(Statements[program])

vars == <<gen, parser, ref, phase, cpu, program>>

Nil == <<0, 0>>

-----------------------------------------------------------------------------
(* The generator G: code, off (CODE_OFF), n (operands that are not wanted), vt (vtop), t (the
   chain that the last call returned), s (the statement, of which an id <<s, i>> is part).
   An instruction: its event or operation k, on id. *)

Insn(k, id) == [k |-> k, id |-> id, src |-> Nil, b |-> 0, to |-> 0, link |-> 0]

Quiet(G) == G.off \/ G.n > 0
ind(G) == Len(G.code) + 1
o(G, insn) == IF Quiet(G) THEN G ELSE [G EXCEPT !.code = Append(@, insn)]

\* The jumps of chain t, from its head to its last one.
RECURSIVE Walk(_, _)
Walk(code, t) == IF t = 0 THEN <<>> ELSE <<t>> \o Walk(code, code[t].link)
Chain(code, t) == ToSet(Walk(code, t))
LastOf(code, t) == Last(Walk(code, t))

PatchAll(G, chain, a) ==
    [G EXCEPT !.code = [i \in DOMAIN G.code |->
        IF i \in chain THEN [G.code[i] EXCEPT !.to = a, !.link = 0] ELSE G.code[i]]]
gsym_addr(G, t, a) == IF t = 0 THEN G ELSE PatchAll(G, Chain(G.code, t), a)

\* A mutant: what arrives here does not end the suppression.
GsymNoCodeOn(G, t) == gsym_addr(G, t, ind(G))

gsym(G, t) == IF t = 0 THEN G ELSE [gsym_addr(G, t, ind(G)) EXCEPT !.off = FALSE]
gind(G) == [G EXCEPT !.off = FALSE]

\* An unfinished jump at the head of chain t, and the new chain.
Forward(G, t, insn) ==
    [o(G, [insn EXCEPT !.link = t]) EXCEPT !.t = IF Quiet(G) THEN t ELSE ind(G)]
gjmp(G, t) == [Forward(G, t, Insn("jmp", Nil)) EXCEPT !.off = TRUE]
gjmp_cond(G, b, t) == Forward(G, t, [Insn("br", G.vt.id) EXCEPT !.b = b])
gjmp_addr(G, a) == [o(G, [Insn("jmp", Nil) EXCEPT !.to = a]) EXCEPT !.off = TRUE]

\* A mutant: chain t comes behind the first jump of n.
GjmpAppendNoWalk(G, n, t) == [G EXCEPT !.code[n].link = t, !.t = n]

\* Chain n with chain t behind it.
gjmp_append(G, n, t) ==
    IF n = 0 THEN [G EXCEPT !.t = t]
    ELSE [G EXCEPT !.code[LastOf(G.code, n)].link = t, !.t = n]

-----------------------------------------------------------------------------
(* vtop: a constant b, the register id, or VT_CMP: the flags of id, or a constant (id = Nil),
   true if they are b, with the chains jtrue and jfalse. *)

Const(b) == [k |-> "const", id |-> Nil, b |-> b, jtrue |-> 0, jfalse |-> 0]
Reg(id) == [Const(0) EXCEPT !.k = "reg", !.id = id]
Cmp(id, b) == [Const(b) EXCEPT !.k = "cmp", !.id = id]

Vset(G, v) == [G EXCEPT !.vt = v]
Not(v) == IF v.k = "reg" THEN Cmp(v.id, 0)
          ELSE [v EXCEPT !.b = 1 - @, !.jtrue = v.jfalse, !.jfalse = v.jtrue]

AsCmp(v) == IF v.k = "cmp" THEN v ELSE IF v.k = "const" THEN Cmp(Nil, v.b) ELSE Cmp(v.id, 1)

\* Chain G.t, made by gjmp_append, is the one that is taken if the value is not inv.
SetChain(G, inv) == IF inv = 1 THEN [G EXCEPT !.vt.jfalse = G.t] ELSE [G EXCEPT !.vt.jtrue = G.t]
ChainIf(v, b) == IF b = 1 THEN v.jtrue ELSE v.jfalse

AppendTo(H, inv, t) == SetChain(gjmp_append(H, ChainIf(H.vt, 1 - inv), t), inv)
gvtst_set(G, inv, t) == AppendTo(Vset(G, AsCmp(G.vt)), inv, t)

\* A jump if the value of vtop is not inv, in chain t; what jumps for the opposite lands here.
TestJump(H, inv, t) ==
    IF H.vt.id # Nil THEN gjmp_cond(H, (H.vt.b + inv) % 2, t)
    ELSE IF H.vt.b # inv THEN gjmp(H, t)
    ELSE [H EXCEPT !.t = t]
Test(H, inv) == gsym(TestJump(H, inv, ChainIf(H.vt, 1 - inv)), ChainIf(H.vt, inv))
gvtst(G, inv, t) == Test(gvtst_set(G, inv, t), inv)

vpop(G) == IF G.vt.k = "cmp" THEN gsym(gsym(G, G.vt.jtrue), G.vt.jfalse) ELSE G

SetTo(id, b) == [Insn("set", id) EXCEPT !.b = b]
Move(id, src, b) == [Insn("move", id) EXCEPT !.src = src, !.b = b]

\* gv: the value of vtop in register id; load makes a jump over the other value.
LoadElse(H, id, b) == o(gsym(o(H, [Insn("jmp", Nil) EXCEPT !.to = ind(H) + 2]), H.t), SetTo(id, b))
LoadJmp(G, id, inv) == LoadElse(o(G, SetTo(id, inv)), id, 1 - inv)
Load(G, v, id) ==
    CASE v.k = "cmp" /\ (v.jtrue # 0 \/ v.jfalse # 0) ->
            LET inv == IF v.id = Nil THEN v.b ELSE 0 IN LoadJmp(gvtst(G, inv, 0), id, inv)
      [] v.k = "cmp" /\ v.jtrue = 0 /\ v.jfalse = 0 /\ v.id # Nil -> o(G, Move(id, v.id, v.b))
      [] v.k = "reg" -> IF v.id = id THEN G ELSE o(G, Move(id, v.id, 1))
      [] OTHER -> o(G, SetTo(id, v.b))
gv(G, id) == Vset(Load(G, G.vt, id), Reg(id))

Id(G, e) == <<G.s, e.id>>

\* The code of expression e, which leaves its value in vtop.
RECURSIVE expr_infix(_, _)

condition_3way(v) == IF v.k = "const" THEN v.b ELSE -1

\* expr_landor: a chain of && (i = 1) or || (i = 0); L is the state of its loop, c what the
\* operand that G evaluates is known to be.
Tested3(L, G, c) == [L EXCEPT !.G = G, !.t = IF c < 0 THEN G.t ELSE @, !.cc = @ /\ c >= 0]
Wanted(G, L, f) == [G EXCEPT !.n = @ + f - L.f]
Operand(L, G, i, c, f, last) ==
    [Tested3(L, IF last THEN [Wanted(G, L, f) EXCEPT !.t = L.t]
                ELSE IF c < 0 THEN gvtst(G, i, L.t) ELSE vpop(Wanted(G, L, f)), c) EXCEPT !.f = f]
NextOperand(L, G, i, c, last) == Operand(L, G, i, c, IF c = 1 - i THEN 1 ELSE L.f, last)
EvalOperand(L, G, i, last) ==
    NextOperand(L, G, i, IF L.f = 1 THEN i ELSE condition_3way(G.vt), last)

LandorConst(L, i) == gsym(Vset(vpop(L.G), Const((i + L.f) % 2)), L.t)
LandorEnd(L, i) ==
    IF L.cc \/ L.f = 1 THEN [LandorConst(L, i) EXCEPT !.n = @ - L.f] ELSE gvtst_set(L.G, i, L.t)
Landor(G0, args, i) ==
    LandorEnd(FoldLeftDomain(LAMBDA L, j : EvalOperand(L, expr_infix(L.G, args[j]), i, j = Len(args)),
                             [G |-> G0, t |-> 0, cc |-> TRUE, f |-> 0], args), i)

is_cond_bool(v) == v.k \in {"const", "cmp"}

\* ?: -- behind its condition G, with nocode_wanted as it was there.
Restore(G, G0) == [G EXCEPT !.off = G0.off, !.n = G0.n]
Unwanted(G, yes) == IF yes THEN [G EXCEPT !.n = @ + 1] ELSE G

\* Both operands are conditions: sv's flags and chains get those of the second operand.
CondBools(B, sv, u) ==
    LET T1 == gvtst(B, 0, 0)
        T2 == gjmp(T1, 0)
        S == gvtst_set(Vset(gsym(T2, u), sv), 0, T1.t)
    IN  gvtst_set(S, 1, T2.t)

CondValues(B, G0, sv, u, id) ==
    LET R2 == gjmp(gv(B, id), 0)
        A == Restore(gsym(R2, u), G0)
    IN  gsym(gv(Vset(A, sv), id), R2.t)

\* The second operand is B, which follows the first, A; t is the chain of a false condition.
CondEnd(B, A, G0, c, u, id) ==
    IF c >= 0 THEN Vset(Restore(B, G0), IF c = 1 THEN A.vt ELSE B.vt)
    ELSE IF is_cond_bool(B.vt) /\ is_cond_bool(A.vt)
    THEN Restore(CondBools(B, A.vt, u), G0)
    ELSE CondValues(B, G0, A.vt, u, id)
CondElse(A, G0, c, t, e) ==
    LET J == IF c < 0 THEN gsym(gjmp(A, 0), t) ELSE A
        u == IF c < 0 THEN gjmp(A, 0).t ELSE 0
    IN  CondEnd(expr_infix(Unwanted(Restore(J, G0), c = 1), e.args[3]), A, G0, c, u, Id(G0, e))
CondThen(G0, c, t, e) == CondElse(expr_infix(Unwanted(G0, c = 0), e.args[2]), G0, c, t, e)
expr_cond(G, e) ==
    LET c == condition_3way(G.vt)
        T == IF c < 0 THEN gvtst(G, 1, 0) ELSE vpop(G)
    IN  CondThen(T, c, T.t, e)

\* A leaf: a comparison, the call of a function, of one that does not return, a constant.
Leaf(G, e) ==
    CASE e.k = "less"  -> Vset(o(G, Insn("eval", Id(G, e))), Cmp(Id(G, e), 1))
      [] e.k = "call"  -> Vset(o(G, Insn("eval", Id(G, e))), Reg(Id(G, e)))
      [] e.k = "die"   -> [Vset(o(G, Insn("die", Id(G, e))), Reg(Id(G, e))) EXCEPT !.off = TRUE]
      [] e.k = "zero"  -> Vset(G, Const(0))
      [] e.k = "one"   -> Vset(G, Const(1))

expr_infix(G, e) ==
    CASE e.k = "not"  -> LET H == expr_infix(G, e.args[1]) IN Vset(H, Not(H.vt))
      [] e.k = "land" -> Landor(G, e.args, 1)
      [] e.k = "lor"  -> Landor(G, e.args, 0)
      [] e.k = "cond" -> expr_cond(expr_infix(G, e.args[1]), e)
      [] OTHER        -> Leaf(G, e)

-----------------------------------------------------------------------------
(* The flow graph R: node, cur (where the program is), open (its variables with cleanups),
   place (per label: its node p and open), gotos (to labels further on), entered (whether one
   of its jumps enters the scope of such a variable).  A node is an event with a successor
   for each outcome, or it goes on to the next one by itself. *)

Node(k, id, to) == [k |-> k, id |-> id, v |-> 0, to |-> to]
Blank == Node("none", Nil, <<>>)

NewNode(R) == [R EXCEPT !.node = Append(@, Blank)]
Newest(R) == Len(R.node)
Put(R, p, n) == [R EXCEPT !.node[p] = n]
On(R, p, q) == Put(R, p, Node("on", Nil, <<q>>))

At(R, p) == [R EXCEPT !.cur = p]
Land(R, q) == At(On(R, R.cur, q), q)
Cut(R) == LET S == NewNode(R) IN At(S, Newest(S))
Leave(R, q) == Cut(On(R, R.cur, q))
Event(R, k, id) ==
    LET S == NewNode(R) IN At(Put(S, R.cur, Node(k, id, <<Newest(S)>>)), Newest(S))

\* The evaluation of e at node p, which goes on to yes or no.
LeafGraph(R, e, s, p, yes, no) ==
    CASE e.k \in {"less", "call"} -> Put(R, p, Node("eval", <<s, e.id>>, <<no, yes>>))
      [] e.k = "die"  -> Put(R, p, Node("die", <<s, e.id>>, <<>>))
      [] e.k = "zero" -> On(R, p, no)
      [] e.k = "one"  -> On(R, p, yes)

RECURSIVE Graph(_, _, _, _, _, _)
LandorGraph(R0, e, s, p0, yes, no) ==
    LET Step(L, j) ==
            LET S == NewNode(L.R)
                q == Newest(S)
            IN  IF j = Len(e.args) THEN [R |-> Graph(L.R, e.args[j], s, L.p, yes, no), p |-> 0]
                ELSE IF e.k = "land"
                THEN [R |-> Graph(S, e.args[j], s, L.p, q, no), p |-> q]
                ELSE [R |-> Graph(S, e.args[j], s, L.p, yes, q), p |-> q]
    IN  FoldLeftDomain(LAMBDA L, j : Step(L, j), [R |-> R0, p |-> p0], e.args).R

CondGraph(R, e, s, p, yes, no) ==
    LET S == NewNode(NewNode(R))
        a == Newest(S) - 1
        b == Newest(S)
    IN  Graph(Graph(Graph(S, e.args[1], s, p, a, b), e.args[2], s, a, yes, no),
              e.args[3], s, b, yes, no)

Graph(R, e, s, p, yes, no) ==
    CASE e.k = "not"  -> Graph(R, e.args[1], s, p, no, yes)
      [] e.k \in {"land", "lor"} -> LandorGraph(R, e, s, p, yes, no)
      [] e.k = "cond" -> CondGraph(R, e, s, p, yes, no)
      [] OTHER        -> LeafGraph(R, e, s, p, yes, no)

\* The cleanups on the way out to where the first n variables are in scope.
Cleaned(R, n) ==
    FoldLeft(LAMBDA S, v : Event(S, "cleanup", v), R, Reverse(SubSeq(R.open, n + 1, Len(R.open))))

Common(a, b) == Len(LongestCommonPrefix({a, b}))

\* A goto at node p, with the variables open, to a label that is known.
Resolved(R, g) ==
    LET l == R.place[g.label]
        S == Cleaned([R EXCEPT !.cur = g.p, !.open = g.open], Common(g.open, l.open))
    IN  [On(S, S.cur, l.p) EXCEPT !.cur = R.cur, !.open = R.open,
                                  !.entered = @ \/ ~IsPrefix(l.open, g.open)]

-----------------------------------------------------------------------------
(* Frames of block(): the C locals a, b, d of it, with what lblock and switch saved.  Of the
   flow graph: where the statement ends (exit), begins again (head) and goes on (cont), the
   cases (at), and how many variables are open around it and in it. *)

Frame(k) ==
    [k |-> k, s |-> stmts + 1, a |-> 0, b |-> 0, d |-> 0, bsym |-> 0, csym |-> 0, loop |-> 0,
     p |-> <<>>, nocode |-> FALSE, scope |-> 0, sv |-> Const(0),
     exit |-> 0, cont |-> 0, head |-> 0, at |-> <<>>,
     open |-> Len(ref.open), inner |-> Len(ref.open)]

Top == Last(frames)
cur_scope == Len(scopes)
local_scope == Len(scopes) - 1
cl == scopes[cur_scope].cl
outer == scopes[cur_scope - 1].cl
bsym == scopes[cur_scope].bsym
csym == scopes[cur_scope].csym

Innermost(kinds) == Max({i \in DOMAIN frames : frames[i].k \in kinds} \cup {0})
Loops == {"while", "for", "do"}
cur_switch == Innermost({"switch"})

\* A statement that starts with a token of its own, one that ends a longer one.
Starts(k) == /\ phase = "parse" /\ expects # "end" /\ closing # "yes" /\ stmts < MaxStmts
             /\ k \in Statements[program][stmts + 1]
             /\ stmts' = stmts + 1
Ends(kinds) == phase = "parse" /\ expects = "end" /\ Top.k \in kinds /\ UNCHANGED stmts

\* A statement is complete; the open ones are now fs.
Completed(fs) == frames' = fs /\ expects' = IF Last(fs).k = "block" THEN "list" ELSE "end"
Opened(f) == frames' = Append(frames, f) /\ expects' = "stmt"

Gen == [gen EXCEPT !.s = stmts + 1]
Emitted(G) == gen' = [G EXCEPT !.vt = Const(0), !.t = 0]

SameScopes == UNCHANGED <<scopes, loop_scope>>
SameGotos == UNCHANGED <<labels, pending_gotos>>
SameLists == SameGotos /\ UNCHANGED rsym
Token == closing' = "any"
Parsing == UNCHANGED <<phase, cpu, program>>

\* The cleanups of cl from the last to the one behind the first n.
try_call_scope_cleanup(G, n) ==
    FoldLeft(LAMBDA H, v : o(H, Insn("cleanup", v)), G, Reverse(SubSeq(cl, n + 1, Len(cl))))

\* lblock: the breaks in the statement f go to its own chain, with a loop the continues too.
lblock(f, ss, loops) ==
    LET sc == Len(ss)
        here == Len(frames) + 1
    IN  /\ Opened([f EXCEPT !.bsym = ss[sc].bsym, !.csym = ss[sc].csym, !.loop = loop_scope])
        /\ scopes' = [ss EXCEPT ![sc].bsym = here, ![sc].csym = IF loops THEN here ELSE @]
        /\ loop_scope' = IF loops THEN sc ELSE loop_scope
LeaveLblock(ss) == [ss EXCEPT ![Len(ss)].bsym = Top.bsym, ![Len(ss)].csym = Top.csym]

(* The end of a scope.  A goto that waits for its label gets a detour, through the cleanups of
   the scope that it leaves here. *)

\* A mutant: the detour makes no cleanups.
DetourDirect(L, g, J) ==
    [L EXCEPT !.G = J, !.jmp = J.t,
              !.kept = IF outer = <<>> THEN @ ELSE <<[g EXCEPT !.c = Len(outer)]>> \o @]

Detour(L, g, G, jmp) ==
    [L EXCEPT !.G = G, !.jmp = jmp, !.labels[g.label].next[g.i] = G.t,
              !.kept = IF outer = <<>> THEN @ ELSE <<[g EXCEPT !.c = Len(outer)]>> \o @]
DetourBehind(L, g, J) ==
    Detour(L, g, gjmp(try_call_scope_cleanup(gsym(J, L.labels[g.label].next[g.i]), Len(outer)), 0),
           J.t)
PendingGoto(L, g) ==
    IF L.done \/ g.c <= Len(outer) THEN [L EXCEPT !.done = TRUE, !.kept = <<g>> \o @]
    ELSE IF L.labels[g.label].r # "forward" THEN L
    ELSE DetourBehind(L, g, IF L.jmp = 0 THEN gjmp(L.G, 0) ELSE [L.G EXCEPT !.t = L.jmp])
block_cleanup(L) ==
    LET C == FoldRight(LAMBDA g, M : PendingGoto(M, g), L.kept, [L EXCEPT !.kept = <<>>])
    IN  [C EXCEPT !.G = try_call_scope_cleanup(gsym(@, C.jmp), Len(outer))]

prev_scope(G) ==
    LET L == [G |-> G, jmp |-> 0, labels |-> labels, kept |-> pending_gotos, done |-> FALSE]
    IN  IF cl = outer THEN L ELSE block_cleanup(L)
LeavesScope(L) == Emitted(L.G) /\ labels' = L.labels /\ pending_gotos' = L.kept
LeftGraph(R) == [Cleaned(R, Top.open) EXCEPT !.open = SubSeq(@, 1, Top.open)]

-----------------------------------------------------------------------------
(* Statements that begin with an expression.  G and R are behind it; in R, yes and no follow
   it, and cont is the node before it; d is the address before it. *)

ExprStmt(G, R, yes, no) ==
    LET S == NewNode(R)
        q == Newest(S)
    IN  /\ Emitted(vpop(G)) /\ ref' = At(On(On(S, yes, q), no, q), q)
        /\ Completed(frames) /\ SameScopes

\* The value of the expression is stored.
Use(G, R, yes, no) ==
    LET S == NewNode(R)
        q == Newest(S)
        id == <<G.s, 9>>
        With(v) == [Node("use", id, <<q>>) EXCEPT !.v = v]
    IN  /\ Emitted(o(gv(G, id), Insn("use", id)))
        /\ ref' = At(Put(Put(S, yes, With(1)), no, With(0)), q)
        /\ Completed(frames) /\ SameScopes

If(G, R, yes, no) ==
    /\ Emitted(G) /\ ref' = At(R, yes)
    /\ Opened([Frame("then") EXCEPT !.a = G.t, !.cont = no])
    /\ SameScopes

While(G, R, yes, no, d, cont) ==
    /\ Emitted(G) /\ ref' = At(R, yes)
    /\ lblock([Frame("while") EXCEPT !.a = G.t, !.d = d, !.exit = no, !.cont = cont], scopes, TRUE)

\* The third expression of for is a call.  Its code stands before the body.
Third(J, c) ==
    gsym(gjmp_addr(o(gind(J), Insn("eval", <<J.s, 9>>)), c), J.t)
ThirdGraph(R, cont) == LET S == NewNode(R)
                       IN  Put(S, Newest(S), Node("eval", <<stmts + 1, 9>>, <<cont, cont>>))
ForScope(decl) == [scopes[cur_scope] EXCEPT !.cl = IF decl THEN Append(@, <<stmts + 1, 8>>) ELSE @]
For(G, R, yes, no, d, cont, third, decl) ==
    LET J == gjmp(G, 0)
        S == IF third THEN ThirdGraph(R, cont) ELSE R
    IN  /\ Emitted(IF third THEN Third(J, d) ELSE G) /\ ref' = At(S, yes)
        /\ lblock([Frame("for") EXCEPT !.a = G.t, !.d = IF third THEN ind(J) ELSE d, !.exit = no,
                                       !.cont = IF third THEN Newest(S) ELSE cont,
                                       !.inner = Len(R.open)],
                  Append(scopes, ForScope(decl)), TRUE)

\* do ... while: the address of the body is d of the frame.
EndDo(G, R, yes, no) ==
    /\ Emitted(gsym(gsym_addr(G, G.t, Top.d), Top.a))
    /\ ref' = At(On(On(R, yes, Top.head), no, Top.exit), Top.exit)
    /\ Completed(Front(frames)) /\ scopes' = LeaveLblock(scopes) /\ loop_scope' = Top.loop

\* The switch: yes and no are the values 1 and 0, which lead on to the cases.
Switch(G, R, yes, no) ==
    LET J == gjmp(G, 0)
        S == Cut(NewNode(R))
    IN  /\ Emitted(J) /\ ref' = S
        /\ lblock([Frame("switch") EXCEPT !.b = J.t, !.sv = G.vt, !.nocode = gen.off,
                      !.scope = cur_scope, !.head = yes, !.cont = no, !.exit = Newest(S) - 1],
                  scopes, FALSE)

\* What comes before the expression, and what is done with its value.
Start(k, decl) ==
    CASE k = "for" /\ decl -> gind(o(Gen, Insn("declare", <<stmts + 1, 8>>)))
      [] k = "enddo" -> gsym([gen EXCEPT !.s = MaxStmts + Top.s], Top.b)
      [] k \in {"while", "for"} -> gind(Gen)
      [] OTHER -> Gen
Tested(k, G) == CASE k \in {"if", "while", "for"} -> gvtst(G, 1, 0)
                  [] k = "enddo" -> gvtst(G, 0, 0)
                  [] OTHER -> G
DeclaredGraph(v) == [Event(ref, "declare", v) EXCEPT !.open = Append(@, v)]
AtNext(R) == Land(R, Newest(R))
StartGraph(k, decl) ==
    NewNode(NewNode(
        IF k = "enddo" THEN Land(ref, Top.cont)
        ELSE AtNext(NewNode(IF decl THEN DeclaredGraph(<<stmts + 1, 8>>) ELSE ref))))

Behind(k, third, decl, G, R, yes, no, d, cont) ==
    \/ k = "expr"   /\ ExprStmt(G, R, yes, no)
    \/ k = "use"    /\ Use(G, R, yes, no)
    \/ k = "if"     /\ If(G, R, yes, no)
    \/ k = "while"  /\ While(G, R, yes, no, d, cont)
    \/ k = "for"    /\ For(G, R, yes, no, d, cont, third, decl)
    \/ k = "enddo"  /\ EndDo(G, R, yes, no)
    \/ k = "switch" /\ Switch(G, R, yes, no)

WithExpr(k, e, third, decl, G, S) ==
    Behind(k, third, decl, Tested(k, expr_infix(G, e)),
           Graph(S, e, G.s, S.cur, Newest(S) - 1, Newest(S)),
           Newest(S) - 1, Newest(S), ind(G), S.cur)

ExprStatement ==
    \E k \in {"expr", "use", "if", "while", "for", "enddo", "switch"}, third, decl \in BOOLEAN :
       /\ IF k = "enddo" THEN Ends({"do"}) /\ closing # "yes" ELSE Starts(k)
       /\ k # "for" => ~third /\ ~decl
       /\ decl => "declare" \in UNION ToSet(Statements[program])
       /\ \E e \in Exprs[program][IF k = "enddo" THEN Top.s ELSE stmts + 1] :
             WithExpr(k, e, third, decl, Start(k, decl), StartGraph(k, decl))
       /\ SameLists /\ Token /\ Parsing

-----------------------------------------------------------------------------
(* The other statements, and how they end. *)

Else ==
    /\ Ends({"then"}) /\ closing # "yes"
    /\ LET D == gjmp(gen, 0)
           R == NewNode(ref)
       IN  /\ Emitted(gsym(D, Top.a))
           /\ ref' = At(On(R, R.cur, Newest(R)), Top.cont)
           /\ frames' = Append(Front(frames),
                               [Top EXCEPT !.k = "else", !.a = D.t, !.exit = Newest(R)])
    /\ expects' = "stmt" /\ Token
    /\ SameScopes /\ SameLists /\ Parsing

EndIf ==
    /\ Ends({"then", "else"})
    /\ Emitted(gsym(gen, Top.a))
    /\ ref' = Land(ref, IF Top.k = "then" THEN Top.cont ELSE Top.exit)
    /\ Completed(Front(frames)) /\ UNCHANGED closing
    /\ SameScopes /\ SameLists /\ Parsing

Do ==
    /\ Starts("do")
    /\ Emitted(gind(gen))
    /\ LET R == NewNode(NewNode(NewNode(ref)))
           n == Newest(R)
       IN  /\ ref' = Land(R, n)
           /\ lblock([Frame("do") EXCEPT !.d = ind(gen), !.head = n, !.exit = n - 1,
                                         !.cont = n - 2], scopes, TRUE)
    /\ Token /\ SameLists /\ Parsing

\* The end of a loop's body; for leaves its scope too.
BodyEnd == gsym(gsym_addr(gjmp_addr(gen, Top.d), Top.b, Top.d), Top.a)
BodyEndGraph == At(On(ref, ref.cur, Top.cont), Top.exit)
EndWhile ==
    /\ Ends({"while"})
    /\ Emitted(BodyEnd) /\ ref' = BodyEndGraph
    /\ Completed(Front(frames)) /\ scopes' = LeaveLblock(scopes) /\ loop_scope' = Top.loop
    /\ UNCHANGED closing /\ SameLists /\ Parsing
EndFor ==
    /\ Ends({"for"})
    /\ LeavesScope(prev_scope(BodyEnd)) /\ ref' = LeftGraph(BodyEndGraph)
    /\ Completed(Front(frames)) /\ scopes' = Front(scopes) /\ loop_scope' = Top.loop
    /\ UNCHANGED <<closing, rsym>> /\ Parsing

\* case v:, or default: for v = -1.  The label is last if the closing brace follows.
Labelled(fs, last) ==
    IF last THEN Completed(fs) /\ closing' = "yes" ELSE frames' = fs /\ expects' = "stmt" /\ Token
Case ==
    \E v \in {-1, 0, 1}, last \in BOOLEAN :
       /\ Starts("case") /\ cur_switch # 0 /\ v \notin DOMAIN frames[cur_switch].p
       /\ LET sw == frames[cur_switch]
              R == AtNext(NewNode(ref))
          IN  /\ Emitted(IF sw.nocode THEN gen ELSE gind(gen))
              /\ ref' = [R EXCEPT !.entered = @ \/ Len(R.open) > sw.inner]
              /\ Labelled([frames EXCEPT ![cur_switch].p = (v :> ind(gen)) @@ @,
                                         ![cur_switch].at = (v :> R.cur) @@ @], last)
       /\ SameScopes /\ SameLists /\ Parsing

\* gcase: the value is compared with each case.
gcase(G, p) ==
    FoldLeft(LAMBDA H, v : IF v \in DOMAIN p
                           THEN o(H, [Insn("br", G.vt.id) EXCEPT !.b = v, !.to = p[v]])
                           ELSE H, G, <<0, 1>>)
DefaultTo(G, p) == IF -1 \in DOMAIN p THEN gsym_addr(G, G.t, p[-1]) ELSE gsym(G, G.t)
Dispatch(G) ==
    IF Top.nocode THEN G
    ELSE DefaultTo(gjmp(gcase(gv(Vset(G, Top.sv), <<Top.s, 8>>), Top.p), 0), Top.p)
CaseNode(v) == IF v \in DOMAIN Top.at THEN Top.at[v]
               ELSE IF -1 \in DOMAIN Top.at THEN Top.at[-1] ELSE Top.exit
EndSwitch ==
    /\ Ends({"switch"})
    /\ LET A == gjmp(gen, Top.a)
       IN  Emitted(gsym(Dispatch(gsym(A, Top.b)), A.t))
    /\ ref' = Land(On(On(ref, Top.head, CaseNode(1)), Top.cont, CaseNode(0)), Top.exit)
    /\ Completed(Front(frames)) /\ scopes' = LeaveLblock(scopes) /\ UNCHANGED loop_scope
    /\ UNCHANGED closing /\ SameLists /\ Parsing

\* A mutant: a switch is taken for a loop.
BreakScopeOfLoop == IF loop_scope # 0 THEN loop_scope ELSE frames[cur_switch].scope

\* break, with the cleanups up to the scope of the switch or the loop.
BreakScope == IF cur_switch # 0 /\ bsym = cur_switch THEN frames[cur_switch].scope ELSE loop_scope
Break ==
    /\ Starts("break") /\ bsym # 0
    /\ LET J == gjmp(try_call_scope_cleanup(gen, Len(scopes[BreakScope].cl)), frames[bsym].a)
       IN  Emitted(J) /\ Completed([frames EXCEPT ![bsym].a = J.t])
    /\ LET to == frames[Innermost(Loops \cup {"switch"})]
       IN  ref' = Leave(Cleaned(ref, to.inner), to.exit)
    /\ Token /\ SameScopes /\ SameLists /\ Parsing

Continue ==
    /\ Starts("continue") /\ csym # 0
    /\ LET J == gjmp(try_call_scope_cleanup(gen, Len(scopes[loop_scope].cl)), frames[csym].b)
       IN  Emitted(J) /\ Completed([frames EXCEPT ![csym].b = J.t])
    /\ LET to == frames[Innermost(Loops)]
       IN  ref' = Leave(Cleaned(ref, to.inner), to.cont)
    /\ Token /\ SameScopes /\ SameLists /\ Parsing

Direct == Innermost(Loops \cup {"switch"}) = 0 /\ (cl = <<>> \/ Len(frames) = 1)

\* return.  It needs no jump if the closing brace of the function follows (last).
Exit == 2
Return ==
    \E last \in BOOLEAN :
       /\ Starts("return")
       /\ last => local_scope = 1 /\ ("last" \in Allowed \/ Direct)
       /\ LET G == try_call_scope_cleanup(gen, 0)
              J == IF last THEN [G EXCEPT !.t = rsym] ELSE gjmp(G, rsym)
          IN  Emitted([J EXCEPT !.off = TRUE]) /\ rsym' = J.t
       /\ ref' = Leave(Cleaned(ref, 0), Exit)
       /\ closing' = IF last THEN "yes" ELSE IF local_scope = 1 THEN "no" ELSE "any"
       /\ Completed(frames)
       /\ SameScopes /\ SameGotos /\ Parsing

\* goto.  To a label further on, it is in the label's chain, or in one of its own if there
\* are variables to clean up.
Waits(l) ==
    IF cl # <<>> /\ ~gen.off
    THEN LET J == gjmp(gen, 0)
         IN  /\ "mixed" \in Allowed \/ labels[l].jnext = 0
             /\ Emitted(J)
             /\ labels' = [labels EXCEPT ![l].r = "forward", ![l].next = Append(@, J.t)]
             /\ pending_gotos' = Append(pending_gotos, [label |-> l, c |-> Len(cl),
                                                        i |-> Len(labels[l].next) + 1])
    ELSE LET J == gjmp(gen, labels[l].jnext)
         IN  /\ "mixed" \in Allowed \/ gen.off \/ labels[l].next = <<>>
             /\ Emitted(J)
             /\ labels' = [labels EXCEPT ![l].r = "forward", ![l].jnext = J.t]
             /\ UNCHANGED pending_gotos
GotoGraph(g) == IF ref.place[g.label].p = 0 THEN Cut([ref EXCEPT !.gotos = Append(@, g)])
                ELSE Cut(Resolved(ref, g))
Goto ==
    \E l \in Labels :
       /\ Starts("goto")
       /\ IF labels[l].r = "defined"
          THEN /\ Emitted(gjmp_addr(try_call_scope_cleanup(gen, Common(cl, labels[l].cleanupstate)),
                                    labels[l].jnext))
               /\ SameGotos
          ELSE Waits(l)
       /\ ref' = GotoGraph([label |-> l, p |-> ref.cur, open |-> ref.open])
       /\ Completed(frames)
       /\ Token /\ SameScopes /\ UNCHANGED rsym /\ Parsing

\* A label, at which the chains of its gotos end.
Arrive(G, label) == IF label.next # <<>> THEN FoldLeft(gsym, G, label.next) ELSE gsym(G, label.jnext)
PlaceLabel(l, R) ==
    LET S == [R EXCEPT !.place[l] = [p |-> R.cur, open |-> R.open]]
    IN  FoldLeft(LAMBDA T, g : IF g.label = l THEN Resolved(T, g) ELSE T, S, R.gotos)
Label ==
    \E l \in Labels, last \in BOOLEAN :
       /\ Starts("label") /\ labels[l].r # "defined"
       /\ LET G == gind(Arrive(gen, labels[l]))
          IN  /\ Emitted(G)
              /\ labels' = [labels EXCEPT ![l] =
                     [r |-> "defined", jnext |-> ind(G), cleanupstate |-> cl, next |-> <<>>]]
       /\ ref' = PlaceLabel(l, AtNext(NewNode(ref)))
       /\ Labelled(frames, last)
       /\ SameScopes /\ UNCHANGED <<pending_gotos, rsym>> /\ Parsing

\* A declaration of a variable with a cleanup and an initializer.
Declare ==
    /\ expects = "list" /\ Starts("declare")
    /\ "late" \in Allowed
       \/ \A g \in ToSet(pending_gotos) : labels[g.label].r = "forward" => g.c <= Len(outer)
    /\ LET v == <<stmts + 1, 8>>
       IN  /\ Emitted(o(gen, Insn("declare", v))) /\ ref' = DeclaredGraph(v)
           /\ scopes' = [scopes EXCEPT ![cur_scope].cl = Append(@, v)]
    /\ Token /\ UNCHANGED <<frames, expects, loop_scope>> /\ SameLists /\ Parsing

Open ==
    /\ Starts("block")
    /\ frames' = Append(frames, Frame("block")) /\ expects' = "list"
    /\ scopes' = Append(scopes, Last(scopes))
    /\ Token /\ UNCHANGED <<gen, ref, loop_scope>> /\ SameLists /\ Parsing

Close ==
    /\ phase = "parse" /\ expects = "list" /\ closing # "no" /\ Len(frames) > 1
    /\ LeavesScope(prev_scope(gen)) /\ ref' = LeftGraph(ref)
    /\ Completed(Front(frames)) /\ scopes' = Front(scopes)
    /\ Token /\ UNCHANGED <<loop_scope, rsym, stmts>> /\ Parsing

\* The statement ; completes a program of MaxStmts statements.
Empty ==
    /\ phase = "parse" /\ expects = "stmt" /\ stmts = MaxStmts
    /\ Completed(frames)
    /\ Token /\ UNCHANGED <<gen, ref, stmts>> /\ SameScopes /\ SameLists /\ Parsing

-----------------------------------------------------------------------------
(* The processor: code without an event is silent.  A jump that was never patched, and a
   register that was never set, lead nowhere. *)

Value(v, id) == IF id \in DOMAIN v THEN v[id] ELSE -1
Silent == {"jmp", "br", "set", "move"}

Execute(c, i) ==
    CASE i.k = "jmp" -> [c EXCEPT !.pc = i.to]
      [] i.k = "br"  -> [c EXCEPT !.pc = IF Value(c.val, i.id) = i.b THEN i.to ELSE @ + 1]
      [] i.k = "set" -> [pc |-> c.pc + 1, val |-> (i.id :> i.b) @@ c.val]
      [] i.k = "move" -> [pc |-> c.pc + 1,
                          val |-> (i.id :> IF Value(c.val, i.src) = i.b THEN 1 ELSE 0) @@ c.val]
\* The next event of the code, of the graph; none after n silent steps.
RECURSIVE Settled(_, _, _)
Settled(code, c, n) ==
    IF n = 0 \/ c.pc \notin DOMAIN code THEN c
    ELSE IF code[c.pc].k \in Silent THEN Settled(code, Execute(c, code[c.pc]), n - 1) ELSE c
RECURSIVE Reached(_, _, _)
Reached(node, p, n) ==
    IF n > 0 /\ node[p].k = "on" THEN Reached(node, node[p].to[1], n - 1) ELSE p

Ev(k) == [k |-> k, id |-> Nil, v |-> 0]
CodeEvent ==
    IF pc \notin DOMAIN gen.code THEN Ev("crash")
    ELSE LET i == gen.code[pc]
         IN  IF i.k \in Silent THEN Ev("loops")
             ELSE [k |-> i.k, id |-> i.id, v |-> IF i.k = "use" THEN Value(val, i.id) ELSE 0]
SourceEvent == LET n == ref.node[at]
               IN  IF n.k = "on" THEN Ev("loops") ELSE [k |-> n.k, id |-> n.id, v |-> n.v]

Arrives(d) == pc' = d.pc /\ val' = d.val
Resume(code, node, c, p) ==
    Arrives(Settled(code, c, 2 * Len(code))) /\ at' = Reached(node, p, Len(node))

\* The end of the function: its epilogue.  A label that is used must be defined.
Epilogue(G) == o([gsym(G, rsym) EXCEPT !.off = FALSE], Insn("end", Nil))
Finish(G, R) == /\ Emitted(G) /\ ref' = R
                /\ Resume(G.code, R.node, [pc |-> 1, val |-> <<>>], 1)
EndFunction ==
    /\ phase = "parse" /\ expects = "list" /\ closing # "no" /\ Len(frames) = 1
    /\ \A l \in Labels : labels[l].r # "forward"
    /\ Finish(Epilogue(prev_scope(gen).G), On(LeftGraph(ref), LeftGraph(ref).cur, Exit))
    /\ phase' = "run"
    /\ UNCHANGED <<parser, live, program>>

Step ==
    /\ phase = "run" /\ CodeEvent = SourceEvent
    /\ \E b \in 1..Len(ref.node[at].to) :
          Resume(gen.code, ref.node,
                 [pc |-> pc + 1, val |-> IF CodeEvent.k = "eval" THEN (CodeEvent.id :> b - 1) @@ val
                                         ELSE val], ref.node[at].to[b])
    /\ CodeEvent.k # "loops"
    /\ live' = CASE CodeEvent.k = "declare" -> live \cup {CodeEvent.id}
                 [] CodeEvent.k = "cleanup" -> live \ {CodeEvent.id}
                 [] OTHER -> live
    /\ UNCHANGED <<gen, parser, ref, phase, program>>

Init ==
    /\ program \in Programs
    /\ gen = [code |-> <<>>, off |-> FALSE, n |-> 0, vt |-> Const(0), t |-> 0, s |-> 0]
    /\ ref = [node |-> <<Blank, Node("end", Nil, <<>>)>>, cur |-> 1, open |-> <<>>,
              place |-> [l \in Labels |-> [p |-> 0, open |-> <<>>]], gotos |-> <<>>,
              entered |-> FALSE]
    /\ stmts = 0
    /\ frames = <<Frame("block")>>
    /\ scopes = [i \in 1..2 |-> [bsym |-> 0, csym |-> 0, cl |-> <<>>]]
    /\ loop_scope = 0 /\ rsym = 0 /\ pending_gotos = <<>>
    /\ labels = [l \in Labels |-> [r |-> "none", jnext |-> 0, cleanupstate |-> <<>>, next |-> <<>>]]
    /\ expects = "list" /\ closing = "any"
    /\ phase = "parse" /\ pc = 0 /\ val = <<>> /\ at = 0 /\ live = {}

Next == \/ ExprStatement \/ Else \/ EndIf \/ Do \/ EndWhile \/ EndFor \/ Case \/ EndSwitch
        \/ Break \/ Continue \/ Return \/ Goto \/ Label \/ Declare \/ Open \/ Close \/ Empty
        \/ EndFunction \/ Step

Spec == Init /\ [][Next]_vars

-----------------------------------------------------------------------------

Jumping == {i \in DOMAIN gen.code : gen.code[i].k \in {"jmp", "br"} /\ gen.code[i].to = 0}

\* The heads of the chains that something waits for.
FrameHeads == UNION {{<<"a", i, frames[i].a>>, <<"b", i, frames[i].b>>,
                      <<"true", i, frames[i].sv.jtrue>>, <<"false", i, frames[i].sv.jfalse>>}
                     : i \in DOMAIN frames}
LabelHeads == UNION {{<<"label", l, labels[l].jnext>>}
                     \cup {<<"next", <<l, i>>, labels[l].next[i]>> : i \in DOMAIN labels[l].next}
                     : l \in {m \in Labels : labels[m].r = "forward"}}
Heads == FrameHeads \cup LabelHeads \cup {<<"return", 0, rsym>>}

RECURSIVE Closure(_)
Closure(S) ==
    LET T == S \cup UNION {ToSet(ref.node[p].to) : p \in S} IN IF T = S THEN S ELSE Closure(T)
Reachable == Closure({1})

\* The code does what the program says: at each event, a call, a declaration, a cleanup, a value
\* stored, the end, the source has reached the same one, whatever the conditions were; and the
\* code runs silently for ever only if the source does.
FollowsSource == phase = "run" => CodeEvent = SourceEvent

\* Each jump without a target is in exactly one of the chains that a statement still open, the
\* return of the function or a label not yet seen will patch (gjmp, gjmp_append, gsym,
\* block_cleanup); at the end there is none.
ChainsPartition ==
    LET heads == IF phase = "run" THEN {} ELSE Heads
    IN  \A i \in Jumping : Cardinality({h \in heads : i \in Chain(gen.code, h[3])}) = 1

\* Between statements, where code is suppressed (CODE_OFF, or an operand that has left its count
\* in nocode_wanted) the program cannot be.
SuppressedUnreachable ==
    phase = "parse" /\ (gen.off \/ gen.n # 0) => ref.cur \notin Reachable

\* On every way through a program that jumps into no scope, a variable is cleaned up once, by
\* the time it goes out of scope, and none that has not been declared (block_cleanup,
\* leave_scope, try_call_cleanup_goto).
CleanedOnce ==
    phase = "run" /\ ~ref.entered =>
        CASE CodeEvent.k = "declare" -> CodeEvent.id \notin live
          [] CodeEvent.k = "cleanup" -> CodeEvent.id \in live
          [] CodeEvent.k = "end" -> live = {}
          [] OTHER -> TRUE

=============================================================================
