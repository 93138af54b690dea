----------------------------- MODULE ValueStack -----------------------------
(***************************************************************************)
(* The value stack of tccgen.c and its register allocator, as riscv64-gen.c*)
(* uses them for integers, pointers and long doubles.  An entry says where *)
(* its value will be when the generated code runs.  The module runs that   *)
(* code as it is emitted, and keeps in each entry the value v that the     *)
(* program means, so that an entry can be found wrong.                     *)
(*                                                                         *)
(* A value <<id, d>> is what d dereferences of the pointer id give; a      *)
(* negative id is a variable of the program.  A word <<id, d, w>> of it is *)
(* its first (w = 1) or second word, or the address behind the first word  *)
(* of what it points to (w = 3).                                           *)
(***************************************************************************)
EXTENDS Integers, Sequences, SequencesExt, FiniteSets, FiniteSetsExt, TLC

CONSTANTS NRegs,     \* integer registers of the allocator, from a0 on
          MaxTemps,  \* MAX_TEMP_LOCAL_VARIABLE_NUMBER
          Widths,    \* whether the values of the program have two words (long doubles)
          LdArgs,    \* the argument registers, from 0, in which a long double may start
          MaxStack,  \* bound: entries of vstack
          MaxLoc,    \* bound: temporary variables of the function
          MaxDeref   \* bound: dereferences of one pointer

ASSUME RegAssumption == NRegs \in Nat /\ NRegs >= 3 /\ LdArgs \subseteq Nat
ASSUME WidthAssumption == Widths \subseteq BOOLEAN
ASSUME BoundAssumption ==
    MaxTemps \in Nat /\ MaxStack \in Nat /\ MaxLoc \in Nat /\ MaxDeref \in Nat

VARIABLES vstack,  \* the last entry is vtop
          reg,     \* the word in each register
          mem,     \* the words in the temporary variables
          temps,   \* arr_temp_local_vars: the variable, whether it has two words
          loc,     \* temporary variables so far
          base,    \* nocode_wanted: entries below the suppressed expression; -1: none
          bad      \* what the emitted code did wrong so far

vars == <<vstack, reg, mem, temps, loc, base, bad>>

None == -1
Ints == 0..NRegs - 1      \* RC_INT
Junk == <<0, 0, 0>>

Now == [st |-> vstack, reg |-> reg, mem |-> mem, temps |-> temps, loc |-> loc,
        base |-> base, bad |-> bad, var |-> None, got |-> None]

Word(v, w) == <<v[1], v[2], w>>
At(p) == CASE p[3] = 1 /\ p # Junk -> <<p[1], p[2] + 1, 1>>
           [] p[3] = 3             -> <<p[1], p[2] + 1, 2>>
           [] OTHER                -> Junk
Behind(p) == IF p[3] = 1 THEN <<p[1], p[2], 3>> ELSE Junk

\* The slot c = <<b, o>> is word o of the temporary variable b or, b < 0, of the variable b
\* of the program, which holds the value <<b, 0>>.
Content(T, c) ==
    IF c[1] < 0 THEN <<c[1], 0, c[2] + 1>> ELSE IF c \in DOMAIN T.mem THEN T.mem[c] ELSE Junk

-----------------------------------------------------------------------------
(* Entries.  k is what r says: VT_CONST, a register, VT_LVAL with a register ("at"),    *)
(* VT_LOCAL and VT_LLOCAL, both with VT_LVAL, or VT_CMP, whose cmp_r is c and compares  *)
(* the words of.                                                                        *)

Const(v) == [k |-> "const", r |-> None, r2 |-> None, c |-> <<0, 0>>, two |-> FALSE,
             v |-> v, of |-> <<>>]
InReg(v, r) == [Const(v) EXCEPT !.k = "reg", !.r = r]
Local(v, b, two) == [Const(v) EXCEPT !.k = "local", !.c = <<b, 0>>, !.two = two]
Compared(v, c, of) == [Const(v) EXCEPT !.k = "cmp", !.c = c, !.of = of]

Uses(e, r) == (e.k \in {"reg", "at"} /\ e.r = r) \/ e.r2 = r
IsLvalue(e) == e.k \in {"at", "llocal"} \/ (e.k = "local" /\ e.c[1] < 0)

vtop(T) == Last(T.st)
Under(T) == T.st[Len(T.st) - 1]
Drop(T, n) == [T EXCEPT !.st = SubSeq(T.st, 1, Len(T.st) - n)]
vpushv(T, e) == [T EXCEPT !.st = Append(T.st, e)]
SetTop(T, e) == vpushv(Drop(T, 1), e)

NoCode(T) == T.base >= 0
SetReg(T, r, w) == IF NoCode(T) THEN T ELSE [T EXCEPT !.reg[r] = w]
Require(T, what, p) == IF NoCode(T) \/ p THEN T ELSE [T EXCEPT !.bad = T.bad \cup {what}]

\* The words of what entry e stands for, when the code runs.
First(T, e) ==
    CASE e.k = "const"  -> Word(e.v, 1)
      [] e.k = "reg"    -> T.reg[e.r]
      [] e.k = "at"     -> At(T.reg[e.r])
      [] e.k = "local"  -> Content(T, e.c)
      [] e.k = "llocal" -> At(Content(T, e.c))
      [] e.k = "cmp"    -> IF \A i \in DOMAIN e.of : T.reg[e.c[i]] = e.of[i]
                           THEN Word(e.v, 1) ELSE Junk
Second(T, e) ==
    CASE e.k = "reg"    -> T.reg[e.r2]
      [] e.k = "at"     -> At(Behind(T.reg[e.r]))
      [] e.k = "local"  -> Content(T, <<e.c[1], 1>>)
      [] e.k = "llocal" -> At(Behind(Content(T, e.c)))
      [] OTHER          -> Junk

load(T, r, e) == SetReg(T, r, First(T, e))

\* The ids of the entries, three places for each: of its value, and of the words it compares.
IdAt(e, j) == IF j = 0 THEN e.v[1] ELSE IF j \in DOMAIN e.of THEN e.of[j][1] ELSE 0
Ids(T) == [p \in 1..3 * Len(T.st) |-> IdAt(T.st[(p + 2) \div 3], (p + 2) % 3)]

\* A value that no entry has so far.
Fresh(T) == <<Min((1..Len(T.st) * 3 + 1) \ ToSet(Ids(T))), 0>>

-----------------------------------------------------------------------------
(* Temporary variables and registers.  T.var and T.got are what was found last. *)

TempInUse(T, b) ==
    \E i \in DOMAIN T.st : T.st[i].k \in {"local", "llocal"} /\ T.st[i].c = <<b, 0>>

FreeTemps(T, two) ==
    {i \in DOMAIN T.temps : T.temps[i].two = two /\ ~TempInUse(T, T.temps[i].b)}

\* get_temp_local_var
get_temp_local_var(T, two) ==
    IF FreeTemps(T, two) # {} THEN [T EXCEPT !.var = T.temps[Min(FreeTemps(T, two))].b]
    ELSE [T EXCEPT !.loc = @ + 1, !.var = T.loc + 1,
                   !.temps = IF Len(@) < MaxTemps THEN Append(@, [b |-> T.loc + 1, two |-> two])
                             ELSE @]

Pair(e) == e.two /\ e.k # "at"
InTemp(e, b) ==
    [e EXCEPT !.k = IF e.k = "at" THEN "llocal" ELSE "local",
              !.r = None, !.r2 = None, !.c = <<b, 0>>]

\* The code that saves entry e in the variable, and the entries users told of it.
Written(m, c, w) == [d \in DOMAIN m \cup {c} |-> IF d = c THEN w ELSE m[d]]
SaveInTemp(T, e, users) ==
    LET word1 == Written(T.mem, <<T.var, 0>>, T.reg[e.r])
        words == IF Pair(e) THEN Written(word1, <<T.var, 1>>, T.reg[e.r2]) ELSE word1
    IN  [T EXCEPT !.mem = IF NoCode(T) THEN @ ELSE words,
                  !.st = [i \in DOMAIN T.st |->
                              IF i \in users THEN InTemp(T.st[i], T.var) ELSE T.st[i]]]
Save(T, e, users) == SaveInTemp(get_temp_local_var(T, Pair(e)), e, users)

Users(T, r, n) == {i \in 1..Len(T.st) - n : Uses(T.st[i], r)}

\* Mutant: only the first entry that has the register is told.
SaveFirstUser(T, r, n) ==
    IF Users(T, r, n) = {} \/ NoCode(T) THEN T
    ELSE Save(T, T.st[Min(Users(T, r, n))], {Min(Users(T, r, n))})

\* Mutant: code or not, the entries are told that their register was saved.
SaveWithoutCode(T, r, n) ==
    IF Users(T, r, n) = {} THEN T ELSE Save(T, T.st[Min(Users(T, r, n))], Users(T, r, n))

\* save_reg_upstack: every entry but the top n that has r gets the variable it is saved in.
save_reg_upstack(T, r, n) ==
    IF Users(T, r, n) = {} \/ NoCode(T) THEN T
    ELSE Save(T, T.st[Min(Users(T, r, n))], Users(T, r, n))

save_reg(T, r) == save_reg_upstack(T, r, 0)

\* save_regs: all but the top n entries.
SaveEntry(T, i) == IF T.st[i].k \in {"reg", "at"} THEN save_reg(T, T.st[i].r) ELSE T
save_regs(T, n) ==
    LET upTo[i \in 0..Len(T.st) - n] == IF i = 0 THEN T ELSE SaveEntry(upTo[i - 1], i)
    IN  upTo[Len(T.st) - n]

\* Of the lowest entry that has a register of the class: its second one, or its first.
FirstHeld(T, class) ==
    LET held(e) == {r \in class : Uses(e, r)}
        e == T.st[Min({i \in DOMAIN T.st : held(T.st[i]) # {}})]
    IN  IF e.r2 \in class THEN e.r2 ELSE e.r
SaveHeld(T, r) == [save_reg(T, r) EXCEPT !.got = r]

\* get_reg
get_reg(T, class) ==
    LET free == {r \in class : \A i \in DOMAIN T.st : ~Uses(T.st[i], r)}
    IN  IF NoCode(T) THEN [T EXCEPT !.got = Min(class)]
        ELSE IF free # {} THEN [T EXCEPT !.got = Min(free)] ELSE SaveHeld(T, FirstHeld(T, class))

-----------------------------------------------------------------------------
(* gv: vtop into a register of the class *)

Load(T) == SetTop(load(T, T.got, vtop(T)), InReg(vtop(T).v, T.got))
gvWord(T, class) ==
    IF vtop(T).k = "reg" /\ vtop(T).r \in class THEN T ELSE Load(get_reg(T, class))

\* vcheck_cmp
vcheck_cmp(T) == IF T.st # <<>> /\ vtop(T).k = "cmp" /\ ~NoCode(T) THEN gvWord(T, Ints) ELSE T

\* vrotb of the n entries on top, and vrott.
RotB(s, n) == Append(RemoveAt(s, Len(s) - n + 1), s[Len(s) - n + 1])
RotT(s, n) == InsertAt(SubSeq(s, 1, Len(s) - 1), Len(s) - n + 1, Last(s))
vrotb(T, n) == [vcheck_cmp(T) EXCEPT !.st = RotB(@, n)]
vrott(T, n) == [vcheck_cmp(T) EXCEPT !.st = RotT(@, n)]
vswap(T) == vrotb(T, 2)
vsetc(T, e) == vpushv(vcheck_cmp(T), e)

\* The lvalue vtop moved 8 bytes on: gaddrof, vpushs(8), gen_op('+'), VT_LVAL again.
PutBehind(T, p, e) ==
    vpushv(SetReg(T, T.got, p), [e EXCEPT !.k = "at", !.r = T.got, !.c = <<0, 0>>])
Advance(T, e) == PutBehind(get_reg(Drop(T, 1), Ints), Behind(T.reg[vtop(T).r]), e)
Pointer(e) == [e EXCEPT !.k = IF e.k = "at" THEN "reg" ELSE "local", !.two = FALSE]
SecondWord(T) ==
    IF vtop(T).k = "local" THEN SetTop(T, [vtop(T) EXCEPT !.c = <<@[1], 1>>])
    ELSE Advance(gvWord(SetTop(T, Pointer(vtop(T))), Ints), vtop(T))

\* The second word, from the entry on vtop, to a register of class2; then r and it are vtop.
EndPair(T, r, v) == SetTop(Drop(load(T, T.got, vtop(T)), 1),
                           [InReg(v, r) EXCEPT !.r2 = T.got, !.two = TRUE])
LoadSecond(T, class2, r, v) == EndPair(get_reg(T, class2), r, v)

\* The first word is loaded into T.got.
gvFromMemory(T, class2) ==
    LET second == [vtop(T) EXCEPT !.two = FALSE]
    IN  LoadSecond(SecondWord(vpushv(Load(T), second)), class2, T.got, vtop(T).v)
gvFromRegs(T, e, class2) ==
    LET moved == SetTop(load(T, T.got, e), [e EXCEPT !.r = T.got])
    IN  IF e.r2 \in class2 THEN moved
        ELSE LoadSecond(vpushv(moved, [e EXCEPT !.r = e.r2]), class2, T.got, e.v)

\* get_reg may have saved vtop.  A pointer is going to move: its other users are saved.
gvPair(T, class2) ==
    CASE vtop(T).k = "reg" -> gvFromRegs(T, vtop(T), class2)
      [] vtop(T).k = "at"  -> gvFromMemory(save_reg_upstack(T, vtop(T).r, 1), class2)
      [] OTHER             -> gvFromMemory(T, class2)

SecondClass(class) == IF class = {0} THEN {1} ELSE Ints
gv(T, class) ==
    LET e == vtop(T)
        r_ok == e.k = "reg" /\ e.r \in class
    IN  CASE ~e.two                                         -> gvWord(T, class)
          [] e.two /\ r_ok /\ e.r2 \in SecondClass(class)   -> T
          [] e.two /\ r_ok /\ e.r2 \notin SecondClass(class) ->
                 gvPair([T EXCEPT !.got = e.r], SecondClass(class))
          [] e.two /\ ~r_ok -> gvPair(get_reg(T, class), SecondClass(class))

-----------------------------------------------------------------------------
(* Operations *)

\* gv2(RC_INT, RC_INT), with the reload of what the other one made it save.
gvUnder(T) == vswap(gv(vswap(T), Ints))
gv2(T) ==
    LET reloadUnder(U) == IF Under(U).k = "reg" THEN U ELSE gvUnder(U)
        reloadTop(U) == IF vtop(U).k = "reg" THEN U ELSE gv(U, Ints)
    IN  IF vtop(T).k # "cmp" THEN reloadUnder(gv(gvUnder(T), Ints))
        ELSE reloadTop(gvUnder(gv(T, Ints)))

IsIn(T, e) == e.k = "reg" /\ First(T, e) = Word(e.v, 1)

\* gen_opil on two registers: a comparison leaves them in cmp_r.
Combine(T, a, b, op, v) ==
    IF op \in {"less", "equal"}
    THEN vpushv(T, Compared(v, <<a.r, b.r>>, <<Word(a.v, 1), Word(b.v, 1)>>))
    ELSE vpushv(SetReg(T, T.got, Word(v, 1)), InReg(v, T.got))
Operate(T, op, v) ==
    LET checked == Require(T, "operand", IsIn(T, Under(T)) /\ IsIn(T, vtop(T)))
    IN  Combine(get_reg(Drop(checked, 2), Ints), Under(T), vtop(T), op, v)
General(T, op, v) == Operate(gv2(T), op, v)

\* gen_opil with a small constant on vtop; mul has no such form and "equal" compares with 0.
\* The register of the result is got while the operand is off the stack.
ImmediateIn(T, a, op, v) ==
    LET result == SetReg(Drop(T, 2), T.got, Word(v, 1))
    IN  CASE op = "add"   -> vpushv(result, InReg(v, T.got))
          [] op = "less"  -> vpushv(result, Compared(v, <<T.got, None>>, <<Word(v, 1)>>))
          [] op = "equal" -> vpushv(Drop(T, 2), Compared(v, <<a.r, None>>, <<Word(a.v, 1)>>))
          [] op = "mul"   -> General(T, op, v)
ImmediateOf(T, op, v) ==
    LET a == vtop(T)
        checked == Require(T, "operand", IsIn(T, a))
    IN  ImmediateIn(vswap(vpushv(get_reg(Drop(checked, 1), Ints), a)), a, op, v)
gen_opil(T, op, v) ==
    IF vtop(T).k = "const" THEN ImmediateOf(gv(vswap(T), Ints), op, v) ELSE General(T, op, v)

\* gen_opic: constants are folded, and go to the right of a commutative operation.
gen_opic(T, op, v) ==
    IF Under(T).k = "const" /\ vtop(T).k = "const" THEN vpushv(Drop(T, 2), Const(v))
    ELSE gen_opil(IF Under(T).k = "const" /\ op # "less" THEN vswap(T) ELSE T, op, v)

\* gen_op: the casts of both operands swap, so a comparison on vtop is fetched.
gen_op(T, op) == gen_opic(vswap(vswap(T)), op, Fresh(T))

\* vstore, without casts: each word goes to its place, and the value stays on vtop.
StoreFirst(T) == Require(T, "store", /\ First(T, Under(T)) = Word(Under(T).v, 1)
                                     /\ IsIn(T, vtop(T)))
StoreSecond(T) == Require(T, "store", /\ First(T, Under(T)) = Word(Under(T).v, 2)
                                      /\ vtop(T).r2 \in Ints
                                      /\ Second(T, vtop(T)) = Word(vtop(T).v, 2))
StoreWords(T) == IF vtop(T).two THEN StoreSecond(vswap(SecondWord(vswap(StoreFirst(T)))))
                 ELSE StoreFirst(T)
ReloadPointer(T) ==
    LET at == [Under(T) EXCEPT !.k = "at", !.r = T.got, !.c = <<0, 0>>]
    IN  [SetReg(T, T.got, Content(T, Under(T).c)) EXCEPT !.st = ReplaceAt(@, Len(@) - 1, at)]
StoreValue(T) ==
    StoreWords(IF Under(T).k = "llocal" THEN ReloadPointer(get_reg(T, Ints)) ELSE T)
vstore(T) == Drop(vswap(StoreValue(gv(T, Ints))), 1)

\* gv_dup
Duplicate(T) == SetTop(load(vpushv(T, vtop(T)), T.got, vtop(T)), InReg(vtop(T).v, T.got))
gv_dup(T) == Duplicate(get_reg(gv(T, Ints), Ints))

\* The first of the registers of argument i, of the n on top.
ArgReg(T, n, i) == i - 1 + Cardinality({j \in 1..i - 1 : T.st[Len(T.st) - n + j].two})

\* gfunc_call puts argument i in its registers; mv brings the second word to where it belongs.
MoveSecond(T, r2) ==
    IF vtop(T).two /\ vtop(T).r2 # r2
    THEN SetTop(SetReg(T, r2, T.reg[vtop(T).r2]), [vtop(T) EXCEPT !.r2 = r2]) ELSE T
Argument(T, n, i) ==
    LET r == ArgReg(T, n, i)
    IN  vrott(MoveSecond(gv(vrotb(T, n - i + 1), {r}), r + 1), n - i + 1)
\* The last argument first.
Arguments(T, n) ==
    LET placed[j \in 0..n] == IF j = 0 THEN T ELSE Argument(placed[j - 1], n, n - j + 1)
    IN  placed[n]

\* The call, with the function on vtop and the n arguments under it, and its result v.
Jump(T, n, two, v) ==
    LET arg(i) == T.st[Len(T.st) - 1 - n + i]
        placed(i) == LET r == ArgReg(Drop(T, 1), n, i)
                     IN  /\ T.reg[r] = Word(arg(i).v, 1)
                         /\ arg(i).two => T.reg[r + 1] = Word(arg(i).v, 2)
        right == (\A i \in 1..n : placed(i)) /\ First(T, vtop(T)) = Word(vtop(T).v, 1)
        results == [r \in Ints |-> CASE r = 0          -> Word(v, 1)
                                     [] r = 1 /\ two   -> Word(v, 2)
                                     [] OTHER          -> Junk]
        done == Drop(Require(T, "call", right), n + 1)
    IN  vsetc(IF NoCode(T) THEN done ELSE [done EXCEPT !.reg = results],
              [InReg(v, 0) EXCEPT !.r2 = IF two THEN 1 ELSE None, !.two = two])
gfunc_call(T, n, two) ==
    LET fetched == IF vtop(T).k = "cmp" THEN gv(T, Ints) ELSE T
    IN  Jump(save_regs(vrotb(Arguments(fetched, n), n + 1), n + 1), n, two, Fresh(T))

-----------------------------------------------------------------------------
(* What an operation leaves: values are named after their first place on the stack, and *)
(* words that no entry can reach are forgotten.                                         *)

Become(T) ==
    LET ids == Ids(T)
        name(id) == IF id <= 0 THEN id
                    ELSE IF id \in ToSet(ids) THEN Min({i \in DOMAIN ids : ids[i] = id})
                    ELSE 0
        word(w) == IF name(w[1]) = 0 THEN Junk ELSE <<name(w[1]), w[2], w[3]>>
        entry(e) == [e EXCEPT !.v = <<name(e.v[1]), e.v[2]>>,
                              !.of = [i \in DOMAIN e.of |-> word(e.of[i])]]
        used(r) == \E i \in DOMAIN T.st :
                       Uses(T.st[i], r) \/ (T.st[i].k = "cmp" /\ r \in ToSet(T.st[i].c))
        held(c) == \E i \in DOMAIN T.st :
                       T.st[i].k \in {"local", "llocal"} /\ T.st[i].c[1] = c[1]
    IN  /\ Len(T.st) <= MaxStack /\ T.loc <= MaxLoc
        /\ vstack' = [i \in DOMAIN T.st |-> entry(T.st[i])]
        /\ reg' = [r \in Ints |-> IF used(r) THEN word(T.reg[r]) ELSE Junk]
        /\ mem' = [c \in {d \in DOMAIN T.mem : held(d)} |-> word(T.mem[c])]
        /\ temps' = T.temps /\ loc' = T.loc /\ base' = T.base /\ bad' = T.bad

\* The operands of the expression being parsed.
Operands == Len(vstack) - Max({base, 0})

-----------------------------------------------------------------------------
(* What the parser asks for *)

Init == /\ vstack = <<>> /\ temps = <<>> /\ mem = <<>> /\ loc = 0
        /\ reg = [r \in Ints |-> Junk] /\ base = None /\ bad = {}

PushConst == Become(vsetc(Now, Const(Fresh(Now))))

\* A variable of the program: -1, or -2 which has two words.
PushVar(two) == LET x == IF two THEN -2 ELSE -1
                IN  Become(vsetc(Now, Local(<<x, 0>>, x, two)))

\* indir
Deref(two) ==
    LET at(T) == SetTop(T, [vtop(T) EXCEPT !.k = "at", !.two = two, !.v = <<@[1], @[2] + 1>>])
    IN  /\ Operands >= 1 /\ ~vtop(Now).two /\ vtop(Now).k \notin {"const", "cmp"}
        /\ vtop(Now).v[2] < MaxDeref
        /\ Become(at(IF vtop(Now).k = "reg" THEN Now ELSE gv(Now, Ints)))

Binary(op) ==
    /\ Operands >= 2 /\ ~vtop(Now).two /\ ~Under(Now).two
    /\ Become(gen_op(Now, op))

\* A call of the n entries on top, within the argument registers.
Call(n, two) ==
    LET fn == vstack[Len(vstack) - n]
        top(i) == vstack[Len(vstack) - n + i]
    IN  /\ Operands >= n + 1
        /\ ~fn.two /\ fn.k # "cmp"
        /\ \A i \in 1..n : LET r == ArgReg(Now, n, i)
                           IN  IF top(i).two THEN r \in LdArgs /\ r + 1 \in Ints ELSE r \in Ints
        /\ Become(gfunc_call(Now, n, two))

\* vdup of the lvalue before the operand of a compound assignment.
DupLvalue == Operands >= 1 /\ IsLvalue(vtop(Now)) /\ Become(vpushv(Now, vtop(Now)))

Assign == /\ Operands >= 2 /\ IsLvalue(Under(Now)) /\ Under(Now).two = vtop(Now).two
          /\ Become(vstore(Now))

\* inc: one more is stored in the lvalue; if post, over a copy of the value it had.
EndInc(T, post) == IF post THEN Drop(T, 1) ELSE T
Inc(post) ==
    LET dup == vpushv(Now, vtop(Now))
        start == IF post THEN vrotb(vrotb(gv_dup(dup), 3), 3) ELSE dup
    IN  /\ Operands >= 1 /\ IsLvalue(vtop(Now)) /\ ~vtop(Now).two
        /\ Become(EndInc(vstore(gen_op(vsetc(start, Const(Fresh(Now))), "add")), post))

\* vpop
Pop == Operands >= 1 /\ Become(Drop(Now, 1))

\* expr_type around the operand of sizeof, and the size.
BeginSizeof == ~NoCode(Now) /\ Become([Now EXCEPT !.base = Len(vstack)])
EndSizeof == /\ NoCode(Now) /\ Operands = 1
             /\ LET T == [Drop(Now, 1) EXCEPT !.base = None]
                IN  Become(vsetc(T, Const(Fresh(T))))

Next ==
    \/ PushConst \/ DupLvalue \/ Assign \/ Pop \/ BeginSizeof \/ EndSizeof
    \/ \E two \in Widths : PushVar(two) \/ Deref(two) \/ \E n \in 0..NRegs : Call(n, two)
    \/ \E post \in BOOLEAN : Inc(post)
    \/ \E op \in {"add", "mul", "less", "equal"} : Binary(op)

Spec == Init /\ [][Next]_vars

-----------------------------------------------------------------------------
(* Properties *)

\* Entries that code was generated for: all but those of a suppressed expression.
Real == {i \in DOMAIN vstack : base = None \/ i <= base}

\* Whatever save_reg, get_reg, gv, gfunc_call, vstore and nocode_wanted did since an entry was
\* pushed, the registers and slots the entry names still hold the value it stands for.
ValuesHeld ==
    \A i \in Real : /\ First(Now, vstack[i]) = Word(vstack[i].v, 1)
                    /\ vstack[i].two => Second(Now, vstack[i]) = Word(vstack[i].v, 2)

\* What the emitted code uses is what the program means: gen_opil has both operands in registers
\* (ireg asserts it), gfunc_call has every argument in its registers and the function it means when
\* it jumps, and vstore writes every word of the value, to the place of the lvalue.
UsesRight == bad = {}

=============================================================================
