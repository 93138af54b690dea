----------------------------- MODULE RiscvCalls -----------------------------
(***************************************************************************)
(* How a call passes its arguments (riscv64-gen.c): the caller assigns     *)
(* registers and stack to them in gfunc_call, the callee finds them in     *)
(* gfunc_prolog, and va_arg (include/tccdefs.h) walks over those that have *)
(* no parameter.  The three are written separately in the code and have to *)
(* agree; here they go over the arguments of one call side by side, and    *)
(* each argument list is a prefix of longer ones.  gfunc_return and the    *)
(* caller (unary) have to agree likewise on where a result is.             *)
(***************************************************************************)
EXTENDS RiscvAbi, FiniteSets

CONSTANTS
  Types,      \* types of the arguments that follow
  Passed,     \* <<integers, doubles>> that were passed before, at most 8 each
  MaxArgs,    \* how many arguments follow
  Locs,       \* offsets below which the caller's frame may be free at the call
  Deviations  \* the known deviations (see Known and KnownResult) that arguments
              \* and results may run into

RC_INT == 1
RC_FLOAT == 2

VARIABLES
  func_var,  \* the function has "..."
  sret,      \* its result goes to memory: its first argument is hidden
  phase,     \* the next argument is "named", or "variadic", or there is none
  args,      \* the types passed, and whether each has a parameter
  caller,    \* the variables of gfunc_call
  callee,    \* the variables of gfunc_prolog
  ap,        \* the va_list, as an offset from the caller's stack pointer
  fetched,   \* where va_arg found the variadic arguments
  abi,       \* the psABI's assignment
  result     \* what is returned, and what the caller stores of it

vars == <<func_var, sret, phase, args, caller, callee, ap, fetched, abi, result>>

Align8(align) == IF align < XLEN THEN XLEN ELSE align
RoundUp(n, align) == ((n + align - 1) \div align) * align

(***************************************************************************)
(* reg_pass: the registers a type wants.  rc[0] counts them, or is -1;     *)
(* rc[1] and rc[2] are their classes.  fieldofs is what each one holds.    *)
(***************************************************************************)
NoRegs == [rc |-> [i \in 0..2 |-> 0],
           fieldofs |-> [i \in 1..2 |-> [ofs |-> 0, bt |-> "llong"]]]

Give(r, class, ofs, bt) ==
  LET n == r.rc[0] + 1
  IN  [rc |-> [r.rc EXCEPT ![0] = n, ![n] = class],
       fieldofs |-> [r.fieldofs EXCEPT ![n] = [ofs |-> ofs, bt |-> bt]]]

\* rc[++rc[0]] = RC_FLOAT; fieldofs[rc[0]] = ...: where rc[0] is -1 this sets
\* rc[0] itself.
GiveSecond(r, ofs, bt) ==
  IF r.rc[0] = -1
  THEN [rc |-> [r.rc EXCEPT ![0] = RC_FLOAT],
        fieldofs |-> [r.fieldofs EXCEPT ![RC_FLOAT] = [ofs |-> ofs, bt |-> bt]]]
  ELSE Give(r, RC_FLOAT, ofs, bt)

Refuse(r) == [r EXCEPT !.rc[0] = -1]

PassScalar(t, r, ofs) ==
  IF r.rc[0] = 2 \/ r.rc[0] < 0 \/ t.bt = "ldouble" THEN Refuse(r)
  ELSE IF r.rc[0] = 0 \/ r.rc[1] = RC_FLOAT \/ t.bt \in Floats
  THEN Give(r, IF t.bt \in Floats THEN RC_FLOAT ELSE RC_INT, ofs, t.bt)
  ELSE Refuse(r)

RECURSIVE reg_pass_rec(_, _, _)
RECURSIVE PassMembers(_, _, _, _)
PassArray(t, r, ofs) ==
  IF r.rc[0] > 2 \/ (r.rc[0] = 2 /\ t.n > 1) THEN Refuse(r)
  ELSE IF t.n = 2 /\ r.rc[0] # 0 /\ r.rc[1] = RC_FLOAT
  THEN GiveSecond(r, ofs + t.of.size, t.of.bt)
  ELSE IF t.n = 2 THEN Refuse(r) ELSE r

reg_pass_rec(t, r, ofs) ==
  CASE t.k = "struct" -> PassMembers(t.members, 1, r, ofs)
    [] t.k = "union"  -> Refuse(r)
    [] t.k = "array"  -> IF t.n > 2 THEN Refuse(r)
                         ELSE PassArray(t, reg_pass_rec(t.of, r, ofs), ofs)
    [] t.k = "scalar" -> PassScalar(t, r, ofs)
PassMembers(ms, i, r, ofs) ==
  IF i > Len(ms) THEN r
  ELSE PassMembers(ms, i + 1, reg_pass_rec(ms[i].type, r, ofs + ms[i].ofs), ofs)

\* The integer type that holds what is left of a value of this size.
IntFor(size) ==
  CASE size <= 1 -> "char" [] size = 2 -> "short"
    [] size \in 3..4 -> "int" [] OTHER -> "llong"

reg_pass(t, named) ==
  LET r == reg_pass_rec(t, NoRegs, 0)
  IN  IF r.rc[0] <= 0 \/ ~named
      THEN [rc |-> [i \in 0..2 |-> IF i = 0 THEN (t.size + 7) \div 8 ELSE RC_INT],
            fieldofs |-> <<[ofs |-> 0, bt |-> IntFor(t.size)],
                           [ofs |-> 8, bt |-> IntFor(t.size - 8)]>>]
      ELSE r

BtSize(bt) ==
  CASE bt = "char" -> 1 [] bt = "short" -> 2
    [] bt \in {"int", "float"} -> 4 [] OTHER -> 8

CharPointer == [k |-> "scalar", bt |-> "llong", size |-> 8, align |-> 8]

(***************************************************************************)
(* gfunc_call.                                                             *)
(***************************************************************************)
\* What the caller puts where: [arg, where, from, len], the bytes of argument
\* arg from "from" on.
Put(k, where, from, len) ==
  [arg |-> k, where |-> where, from |-> from, len |-> len]

\* areg counts integer registers from 0 and floating-point ones from 8.
Reg(n) == IF n < 8 THEN <<"x", n>> ELSE <<"f", n - 8>>

\* An argument that does not get the registers it wants.
OnStack(r, areg) ==
  \/ r.rc[1] = RC_INT /\ areg[RC_INT] >= 8
  \/ r.rc[1] = RC_FLOAT /\ areg[RC_FLOAT] >= 16
  \/ r.rc[0] = 2 /\ r.rc[1] = RC_FLOAT /\ r.rc[2] = RC_FLOAT
       /\ areg[RC_FLOAT] >= 15
  \/ r.rc[0] = 2 /\ r.rc[1] # r.rc[2]
       /\ (areg[RC_FLOAT] >= 16 \/ areg[RC_INT] >= 8)

\* The first word of an argument is loaded with its own type, or the first of
\* its field's.
FirstLen(t, r) ==
  IF ByReference(t) THEN 8
  ELSE IF t.k = "scalar" THEN (IF t.size > 8 THEN 8 ELSE t.size)
  ELSE BtSize(r.fieldofs[1].bt)
SecondLen(t, r) == IF t.k = "scalar" THEN 8 ELSE BtSize(r.fieldofs[2].bt)
SecondOfs(t, r) == IF t.k = "scalar" THEN 8 ELSE r.fieldofs[2].ofs

\* Mutant: pairs start anywhere.
AnyRegs(t, has, areg) == areg

\* An argument without a parameter that is aligned to two words starts at an
\* even register.
EvenRegs(t, has, areg) ==
  IF ~has /\ ~ByReference(t) /\ t.align = 2 * XLEN
  THEN [areg EXCEPT ![RC_INT] = @ + (@ % 2)] ELSE areg

\* The copy of an argument that is passed by reference.
WithCopy(t, c) ==
  IF ByReference(t)
  THEN [c EXCEPT !.tempspace = RoundUp(@, Align8(t.align)) + t.size]
  ELSE c

\* Mutant: the sizes are added up as they are.
ToStackUnrounded(k, t, has, c) ==
  LET ofs == RoundUp(c.ofs, Align(t))
  IN  [c EXCEPT !.stack_adj = @ + Size(t),
                !.areg = IF has THEN @ ELSE <<8, 16>>,
                !.ofs = ofs + Size(t),
                !.at = @ \cup {Put(k, <<"s", ofs>>, 0, Size(t))}]

\* info[i] = 32: the argument goes on the stack; its offset is found when it
\* is stored, after the size of the area.
ToStack(k, t, has, c) ==
  LET size == Size(t)
      align == Align(t)
      ofs == RoundUp(c.ofs, align)
  IN  [c EXCEPT !.stack_adj = @ + RoundUp(size, align),
                !.areg = IF has THEN @ ELSE <<8, 16>>,
                !.ofs = ofs + size,
                !.at = @ \cup {Put(k, <<"s", ofs>>, 0, size)}]

\* Its first word in a register, ...
ToReg(k, t, r, c) ==
  [c EXCEPT !.areg[r.rc[1]] = @ + 1,
            !.ok = @ /\ r.fieldofs[1].ofs = 0,
            !.at = @ \cup {Put(k, Reg(c.areg[r.rc[1]]), 0, FirstLen(t, r))}]

\* ... and its second in another one, or on the stack (splitofs).
ToSecond(k, t, r, c) ==
  LET piece(where) == Put(k, where, SecondOfs(t, r), SecondLen(t, r))
  IN  IF r.rc[2] = RC_FLOAT \/ c.areg[RC_INT] < 8
      THEN [c EXCEPT !.areg[r.rc[2]] = @ + 1,
                     !.at = @ \cup {piece(Reg(c.areg[r.rc[2]]))}]
      ELSE [c EXCEPT !.stack_adj = @ + 8,
                     !.ok = @ /\ c.splitofs = 0,
                     !.splitofs = c.ofs,
                     !.ofs = @ + 8,
                     !.at = @ \cup {piece(<<"s", c.ofs>>)}]

PassRegs(k, t, has, r, c) ==
  IF Size(t) = 0 THEN c
  ELSE IF OnStack(r, c.areg) THEN ToStack(k, t, has, c)
  ELSE IF r.rc[0] = 2 THEN ToSecond(k, t, r, ToReg(k, t, r, c))
  ELSE ToReg(k, t, r, c)

\* One argument, number k; has: it has a parameter (sa != 0).
gfunc_call(k, t, has, c) ==
  PassRegs(k, t, has, reg_pass(t, has),
           [WithCopy(t, c) EXCEPT !.areg = EvenRegs(t, has, c.areg)])

(***************************************************************************)
(* gfunc_prolog.                                                           *)
(***************************************************************************)
Junk == <<0, 0>>
NoPiece == [arg |-> 0, where |-> <<"none", 0>>, from |-> 0, len |-> 0]

\* Byte b of what the caller put at a place: an argument and its byte.
Holds(at, where) ==
  IF \E p \in at : p.where = where
  THEN CHOOSE p \in at : p.where = where ELSE NoPiece
ByteOf(p, b) == IF b < p.len THEN <<p.arg, p.from + b>> ELSE Junk

OnStackAt(at, ofs) ==
  LET over == {p \in at : /\ p.where[1] = "s"
                          /\ ofs \in p.where[2] .. (p.where[2] + p.len - 1)}
  IN  IF over = {} THEN Junk
      ELSE LET p == CHOOSE p \in over : TRUE
           IN  <<p.arg, p.from + ofs - p.where[2]>>

\* A store of len bytes of a register at offset ofs of the parameter.
Store(image, ofs, len, p) ==
  [b \in DOMAIN image |-> IF b \in ofs .. (ofs + len - 1)
                          THEN ByteOf(p, b - ofs) ELSE image[b]]

Blank(n) == [b \in 0..(n - 1) |-> Junk]

\* The i-th word of a parameter: from the stack (through t0), from a floating
\* register, stored at the field's offset, or from an integer one.
StoreWord(i, t, r, at, c) ==
  IF c.areg[r.rc[i]] >= 8
  THEN [c EXCEPT
          !.ok = @ /\ i = 2 /\ r.rc[0] = 2 /\ c.addr % 8 = 0,
          !.addr = @ + 8,
          !.image = [b \in DOMAIN @ |->
                       IF b \in 8 * (i - 1) .. 8 * i - 1
                       THEN OnStackAt(at, c.addr + b - 8 * (i - 1)) ELSE @[b]]]
  ELSE IF r.rc[i] = RC_FLOAT
  THEN [c EXCEPT
          !.areg[RC_FLOAT] = @ + 1,
          !.image = Store(@, r.fieldofs[i].ofs,
                          IF t.size \div r.rc[0] = 4 THEN 4 ELSE 8,
                          Holds(at, <<"f", c.areg[RC_FLOAT]>>))]
  ELSE [c EXCEPT
          !.areg[RC_INT] = @ + 1,
          !.image = Store(@, 8 * (i - 1), 8,
                          Holds(at, <<"x", c.areg[RC_INT]>>))]

\* Mutant: a pair of reals wants one register.
InMemoryLastReal(t, r, areg) ==
  \/ areg[r.rc[1]] >= 8
  \/ r.rc[0] = 2 /\ r.rc[1] # r.rc[2]
       /\ (areg[RC_FLOAT] >= 8 \/ areg[RC_INT] >= 8)

\* The parameter's home and what it holds, or its place on the stack.
InMemory(t, r, areg) ==
  \/ areg[r.rc[1]] >= 8
  \/ /\ r.rc[0] = 2
     /\ \/ r.rc[1] = RC_FLOAT /\ r.rc[2] = RC_FLOAT /\ areg[RC_FLOAT] >= 7
        \/ r.rc[1] # r.rc[2] /\ (areg[RC_FLOAT] >= 8 \/ areg[RC_INT] >= 8)

Param(home, addr, image) == [home |-> home, addr |-> addr, image |-> image]

ParamInMemory(t, c) ==
  LET addr == RoundUp(c.addr, Align8(t.align))
  IN  [c EXCEPT !.addr = addr + t.size,
                !.params = Append(@, Param("stack", addr, <<>>))]

Home(c) ==
  [c EXCEPT !.params = Append(@, Param("local", c.loc, c.image))]

ParamInRegs(t, r, at, c) ==
  LET fresh == [c EXCEPT !.loc = @ - 8 * r.rc[0], !.image = Blank(8 * r.rc[0])]
  IN  Home(CASE r.rc[0] = 0 -> fresh
             [] r.rc[0] = 1 -> StoreWord(1, t, r, at, fresh)
             [] r.rc[0] = 2 ->
                  StoreWord(2, t, r, at, StoreWord(1, t, r, at, fresh)))

PrologParam(t, r, at, c) ==
  IF InMemory(t, r, c.areg) THEN ParamInMemory(t, c)
  ELSE ParamInRegs(t, r, at, c)

\* One parameter; at is what the caller has put where.
gfunc_prolog(t, at, c) ==
  LET type == IF ByReference(t) THEN CharPointer ELSE t
  IN  PrologParam(type, reg_pass(type, TRUE), at, c)

\* The registers that are spilled for va_arg, just below the stack arguments,
\* and with them the distance of s0 from the caller's stack pointer.
num_va_regs(c) == IF func_var /\ c.areg[RC_INT] < 8 THEN 8 - c.areg[RC_INT] ELSE 0
Shift(c) == 8 * num_va_regs(c)

\* What a byte of memory holds, at an offset from the caller's stack pointer:
\* below it are the spilled registers, from it on the stack arguments.
ByteAt(at, ofs, shift) ==
  IF ofs >= 0 THEN OnStackAt(at, ofs)
  ELSE IF ofs >= -shift
  THEN ByteOf(Holds(at, <<"x", 8 + (ofs \div 8)>>), ofs % 8)
  ELSE Junk

(***************************************************************************)
(* va_start and va_arg.                                                    *)
(***************************************************************************)
\* func_va_list_ofs, which is an offset from s0.
gen_va_start(c) == c.addr - Shift(c)

va_arg_end(t) ==
  IF ByReference(t) THEN ap + XLEN
  ELSE ((RoundUp(ap, t.align) + t.size + XLEN - 1) \div XLEN) * XLEN
va_arg(t) == va_arg_end(t) - RoundUp(Size(t), XLEN)

(***************************************************************************)
(* Results: gfunc_return and arch_transfer_ret_regs, and in unary what the *)
(* caller does with the registers.                                         *)
(***************************************************************************)
\* The registers of a struct: none, it goes to memory; or -1, two of different
\* kinds; the type they are loaded with, and the bytes from one to the next.
gfunc_sret(t) ==
  LET r == reg_pass(t, TRUE)
  IN  [nregs |-> IF t.size > 16 THEN 0
                 ELSE IF r.rc[0] = 2 /\ r.rc[1] # r.rc[2] THEN -1 ELSE r.rc[0],
       class |-> r.rc[1],
       bt |-> r.fieldofs[1].bt,
       regsize |-> IF r.rc[1] = RC_FLOAT THEN t.size \div r.rc[0] ELSE XLEN]

RetReg(class, n) == <<IF class = RC_FLOAT THEN "f" ELSE "x", n>>

Part(ofs, len, where) == [ofs |-> ofs, len |-> len, where |-> where]

\* The parts of a result, as the caller finds them: the registers, which it
\* stores if it is a struct, or the memory it had passed.
ResultParts(t) ==
  LET s == gfunc_sret(t)
      r == reg_pass(t, TRUE)
  IN  CASE t.k = "scalar" /\ t.bt = "ldouble" ->
             [i \in 1..2 |-> Part(8 * (i - 1), 8, RetReg(RC_INT, i - 1))]
        [] t.k = "scalar" /\ t.bt # "ldouble" ->
             <<Part(0, t.size, RetReg(IF t.bt \in Floats THEN RC_FLOAT ELSE RC_INT, 0))>>
        [] t.k # "scalar" /\ s.nregs = 0 -> <<Part(0, t.size, <<"memory", 0>>)>>
        [] t.k # "scalar" /\ s.nregs = -1 ->
             [i \in 1..2 |-> Part(r.fieldofs[i].ofs, BtSize(r.fieldofs[i].bt),
                                  RetReg(r.rc[i], 0))]
        [] t.k # "scalar" /\ s.nregs > 0 ->
             [i \in 1..s.nregs |-> Part((i - 1) * s.regsize, BtSize(s.bt),
                                        RetReg(s.class, i - 1))]

\* What the callee puts in each part.  The value that is returned is a local
\* variable, a global one, or behind a pointer in a register.  load does not
\* advance the pointer: the second register gets the first word again (or, if
\* the pointer was in a0 and had to be saved, what another word points to).
Returned(t, place) ==
  LET parts == ResultParts(t)
      Again(i) == t.k # "scalar" /\ gfunc_sret(t).nregs = 2 /\ i = 2 /\ place = "pointer"
  IN  {Put(0, parts[i].where, IF Again(i) THEN 0 ELSE parts[i].ofs, parts[i].len) :
         i \in DOMAIN parts}

InRegisters(t) == t.k # "scalar" /\ gfunc_sret(t).nregs > 0

\* The room that the caller takes for a struct below loc.
RoundDown(n, align) == (n \div align) * align
Room(t, loc) ==
  LET regsize == gfunc_sret(t).regsize
  IN  RoundDown(loc - t.size, IF InRegisters(t) /\ regsize > t.align THEN regsize ELSE t.align)

NoResult == [type |-> CharPointer, ok |-> TRUE, at |-> {}, parts |-> <<>>, loc |-> 0, room |-> 0]

\* Two registers of different kinds are loaded from a local variable only
\* (an assertion).
ResultOf(t, place, loc) ==
  [type |-> t,
   ok |-> t.k # "scalar" /\ gfunc_sret(t).nregs = -1 => place = "local",
   at |-> Returned(t, place),
   parts |-> ResultParts(t),
   loc |-> loc,
   room |-> Room(t, loc)]

(***************************************************************************)
(* Known deviations, each by what runs into it: the README says what they  *)
(* do.  An instance chooses which ones its arguments may run into.         *)
(***************************************************************************)
OnStackToo(r, areg) ==
  OnStack(r, areg) \/ (r.rc[0] = 2 /\ r.rc[2] = RC_INT /\ areg[RC_INT] = 7)

\* An argument on the stack has an empty word before it.
Padded ==
  \E p \in caller.at :
    /\ p.where[1] = "s" /\ p.where[2] >= XLEN
    /\ \A b \in 1..XLEN : OnStackAt(caller.at, p.where[2] - b) = Junk

Known(t, named, has) ==
  LET r == reg_pass(t, has)
      asNamed == reg_pass(t, TRUE)
      areg == EvenRegs(t, has, caller.areg)
      stack == t.size > 0 /\ OnStackToo(r, areg)
  IN  \* a real that finds the floating-point registers taken
      (IF OnStack(r, areg) /\ areg[RC_INT] < 8 THEN {"real on the stack"} ELSE {})
      \* an argument on the stack behind padding that stack_adj lacks
      \cup (IF stack /\ Padded THEN {"padding"} ELSE {})
      \* "..." behind a stack parameter that does not fill its words
      \cup (IF ~named /\ callee.addr % 8 # 0 THEN {"va_list in a word"} ELSE {})
      \* the last parameter of a function with a hidden one
      \cup (IF named /\ ~has /\ (r.rc # asNamed.rc \/ t.align = 2 * XLEN)
            THEN {"hidden parameter"} ELSE {})
      \* a real and an integer in the same word
      \cup (IF named /\ asNamed.rc[0] = 2 /\ asNamed.rc[1] = RC_FLOAT
                 /\ asNamed.rc[2] = RC_INT /\ asNamed.fieldofs[2].ofs # 8
            THEN {"field in first word"} ELSE {})
      \* a struct whose fields do not say how many words it has, or of what
      \cup (IF /\ named
               /\ \/ /\ asNamed.rc[1] = RC_FLOAT
                     /\ Len(Leaves(t, 0)) > 2 \/ ByReference(t)
                  \/ /\ asNamed.rc[1] = RC_INT /\ ~ByReference(t)
                     /\ asNamed.rc[0] < (t.size + 7) \div 8
            THEN {"miscounted"} ELSE {})

\* Those of a result, which is at this place, and of a caller with this loc.
KnownResult(t, place, loc) ==
  LET s == gfunc_sret(t)
      r == reg_pass(t, TRUE)
      two == s.nregs = 2 /\ s.class = RC_FLOAT
  IN  IF t.k = "scalar" THEN {}
      ELSE \* two reals of different types are both moved as the first
           (IF two /\ r.fieldofs[1].bt # r.fieldofs[2].bt THEN {"mixed reals"} ELSE {})
           \cup (IF two /\ Len(Leaves(t, 0)) > 2 THEN {"miscounted"} ELSE {})
           \* the second word of a struct behind a pointer
           \cup (IF s.nregs = 2 /\ place = "pointer" THEN {"behind a pointer"} ELSE {})
           \* a real and an integer that are not in a local variable
           \cup (IF s.nregs = -1 /\ place # "local" THEN {"not a local"} ELSE {})
           \* a struct without members
           \cup (IF t.size = 0 THEN {"empty result"} ELSE {})
           \* whole registers are stored where only the size is free
           \cup (IF s.nregs > 0 /\ t.size % XLEN # 0 /\ loc % XLEN # 0
                 THEN {"narrow room"} ELSE {})

Allowed(t, named, has) == Known(t, named, has) \subseteq Deviations

(***************************************************************************)
(* The call.                                                               *)
(***************************************************************************)
Init ==
  /\ func_var \in BOOLEAN
  /\ sret \in BOOLEAN
  /\ phase = "named"
  /\ args = <<>>
  /\ \E p \in Passed :
       /\ sret => p[1] > 0
       /\ caller = [areg |-> <<p[1], 8 + p[2]>>, stack_adj |-> 0,
                    tempspace |-> 0, ofs |-> 0, splitofs |-> 0, at |-> {},
                    ok |-> TRUE]
       /\ callee = [areg |-> p, addr |-> 0, loc |-> -16, params |-> <<>>,
                    image |-> <<>>, ok |-> TRUE]
       /\ abi = [next |-> Start(p[1], p[2]), at |-> {}]
  /\ ap = 0
  /\ fetched = <<>>
  /\ result = NoResult

\* The psABI's assignment of one more argument.
Assigned(t, named) ==
  LET a == Assign(t, named, abi.next)
      k == Len(args) + 1
  IN  [next |-> a.next,
       at |-> abi.at \cup {Put(k, p.where, p.from, p.len) : p \in a.at}]

\* One argument with a parameter.  Of a function with a hidden parameter the
\* loop of gfunc_call, which starts with the hidden argument and the first
\* declared parameter, is out of parameters at the last argument.
NamedArg(t, last) ==
  LET k == Len(args) + 1
      has == ~(sret /\ last)
      c == gfunc_call(k, t, has, caller)
  IN  /\ phase = "named"
      /\ k <= MaxArgs
      /\ Allowed(t, TRUE, has)
      /\ args' = Append(args, [type |-> t, named |-> TRUE])
      /\ caller' = c
      /\ callee' = gfunc_prolog(t, c.at, callee)
      /\ abi' = Assigned(t, TRUE)
      /\ ap' = gen_va_start(gfunc_prolog(t, c.at, callee))
      /\ phase' = IF ~last THEN phase ELSE IF func_var THEN "variadic" ELSE "done"
      /\ UNCHANGED <<func_var, sret, fetched, result>>

\* Without a parameter, an argument has one of the types that the default
\* promotions yield.
Promoted(t) == t.k = "scalar" => t.bt \notin {"char", "short", "float"}

VariadicArg(t) ==
  LET k == Len(args) + 1
  IN  /\ phase = "variadic"
      /\ k <= MaxArgs
      /\ Promoted(t)
      /\ Allowed(t, FALSE, FALSE)
      /\ args' = Append(args, [type |-> t, named |-> FALSE])
      /\ caller' = gfunc_call(k, t, FALSE, caller)
      /\ abi' = Assigned(t, FALSE)
      /\ fetched' = Append(fetched, va_arg(t))
      /\ ap' = va_arg_end(t)
      /\ UNCHANGED <<func_var, sret, phase, callee, result>>

\* A call without further arguments returns a value of type t.
Return(t, place, loc) ==
  /\ phase = "named"
  /\ args = <<>>
  /\ sret <=> t.k # "scalar" /\ gfunc_sret(t).nregs = 0
  /\ KnownResult(t, place, loc) \subseteq Deviations
  /\ result' = ResultOf(t, place, loc)
  /\ phase' = "returned"
  /\ UNCHANGED <<func_var, sret, args, caller, callee, ap, fetched, abi>>

Next ==
  \E t \in Types :
    \/ \E place \in {"local", "global", "pointer"}, loc \in Locs : Return(t, place, loc)
    \/ \E last \in IF sret \/ func_var THEN BOOLEAN ELSE {FALSE} :
         NamedArg(t, last)
    \/ VariadicArg(t)

Spec == Init /\ [][Next]_vars

(***************************************************************************)
(* Properties.                                                             *)
(***************************************************************************)
Named == {k \in DOMAIN args : args[k].named}
Unnamed == DOMAIN args \ Named
Firsts == Cardinality(Named)

\* Byte b of parameter k as the callee reads it.
ParamByte(k, b) ==
  LET p == callee.params[k]
  IN  IF p.home = "local" THEN p.image[b]
      ELSE ByteAt(caller.at, p.addr + b - Shift(callee), Shift(callee))

\* Byte b of the result, as the caller has it: later parts are stored over
\* earlier ones.
ResultByte(b) ==
  LET over == {i \in DOMAIN result.parts :
                 b \in result.parts[i].ofs .. (result.parts[i].ofs + result.parts[i].len - 1)}
      i == CHOOSE j \in over : \A k \in over : k <= j
  IN  IF over = {} THEN Junk
      ELSE ByteOf(Holds(result.at, result.parts[i].where), b - result.parts[i].ofs)

\* Every value arrives: each byte of each parameter is the byte of the argument
\* that the caller passed for it, va_arg yields the address of each of the
\* others, each byte of the result is that of the value returned, and neither
\* side fails one of its assertions.
ValuesArrive ==
  /\ caller.ok /\ callee.ok /\ result.ok
  /\ \A k \in Named : \A b \in Data(args[k].type) : ParamByte(k, b) = <<k, b>>
  /\ \A k \in Unnamed : \A b \in Data(args[k].type) :
       ByteAt(caller.at, fetched[k - Firsts] + b, Shift(callee)) = <<k, b>>
  /\ phase = "returned" => \A b \in Bytes(result.type) : ResultByte(b) = <<0, b>>

\* The caller stores its stack arguments below stack_adj, the area it takes
\* from the stack for them, and none over another: what is behind the area
\* are the copies of structs, then the caller's own locals.  Of a result it
\* stores nothing above the room it takes for it, where its locals are.
InsideArea ==
  LET onStack == {p \in caller.at : p.where[1] = "s"}
      First0(p) == p.where[2]
      Last0(p) == p.where[2] + p.len - 1
  IN  /\ \A p \in onStack :
        /\ Last0(p) < RoundUp(caller.stack_adj, 16)
        /\ \A q \in onStack \ {p} : Last0(p) < First0(q) \/ Last0(q) < First0(p)
      /\ result.type.k # "scalar" =>
           \A i \in DOMAIN result.parts :
             result.room + result.parts[i].ofs + result.parts[i].len <= result.loc

\* Every byte of every argument and of the result is where the psABI has it,
\* and a real is in its register as what it is, so that functions of other
\* compilers can be called and can call.
WhereOf(at, k, b) ==
  {<<p.where[1], IF p.where[1] = "s" THEN p.where[2] + b - p.from ELSE p.where[2],
     IF p.where[1] = "s" THEN 0 ELSE b - p.from>> :
     p \in {q \in at : q.arg = k /\ b \in q.from .. (q.from + q.len - 1)}}

ResultFollowsAbi ==
  LET at == {Put(0, p.where, p.from, p.len) : p \in AssignResult(result.type)}
  IN  /\ sret <=> ByReference(result.type)
      /\ ~sret =>
           /\ \A b \in Data(result.type) : WhereOf(result.at, 0, b) = WhereOf(at, 0, b)
           /\ \A p \in result.at, q \in at :
                p.where = q.where /\ p.where[1] = "f" => p.len = q.len

FollowsAbi ==
  /\ \A k \in DOMAIN args : \A b \in Data(args[k].type) :
       WhereOf(caller.at, k, b) = WhereOf(abi.at, k, b)
  /\ phase = "returned" => ResultFollowsAbi

=============================================================================
