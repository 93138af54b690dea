------------------------------ MODULE RiscvAbi ------------------------------
(***************************************************************************)
(* Types as far as the passing of arguments tells them apart, and where    *)
(* the RISC-V psABI (LP64D) puts an argument.  This is what RiscvCalls is  *)
(* compared with; it has nothing of the code.                              *)
(*                                                                         *)
(* A type has a kind k, a size and an alignment; a scalar also its basic   *)
(* type, a struct or union its members (an offset and a type each), and an *)
(* array its element type and length.                                      *)
(***************************************************************************)
EXTENDS Integers, Sequences

XLEN == 8

Floats == {"float", "double", "ldouble"}

\* The leaves of a type, with their offsets.
RECURSIVE Leaves(_, _)
RECURSIVE MemberLeaves(_, _, _)
Leaves(t, ofs) ==
  CASE t.k = "scalar" -> <<[ofs |-> ofs, bt |-> t.bt, size |-> t.size]>>
    [] t.k \in {"struct", "union"} -> MemberLeaves(t.members, 1, ofs)
    [] t.k = "array" ->
         MemberLeaves([i \in 1..t.n |-> [ofs |-> (i - 1) * t.of.size,
                                         type |-> t.of]], 1, ofs)
MemberLeaves(ms, i, ofs) ==
  IF i > Len(ms) THEN <<>>
  ELSE Leaves(ms[i].type, ofs + ms[i].ofs) \o MemberLeaves(ms, i + 1, ofs)

RECURSIVE HasUnion(_)
HasUnion(t) ==
  CASE t.k = "scalar" -> FALSE
    [] t.k = "union"  -> TRUE
    [] t.k = "struct" -> \E i \in DOMAIN t.members : HasUnion(t.members[i].type)
    [] t.k = "array"  -> HasUnion(t.of)

\* The bytes of an argument that carry a value; an argument of more than two
\* words is passed as the address of a copy, eight bytes.
ByReference(t) == t.size > 2 * XLEN
Bytes(t) ==
  LET ls == Leaves(t, 0)
  IN  UNION {ls[i].ofs .. (ls[i].ofs + ls[i].size - 1) : i \in DOMAIN ls}
Data(t) == IF ByReference(t) THEN 0..7 ELSE Bytes(t)

\* The hardware floating-point convention: one real, two reals, or a real and
\* an integer, named, and each in a register of its own.
HardFloat(t, named) ==
  LET ls == Leaves(t, 0)
      Is(i) == ls[i].bt \in {"float", "double"}
  IN  /\ named /\ ~ByReference(t) /\ ~HasUnion(t)
      /\ \A i \in DOMAIN ls : ls[i].bt # "ldouble"
      /\ \/ Len(ls) = 1 /\ Is(1)
         \/ Len(ls) = 2 /\ (Is(1) \/ Is(2))

\* How many argument registers of each kind are taken, and the bytes of the
\* stack.
Start(ints, floats) == [x |-> ints, f |-> floats, nsaa |-> 0]

Even(n) == n + (n % 2)
AlignTo(n, align) == ((n + align - 1) \div align) * align

\* An argument under the hardware floating-point convention: its leaves in
\* registers.
FloatRegisters(t, s) ==
  LET ls == Leaves(t, 0)
      Real(i) == ls[i].bt \in Floats
      \* the register number of leaf i
      N(i) == IF i = 2 /\ Real(1) = Real(2) THEN 1 ELSE 0
  IN  {[where |-> IF Real(i) THEN <<"f", s.f + N(i)>> ELSE <<"x", s.x + N(i)>>,
        from |-> ls[i].ofs, len |-> ls[i].size] : i \in DOMAIN ls}

FloatsNeeded(t) ==
  LET ls == Leaves(t, 0)
  IN  IF Len(ls) = 2 /\ ls[1].bt \in Floats /\ ls[2].bt \in Floats THEN 2 ELSE 1
IntsNeeded(t) == Len(Leaves(t, 0)) - FloatsNeeded(t)

\* Whether the hardware floating-point convention applies in state s.
UsesFloats(t, named, s) ==
  /\ HardFloat(t, named)
  /\ s.f + FloatsNeeded(t) <= 8
  /\ s.x + IntsNeeded(t) <= 8

\* The integer convention.
Size(t) == IF ByReference(t) THEN XLEN ELSE t.size
Align(t) == IF ByReference(t) THEN XLEN ELSE IF t.align < XLEN THEN XLEN ELSE t.align
First(t, named, s) ==
  IF ~named /\ Align(t) = 2 * XLEN THEN Even(s.x) ELSE s.x

Piece(kind, n, from, len) == [where |-> <<kind, n>>, from |-> from, len |-> len]

IntegerRegisters(t, named, s) ==
  LET x == First(t, named, s)
      words == (Size(t) + XLEN - 1) \div XLEN
      at == AlignTo(s.nsaa, Align(t))
  IN  CASE words = 0 -> [at |-> {}, next |-> s]
        [] x >= 8 -> [at |-> {Piece("s", at, 0, Size(t))},
                      next |-> [s EXCEPT !.x = 8, !.nsaa = at + words * XLEN]]
        [] words = 1 -> [at |-> {Piece("x", x, 0, 8)},
                         next |-> [s EXCEPT !.x = x + 1]]
        [] words = 2 /\ x < 7 ->
             [at |-> {Piece("x", x, 0, 8), Piece("x", x + 1, 8, 8)},
              next |-> [s EXCEPT !.x = x + 2]]
        [] words = 2 /\ x = 7 ->
             [at |-> {Piece("x", x, 0, 8),
                      Piece("s", AlignTo(s.nsaa, XLEN), 8, 8)},
              next |-> [s EXCEPT !.x = 8, !.nsaa = AlignTo(@, XLEN) + XLEN]]

\* Where argument t goes after s, and what is taken then.
Assign(t, named, s) ==
  IF UsesFloats(t, named, s)
  THEN [at |-> FloatRegisters(t, s),
        next |-> [s EXCEPT !.f = @ + FloatsNeeded(t), !.x = @ + IntsNeeded(t)]]
  ELSE IntegerRegisters(t, named, s)

\* A result is where a first named argument would be.
AssignResult(t) == Assign(t, TRUE, Start(0, 0)).at

=============================================================================
