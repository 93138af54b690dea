----------------------------- MODULE RiscvFrame -----------------------------
(***************************************************************************)
(* riscv64-gen.c: the code that load and store make of constants, locals   *)
(* and pointers, and the prologue and epilogue around it, executed by the  *)
(* processor.  An action is one call of the generator together with the    *)
(* run of the instructions it emits, on exact 64-bit words.                *)
(*                                                                         *)
(* Registers are the processor's; x10 up are those that tcc allocates.     *)
(* Floating-point registers carry 32 and their contents are not kept.      *)
(***************************************************************************)
EXTENDS Words, Sequences

CONSTANTS FunctionKinds,  \* names of kinds of functions, for each of which there are
          IntRegs, FloatRegs,  \* tcc's registers that occur, as processor numbers: of
                               \* 10..17 and 42..49
          Frames,     \* sizes of the locals, as loc, below or at -16: of doublewords
          VaRegs,     \* how many registers a variadic function may spill
          Consts,     \* the constants of the program
          Addresses,  \* the constant addresses it accesses
          AbsStores,  \* TRUE where the program stores to constant addresses
          AbsFloats,  \* TRUE where it loads floats from them, or by spilled pointers
          MaxSteps,   \* bound: accesses of the function
          EntrySp     \* the stack pointer at entry, a multiple of 16

\* Offsets in a frame, and the sums of two, are ints.
LargestFrame == 536870912

ASSUME FunctionAssumption ==
    /\ \A p \in FunctionKinds :
        /\ IntRegs[p] \subseteq 10..17 /\ FloatRegs[p] \subseteq 42..49
        /\ \A l \in Frames[p] : l \in Int /\ -LargestFrame < l /\ l <= -16 /\ l % 8 = 0
        /\ VaRegs[p] \subseteq 0..8
        /\ Consts[p] \subseteq SUBSET (0..63) /\ Addresses[p] \subseteq SUBSET (0..63)
        /\ AbsStores[p] \in BOOLEAN /\ AbsFloats[p] \in BOOLEAN
        /\ MaxSteps[p] \in Nat
    /\ EntrySp \subseteq 4..63

ra == 1
sp == 2
t0 == 5
s0 == 8
Regs == {0, ra, sp, t0, s0} \cup 10..17

VARIABLES phase,     \* "entry", "body", "returned"
          reg,       \* the integer registers
          mem,       \* the doublewords of memory that were written
          loc, num_va_regs,
          entry,     \* the registers at entry
          steps,     \* accesses so far
          assert_ok, \* the assertions of EI and ES on their immediates
          last,      \* history: what the last access was to do, and did
          kind    \* of FunctionKinds

frameVars == <<phase, reg, mem, loc, num_va_regs, entry, steps, assert_ok, last, kind>>

W(n) == Word(64, n)
W32(n) == Word(32, n)
Low32(w) == w \cap 0..31

-----------------------------------------------------------------------------
(* The instructions, and the processor S that runs them: its registers, its memory, the *)
(* address it last accessed, and whether every immediate fitted.                        *)

EI(op, rd, rs, imm) == [op |-> op, rd |-> rd, rs |-> rs, rs2 |-> 0, imm |-> imm]
ES(rs, rs2, imm) == [op |-> "s", rd |-> 0, rs |-> rs, rs2 |-> rs2, imm |-> imm]
ER(op, rd, rs, rs2) == [op |-> op, rd |-> rd, rs |-> rs, rs2 |-> rs2, imm |-> {}]
Lui(rd, imm) == EI("lui", rd, 0, imm \cap 12..31)

\* assert(! ((imm + (1 << 11)) >> 12)), for imm of 32 bits.
ImmFits(imm) == Shr(Plus(32, imm, {11}), 12) = {}

ImmediateFits(i) == i.op \notin {"addi", "addiw", "ld", "s"} \/ ImmFits(i.imm)
Address(S, i) == Plus(64, S.reg[i.rs], Sext(64, i.imm, 12))
Store(m, a, v) == [b \in DOMAIN m \cup {a} |-> IF b = a THEN v ELSE m[b]]
StoredValue(S, i) == IF i.rs2 \in Regs THEN S.reg[i.rs2] ELSE {}

\* What goes to rd.
Result(S, i) ==
    CASE i.op = "lui"   -> Sext(64, i.imm, 32)
      [] i.op = "addi"  -> Address(S, i)
      [] i.op = "addiw" -> Sext(64, Address(S, i), 32)
      [] i.op = "slli"  -> Shl(64, S.reg[i.rs], i.rs2)
      [] i.op = "srli"  -> Shr(S.reg[i.rs], i.rs2)
      [] i.op = "add"   -> Plus(64, S.reg[i.rs], S.reg[i.rs2])
      [] i.op = "sub"   -> Minus(64, S.reg[i.rs], S.reg[i.rs2])
      [] i.op = "ld"    -> IF Address(S, i) \in DOMAIN S.mem THEN S.mem[Address(S, i)] ELSE {}

Exec(S, i) ==
    [reg  |-> IF i.op # "s" /\ i.rd \in Regs \ {0} THEN [S.reg EXCEPT ![i.rd] = Result(S, i)]
              ELSE S.reg,
     mem  |-> IF i.op = "s" THEN Store(S.mem, Address(S, i), StoredValue(S, i)) ELSE S.mem,
     addr |-> IF i.op \in {"ld", "s"} THEN Address(S, i) ELSE S.addr,
     ok   |-> S.ok /\ ImmediateFits(i)]

Shift(op, rd, n) == [op |-> op, rd |-> rd, rs |-> rd, rs2 |-> n, imm |-> {}]

Cpu == [reg |-> reg, mem |-> mem, addr |-> {}, ok |-> assert_ok]
RunFrom(S, code) ==
    LET state[n \in 0..Len(code)] == IF n = 0 THEN S ELSE Exec(state[n - 1], code[n])
    IN  state[Len(code)]
Run(code) == RunFrom(Cpu, code)

-----------------------------------------------------------------------------
(* The code sequences.  fc is the low half of a constant c, si the rest. *)

IsInt(r) == r \in 10..17

Fc(c) == Low32(c)
Si(c) == Shr(c, 32)
Lo12(fc) == Sext(32, fc, 12)                \* fc << 20 >> 20
Upper(fc) == Plus(32, {11}, fc) \cap 12..31   \* (0x800 + fc) & 0xfffff000
NeedsLui(fc) == Shr(Plus(32, fc, {11}), 12) # {}

\* Mutant: the upper part of a large constant is not corrected for a negative lower one.
LoadLargeUncorrected(rr, fc, si) ==
    LET lo == Sext(32, fc, 20)
    IN  <<Lui(rr, Upper(si)), EI("addi", rr, rr, Lo12(si)), Shift("slli", rr, 12),
          EI("addi", rr, rr, Sext(32, Shr(Plus(32, fc, {19}), 20), 12)), Shift("slli", rr, 12),
          EI("addi", rr, rr, Sext(32, Shr(lo, 8), 24)), Shift("slli", rr, 8)>>

\* load_large_constant: all but the low 8 bits.
load_large_constant(rr, fc, si) ==
    LET pi == IF 31 \in fc THEN Plus(32, si, {0}) ELSE si
        lo == Sext(32, fc, 20)
    IN  <<Lui(rr, Upper(pi)), EI("addi", rr, rr, Lo12(pi)), Shift("slli", rr, 12),
          EI("addi", rr, rr, Sext(32, Shr(Plus(32, fc, {19}), 20), 12)), Shift("slli", rr, 12),
          EI("addi", rr, rr, Sext(32, Shr(lo, 8), 24)), Shift("slli", rr, 8)>>

\* load_symofs of a local: its base register and its code; the offset left is Lo12(fc).
\* Mutant: a0 serves where there is no integer register to load.
LocalBaseInA0(r, fc) == IF ~NeedsLui(fc) THEN s0 ELSE IF IsInt(r) THEN r ELSE 10

LocalBase(r, fc) == IF ~NeedsLui(fc) THEN s0 ELSE IF IsInt(r) THEN r ELSE t0

LocalCode(r, fc) ==
    LET rr == LocalBase(r, fc)
    IN  IF NeedsLui(fc) THEN <<Lui(rr, Upper(fc)), ER("add", rr, rr, s0)>> ELSE <<>>

\* The number that an instruction has for r, an integer register or a float one.
Number(r) == IF IsInt(r) THEN r ELSE r - 32

\* An absolute address in register br, and the offset that is left.
AbsCode(br, c) ==
    IF Si(c) # {} THEN load_large_constant(br, Fc(c), Si(c)) ELSE <<Lui(br, Upper(Fc(c)))>>

AbsOffset(c) == IF Si(c) # {} THEN c \cap 0..7 ELSE Lo12(Fc(c))

\* load of a constant that is no symbol; llong where its type has 64 bits.
LoadImm(r, c, llong) ==
    LET fc == Fc(c)
        short == c = Sext(64, fc, 32)
        large == ~short /\ Si(c) # {}
        zext == ~short /\ ~large /\ llong
        rest == IF large THEN c \cap 0..7 ELSE fc
    IN  (IF large THEN load_large_constant(r, fc, Si(c)) ELSE <<>>)
        \o (IF NeedsLui(rest) THEN <<Lui(r, Upper(rest))>> ELSE <<>>)
        \o (IF rest # {} \/ ~large
            THEN <<EI(IF large THEN "addi" ELSE "addiw", r,
                      IF large \/ NeedsLui(rest) THEN r ELSE 0, Lo12(rest))>>
            ELSE <<>>)
        \o (IF zext THEN <<Shift("slli", r, 32), Shift("srli", r, 32)>> ELSE <<>>)

-----------------------------------------------------------------------------
(* The frame *)

\* gfunc_epilog: the frame's size v, in one step of d or in two.
FrameSize(l, nv) == ((nv * 8 - l + 15) \div 16) * 16

TwoSteps(v) == v >= 2048
d(l, nv) == IF TwoSteps(FrameSize(l, nv)) THEN 16 ELSE FrameSize(l, nv)

\* Where s0 is, from the stack pointer after the first step.
FrameBase(l, nv) == d(l, nv) - nv * 8

\* t0 gets the second step.
SecondStep(v) == <<Lui(t0, Upper(W32(v - 16))), EI("addi", t0, t0, Lo12(W32(v - 16)))>>

Prologue(l, nv) ==
    LET v == FrameSize(l, nv)
    IN  <<EI("addi", sp, sp, W32(-d(l, nv))),
          ES(sp, ra, W32(FrameBase(l, nv) - 8)),
          ES(sp, s0, W32(FrameBase(l, nv) - 16)),
          EI("addi", s0, sp, W32(FrameBase(l, nv)))>>
        \o (IF TwoSteps(v) THEN SecondStep(v) \o <<ER("sub", sp, sp, t0)>> ELSE <<>>)

\* gfunc_prolog of a variadic function: the registers that are left are spilled.
SpillVa(nv) == [k \in 1..nv |-> ES(s0, 18 - nv + k - 1, W32(-8 + k * 8))]

\* Mutant: the second step is not taken back.
EpilogueOneStep(l, nv) ==
    <<EI("ld", ra, sp, W32(FrameBase(l, nv) - 8)), EI("ld", s0, sp, W32(FrameBase(l, nv) - 16)),
      EI("addi", sp, sp, W32(d(l, nv)))>>

Epilogue(l, nv) ==
    LET v == FrameSize(l, nv)
    IN  (IF TwoSteps(v) THEN SecondStep(v) \o <<ER("add", sp, sp, t0)>> ELSE <<>>)
        \o <<EI("ld", ra, sp, W32(FrameBase(l, nv) - 8)),
             EI("ld", s0, sp, W32(FrameBase(l, nv) - 16)),
             EI("addi", sp, sp, W32(d(l, nv)))>>

-----------------------------------------------------------------------------
(* The actions *)

Enter ==
    /\ phase = "entry"
    /\ LET S == Run(Prologue(loc, num_va_regs) \o SpillVa(num_va_regs))
       IN  reg' = S.reg /\ mem' = S.mem /\ assert_ok' = S.ok
    /\ phase' = "body"
    /\ UNCHANGED <<loc, num_va_regs, entry, steps, last, kind>>

\* The generator emits code and the processor runs it: to change the register target (0:
\* none), by accessing the address want ({}: none), to leave the value there (0: unknown).
Access(S, target, want, value) ==
    /\ phase = "body" /\ steps < MaxSteps[kind]
    /\ reg' = S.reg /\ mem' = S.mem /\ assert_ok' = S.ok
    /\ last' = [target |-> target, want |-> want, addr |-> S.addr, value |-> value]
    /\ steps' = steps + 1
    /\ UNCHANGED <<phase, loc, num_va_regs, entry, kind>>

\* The frame's base, as the language's locals have it.
FramePointer == Minus(64, entry[sp], Bits(num_va_regs * 8))
LocalAt(off) == Plus(64, FramePointer, W(off))
Locals == {loc, loc + 8, -24} \cap loc..-17

Target(r) == IF IsInt(r) THEN r ELSE 0
Unknown == [known |-> FALSE, w |-> {}]
Known(w) == [known |-> TRUE, w |-> w]

\* A number of 64 bits, or a pointer.
\* Where a value goes whose address is a constant or a spilled pointer.
AddressRegs == IntRegs[kind] \cup (IF AbsFloats[kind] THEN FloatRegs[kind] ELSE {})

LoadConst ==
    \E r \in IntRegs[kind] :
       \/ \E c \in Consts[kind] : Access(Run(LoadImm(r, c, TRUE)), r, {}, Known(c))
       \/ \E c \in Addresses[kind] : Access(Run(LoadImm(r, c, FALSE)), r, {}, Known(c))

LoadLocal ==
    \E r \in IntRegs[kind] \cup FloatRegs[kind], off \in Locals :
       LET fc == W32(off)
       IN  Access(Run(LocalCode(r, fc) \o <<EI("ld", r, LocalBase(r, fc), Lo12(fc))>>),
                  Target(r), LocalAt(off), Unknown)

AddressOfLocal ==
    \E r \in IntRegs[kind], off \in Locals :
       LET fc == W32(off)
       IN  Access(Run(LocalCode(r, fc) \o <<EI("addi", r, LocalBase(r, fc), Lo12(fc))>>),
                  r, {}, Known(LocalAt(off)))

\* VT_LLOCAL: the pointer is in a local.
LoadSpilled ==
    \E r \in AddressRegs, off \in Locals, p \in Addresses[kind] :
       LET fc == W32(off)
           spilled == [Cpu EXCEPT !.mem = Store(@, LocalAt(off), p)]
           code == LocalCode(r, fc) \o <<EI("ld", Number(r), LocalBase(r, fc), Lo12(fc)),
                                         EI("ld", r, Number(r), {})>>
       IN  Access(RunFrom(spilled, code), Target(r), p, Unknown)

\* The pointer is in a register.
LoadByRegister ==
    \E r \in IntRegs[kind] \cup FloatRegs[kind], v \in IntRegs[kind] :
       Access(Run(<<EI("ld", r, v, {})>>), Target(r), reg[v], Unknown)

LoadAbsolute ==
    \E r \in AddressRegs, c \in Addresses[kind] :
       Access(Run(AbsCode(Number(r), c) \o <<EI("ld", r, Number(r), AbsOffset(c))>>),
              Target(r), c, Unknown)

StoreLocal ==
    \E r \in IntRegs[kind] \cup FloatRegs[kind], off \in Locals :
       LET fc == W32(off)
       IN  Access(Run(LocalCode(0, fc) \o <<ES(LocalBase(0, fc), r, Lo12(fc))>>),
                  0, LocalAt(off), Unknown)

StoreByRegister ==
    \E r \in IntRegs[kind] \cup FloatRegs[kind], v \in IntRegs[kind] :
       Access(Run(<<ES(v, r, {})>>), 0, reg[v], Unknown)

\* The address is formed in s0.
StoreAbsolute ==
    /\ AbsStores[kind]
    /\ \E r \in IntRegs[kind] \cup FloatRegs[kind], c \in Addresses[kind] :
          Access(Run(AbsCode(s0, c) \o <<ES(s0, r, AbsOffset(c))>>), 0, c, Unknown)

Leave ==
    /\ phase = "body"
    /\ LET S == Run(Epilogue(loc, num_va_regs))
       IN  reg' = S.reg /\ mem' = S.mem /\ assert_ok' = S.ok
    /\ phase' = "returned"
    /\ UNCHANGED <<loc, num_va_regs, entry, steps, last, kind>>

FrameInit ==
    /\ kind \in FunctionKinds
    /\ phase = "entry" /\ steps = 0 /\ assert_ok = TRUE
    /\ loc \in Frames[kind] /\ num_va_regs \in VaRegs[kind]
    /\ reg = [r \in Regs |-> CASE r = 0 -> {} [] r = sp -> EntrySp [] OTHER -> {r, 40}]
    /\ entry = reg
    /\ mem = <<>>
    /\ last = [target |-> 0, want |-> {}, addr |-> {}, value |-> Unknown]

FrameNext ==
    \/ Enter \/ LoadConst \/ LoadLocal \/ AddressOfLocal \/ LoadSpilled \/ LoadByRegister
    \/ LoadAbsolute \/ StoreLocal \/ StoreByRegister \/ StoreAbsolute \/ Leave

FrameSpec == FrameInit /\ [][FrameNext]_frameVars

-----------------------------------------------------------------------------
(* Constants that are not loaded as they are *)

\* What tcc loads wrongly: a word of 16#7ff80000 to 16#7fffffff below one that is not zero.
Misloaded(c) == 19..30 \subseteq c /\ 31 \notin c /\ Si(c) # {}

\* The addresses that it sign-extends: 16#7ffff800 to 16#ffffffff.
Misplaced(c) == Si(c) = {} /\ (31 \in c \/ 11..30 \subseteq c)

\* The constants of programs that are free of both, and of accesses after s0 has been lost
\* to a store to a constant address.
RightConstants ==
    \A p \in FunctionKinds :
        /\ \A c \in Consts[p] \cup Addresses[p] : ~Misloaded(c)
        /\ \A c \in Addresses[p] : ~Misplaced(c)
        /\ AbsStores[p] => MaxSteps[p] <= 1

-----------------------------------------------------------------------------
(* Properties *)

\* The processor accesses the address the program means, a constant or an address is
\* loaded as it is, and every immediate fits its instruction (assert in EI and ES).
MeansWhatItSays ==
    /\ assert_ok
    /\ last.addr = last.want
    /\ last.value.known /\ phase = "body" => reg[last.target] = last.value.w

\* Code for one value leaves the registers of all others alone: those that tcc allocates,
\* the return address, the stack pointer and the frame base.
OthersKept ==
    [][phase = "body" /\ phase' = "body" =>
         \A r \in {ra, sp, s0} \cup 10..17 : r # last'.target => reg'[r] = reg[r]]_frameVars

\* The same where no float is loaded by an address that has to be formed first, and
\* nothing is stored to a constant address.
OthersMostlyKept ==
    [][phase = "body" /\ phase' = "body" /\ ~AbsStores[kind] /\ ~AbsFloats[kind] =>
         \A r \in {ra, sp, s0} \cup 10..17 : r # last'.target => reg'[r] = reg[r]]_frameVars

\* The frame holds from the prologue to the return, whatever its size and the registers it
\* spills: s0 is the base of the locals (load_symofs), stores to constant addresses apart;
\* the stack pointer is a multiple of 16 whenever a call can happen, as the calling
\* convention wants it; no local lies below it, where an interrupt or a call would overwrite
\* it, nor on the saved registers; and the caller gets its stack pointer and frame base back.
FrameKept ==
    /\ phase = "body" /\ ~AbsStores[kind] => reg[s0] = FramePointer
    /\ phase \in {"body", "returned"} => reg[sp] \cap 0..3 = {}
    /\ phase = "body" =>
           \A off \in Locals :
               LET above == Minus(64, LocalAt(off), reg[sp])
               IN  63 \notin above /\ off <= -24
    /\ phase = "returned" => \A r \in {ra, sp, s0} : reg[r] = entry[r]
=============================================================================
