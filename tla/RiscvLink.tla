----------------------------- MODULE RiscvLink ------------------------------
(***************************************************************************)
(* riscv64-link.c: the PLT gets its addresses, and the relocations of a    *)
(* section are applied one after the other.  The relocations come from     *)
(* tcc's code generator, which puts the two halves of a pc-relative access *)
(* next to each other, or from an object file, in any order.  In dynamic   *)
(* output a pointer leaves a relocation for the loader.                    *)
(*                                                                         *)
(* A relocation has a slot of two words for its own, instructions or data; *)
(* only the two halves of a difference share one.  There are 64-bit        *)
(* addresses, as words of module Words.                                    *)
(***************************************************************************)
EXTENDS RiscvIsa, Sequences, SequencesExt, FiniteSets

CONSTANTS Programs,     \* names of programs, for each of which there are
          Types,        \* the types of relocations
          Dynamic,      \* those of them that are dynamic output, at address 0
          Targets,      \* the addresses that symbols may have
          NearTargets,  \* those in the output itself: functions, PLT and GOT entries
          OldWords,     \* what a word may hold before it is relocated
          Addends,      \* of the pointers
          Base,         \* the address the loader chooses for the output
          Elsewhere,    \* and that of a symbol of another object
          Gots,         \* the addresses the GOT may have
          MaxRelocs,    \* bound: relocations
          Text, Plt,    \* the addresses of the section and of the PLT
          PltEntries    \* bound: entries of the PLT

JumpTypes == {"BRANCH", "JAL", "CALL", "RVC_BRANCH", "RVC_JUMP"}
HiTypes == {"PCREL_HI20", "GOT_HI20"}
LoTypes == {"PCREL_LO12_I", "PCREL_LO12_S"}
PointerTypes == {"32", "64", "JUMP_SLOT"}
AddTypes == {"ADD64", "ADD32", "ADD16", "SET6"}
SubTypes == {"SUB64", "SUB32", "SUB16", "SUB6"}
DataTypes == PointerTypes \cup AddTypes \cup SubTypes

ASSUME ProgramAssumption ==
    \A p \in Programs :
        /\ Types[p] \subseteq JumpTypes \cup HiTypes \cup LoTypes \cup DataTypes
        /\ NearTargets[p] \subseteq Targets[p]
        /\ MaxRelocs[p] \in Nat
ASSUME DynamicAssumption ==
    Dynamic \subseteq Programs /\ \A p \in Dynamic : Types[p] \cap PointerTypes \subseteq {"64"}
ASSUME BoundAssumption == PltEntries \in Nat
ASSUME WordAssumption ==
    /\ \A p \in Programs : Targets[p] \subseteq SUBSET (0..63) /\ OldWords[p] \subseteq SUBSET (0..31)
    /\ \A p \in Programs : Gots[p] \subseteq SUBSET (0..63)
    /\ Addends \subseteq SUBSET (0..63)
    /\ {Base, Elsewhere, Text, Plt} \subseteq SUBSET (0..63)

VARIABLES relocs,    \* the relocations: type, the slot, val (symbol plus addend), the addend,
                     \* and whether the symbol is one of dynsym
          insn,      \* the words of their slots
          applied,   \* how many are done
          last_hi,   \* addr and val of the last HI20
          plt,       \* the words of the PLT once it is relocated
          got,       \* the address of the GOT
          qrel,      \* the relocations that remain for the loader
          loaded,    \* how many of them it has done
          failed,    \* tcc_error
          program    \* of Programs

vars == <<relocs, insn, applied, last_hi, plt, got, qrel, loaded, failed, program>>

\* The address of slot i, and the addresses that two entries of PLT and GOT have.
Addr(i) == Plus(64, Text, Bits(8 * i))
PltAddr(k) == Plus(64, Plt, Bits(IF k = 0 THEN 0 ELSE 16 + 16 * k))
GotAddr(k) == Plus(64, got, Bits(8 * k))

\* A section is shorter than 2 GiB and has nothing at address 0.
ASSUME SectionAssumption ==
    \A p \in Programs : MaxRelocs[p] < 2^28 /\ \A i \in 1..MaxRelocs[p] : Addr(i) # {}

-----------------------------------------------------------------------------
(* The range checks: what is left of off + 2^(n-1) beyond n bits. *)

\* 0x800
Round == {11}

FitsIn(n, off) == Plus(64, off, {n - 1}) \ 1..n - 1 = {}

\* (off + 0x800) >> 12 of a signed and of an unsigned number.
PageOf(off) == Sext(64, Shr(Plus(64, off, Round), 12), 52)
PageOfUnsigned(off) == Shr(Plus(64, off, Round), 12)

PageFits(page) == Shr(Plus(64, page, {20}), 21) = {}

\* Mutant: the rest of the instruction is lost.
PutOver(word, field, imm) == imm

\* The instruction word with its immediate replaced.
Put(word, field, imm) == (word \ field) \cup imm

Hi20(word, page) == Put(word, 12..31, Shl(32, page \cap 0..19, 12))
Lo12_I(word, off) == Put(word, 20..31, Shl(32, off \cap 0..11, 20))
Lo12_S(word, off) == Put(word, 7..11 \cup 25..31,
                         Shl(32, off \cap 5..11, 20) \cup Shl(32, off \cap 0..4, 7))

\* A slot as one word of 64 bits, and back.
Datum(w) == w[1] \cup Shl(64, w[2], 32)
Halves(d) == <<d \cap 0..31, Shr(d, 32)>>

Width(t) ==
    CASE t \in {"64", "JUMP_SLOT", "ADD64", "SUB64"} -> 64
      [] t \in {"32", "ADD32", "SUB32"} -> 32
      [] t \in {"ADD16", "SUB16"} -> 16
      [] t \in {"SET6", "SUB6"} -> 6

\* What a data relocation puts in its field, of the width of its type.
Stored(t, old, val) ==
    CASE t = "SET6" -> val
      [] t \in SubTypes -> Minus(Width(t), old, val)
      [] OTHER -> Plus(Width(t), old, val)

\* Bits lo..hi of off, at position at.
At(off, lo, hi, at) == Piece(off, lo, hi, at)

-----------------------------------------------------------------------------
(* relocate: what one relocation makes of its two words w at address addr. *)

Off(r, addr) == Minus(64, r.val, addr)

\* Mutant: a LO12 takes the last HI20 for its own.
FitsAnyHi(r, addr) ==
    LET off == Off(r, addr)
    IN  r.type \in HiTypes => PageFits(PageOf(off))

Fits(r, addr) ==
    LET off == Off(r, addr)
    IN  CASE r.type = "BRANCH"     -> FitsIn(13, off)
          [] r.type = "JAL"        -> FitsIn(22, off)
          [] r.type = "RVC_BRANCH" -> FitsIn(9, off)
          [] r.type = "RVC_JUMP"   -> FitsIn(12, off)
          [] r.type \in HiTypes    -> PageFits(PageOf(off))
          [] r.type \in LoTypes    -> r.val = last_hi.addr
          [] r.type \in {"CALL"} \cup DataTypes -> TRUE

Scatter(r, w, addr) ==
    LET off == Off(r, addr)
        hi_lo == Minus(64, last_hi.val, last_hi.addr)
    IN  CASE r.type = "BRANCH" ->
               <<Put(w[1], 7..11 \cup 25..31, At(off, 12, 12, 31) \cup At(off, 5, 10, 25)
                               \cup At(off, 1, 4, 8) \cup At(off, 11, 11, 7)), w[2]>>
          [] r.type = "JAL" ->
               <<Put(w[1], 12..31, At(off, 12, 19, 12) \cup At(off, 11, 11, 20)
                               \cup At(off, 1, 10, 21) \cup At(off, 20, 20, 31)), w[2]>>
          [] r.type = "RVC_BRANCH" ->
               <<Put(w[1], 2..6 \cup 10..12, At(off, 5, 5, 2) \cup At(off, 1, 2, 3)
                     \cup At(off, 6, 7, 5) \cup At(off, 3, 4, 10) \cup At(off, 8, 8, 12)), w[2]>>
          [] r.type = "RVC_JUMP" ->
               <<Put(w[1], 2..12, At(off, 5, 5, 2) \cup At(off, 1, 3, 3) \cup At(off, 7, 7, 6)
                     \cup At(off, 6, 6, 7) \cup At(off, 10, 10, 8) \cup At(off, 8, 9, 9)
                     \cup At(off, 4, 4, 11) \cup At(off, 11, 11, 12)), w[2]>>
          [] r.type = "CALL" -> <<Hi20(w[1], PageOf(off)), Lo12_I(w[2], off)>>
          [] r.type \in HiTypes -> <<Hi20(w[1], PageOf(off)), w[2]>>
          [] r.type = "PCREL_LO12_I" -> <<Lo12_I(w[1], hi_lo), w[2]>>
          [] r.type = "PCREL_LO12_S" -> <<Lo12_S(w[1], hi_lo), w[2]>>
          [] r.type \in DataTypes ->
               LET field == 0..Width(r.type) - 1
               IN  Halves(Put(Datum(w), field,
                              Stored(r.type, Datum(w) \cap field, r.val \cap field)))

\* A pointer to a symbol of dynsym is left to the loader.
LeftToLoader(r) == r.type = "64" /\ program \in Dynamic /\ r.dyn

\* The relocations that remain: those of pointers, by symbol or relative to the base.
QrelAfter(r, w) ==
    IF r.type # "64" \/ program \notin Dynamic THEN qrel
    ELSE Append(qrel, IF r.dyn
                      THEN [type |-> "64", at |-> r.at, addend |-> r.addend]
                      ELSE [type |-> "RELATIVE", at |-> r.at,
                            addend |-> Plus(64, Datum(w), r.val)])

\* Mutant: an access through the GOT is not remembered.
HiAfterPcrel(r, addr) ==
    IF r.type = "PCREL_HI20" THEN [addr |-> addr, val |-> r.val] ELSE last_hi

HiAfter(r, addr) ==
    IF r.type \in HiTypes THEN [addr |-> addr, val |-> r.val] ELSE last_hi

-----------------------------------------------------------------------------
(* The actions *)

\* A relocation with a slot for its own.
New(t, val) ==
    [type |-> t, at |-> Len(relocs) + 1, val |-> val, addend |-> {}, dyn |-> FALSE]

\* greloca of a jump or call, by the code generator, the assembler or an object file.
EmitJump ==
    /\ Len(relocs) < MaxRelocs[program] /\ applied = 0 /\ plt = <<>>
    /\ \E t \in Types[program] \cap JumpTypes, w1, w2 \in OldWords[program] :
       \E val \in IF t = "CALL" THEN NearTargets[program] ELSE Targets[program] :
          /\ relocs' = Append(relocs, New(t, val))
          /\ insn' = Append(insn, <<w1, w2>>)
    /\ UNCHANGED <<applied, last_hi, plt, got, qrel, loaded, failed, program>>

\* load_symofs, store: an access of the code generator, the two halves together; the
\* label of the second is the address of the first.  A GOT entry is in the output.
EmitAccess ==
    /\ Len(relocs) + 1 < MaxRelocs[program] /\ applied = 0 /\ plt = <<>>
    /\ \E hi \in Types[program] \cap HiTypes, lo \in Types[program] \cap LoTypes, w \in OldWords[program] :
       \E val \in IF hi = "GOT_HI20" THEN NearTargets[program] ELSE Targets[program] :
          /\ relocs' = relocs \o <<New(hi, val),
                                   [type |-> lo, at |-> Len(relocs) + 2, dyn |-> FALSE,
                                    val |-> Addr(Len(relocs) + 1), addend |-> {}]>>
          /\ insn' = insn \o <<<<w, w>>, <<w, w>>>>
    /\ UNCHANGED <<applied, last_hi, plt, got, qrel, loaded, failed, program>>

\* A relocation of an object file: either half, the label being that of any HI20.
EmitForeign ==
    /\ Len(relocs) < MaxRelocs[program] /\ applied = 0 /\ plt = <<>>
    /\ \E t \in Types[program] \cap (HiTypes \cup LoTypes), w \in OldWords[program] :
       \E val \in IF t \in HiTypes THEN NearTargets[program]
                  ELSE {Addr(i) : i \in {j \in DOMAIN relocs : relocs[j].type \in HiTypes}} :
          /\ relocs' = Append(relocs, New(t, val))
          /\ insn' = Append(insn, <<w, w>>)
    /\ UNCHANGED <<applied, last_hi, plt, got, qrel, loaded, failed, program>>

\* init_putv: a pointer in an initializer, or an entry of the GOT.  The word is zero, the
\* addend is in the relocation; a symbol of dynsym may be defined here or not.
EmitPointer ==
    /\ Len(relocs) < MaxRelocs[program] /\ applied = 0 /\ plt = <<>>
    /\ \E t \in Types[program] \cap PointerTypes, a \in Addends :
       \E sym \in Targets[program] \cup IF program \in Dynamic THEN {{}} ELSE {} :
       \E dyn \in {d \in BOOLEAN : (d => program \in Dynamic) /\ (sym = {} => d)} :
          /\ relocs' = Append(relocs, [type |-> t, at |-> Len(relocs) + 1, dyn |-> dyn,
                                       val |-> Plus(64, sym, a), addend |-> a])
          /\ insn' = Append(insn, <<{}, {}>>)
    /\ UNCHANGED <<applied, last_hi, plt, got, qrel, loaded, failed, program>>

\* The difference of two symbols in the data of an object file, as a relocation that adds
\* and one that subtracts.  Its field is zero; what is around it is not.
EmitDifference ==
    /\ Len(relocs) + 1 < MaxRelocs[program] /\ applied = 0 /\ plt = <<>>
    /\ \E add \in Types[program] \cap AddTypes, sub \in Types[program] \cap SubTypes,
          w \in OldWords[program], to \in Targets[program], from \in Targets[program] :
          /\ Width(add) = Width(sub)
          /\ relocs' = relocs \o <<New(add, to), New(sub, from)>>
          /\ insn' = insn \o <<Halves(Datum(<<w, w>>) \ 0..Width(add) - 1), <<{}, {}>>>>
    /\ UNCHANGED <<applied, last_hi, plt, got, qrel, loaded, failed, program>>

\* relocate_plt: the first entry, which finds the dynamic linker, and one for each
\* function.  Its offsets are unsigned.
PltWords(k) ==
    LET off == Minus(64, GotAddr(k), PltAddr(k))
    IN  <<Hi20({}, PageOfUnsigned(off)), Lo12_I({}, off)>>

PltFits(k) == PageFits(PageOfUnsigned(Minus(64, GotAddr(k), PltAddr(k))))

RelocatePlt ==
    /\ plt = <<>> /\ applied = 0 /\ ~failed
    /\ IF \A k \in 0..PltEntries : PltFits(k)
       THEN plt' = [k \in 1..PltEntries + 1 |-> PltWords(k - 1)] /\ UNCHANGED failed
       ELSE failed' = TRUE /\ UNCHANGED plt
    /\ UNCHANGED <<relocs, insn, applied, last_hi, got, qrel, loaded, program>>

\* relocate_section: the next relocation.
Relocate ==
    /\ plt # <<>> /\ applied < Len(relocs) /\ ~failed
    /\ LET i == applied + 1
           r == relocs[i]
       IN  IF Fits(r, Addr(i))
           THEN /\ insn' = IF LeftToLoader(r) THEN insn
                           ELSE [insn EXCEPT ![r.at] = Scatter(r, @, Addr(r.at))]
                /\ qrel' = QrelAfter(r, insn[r.at])
                /\ last_hi' = HiAfter(r, Addr(r.at))
                /\ applied' = i /\ UNCHANGED failed
           ELSE failed' = TRUE /\ UNCHANGED <<insn, applied, last_hi, qrel>>
    /\ UNCHANGED <<relocs, plt, got, loaded, program>>

\* The dynamic loader: the output is at Base, and the symbols of dynsym are those of
\* another object.
Load ==
    /\ applied = Len(relocs) /\ loaded < Len(qrel)
    /\ LET q == qrel[loaded + 1]
       IN  insn' = [insn EXCEPT ![q.at] = Halves(Plus(64, q.addend,
                        IF q.type = "RELATIVE" THEN Base ELSE Elsewhere))]
    /\ loaded' = loaded + 1
    /\ UNCHANGED <<relocs, applied, last_hi, plt, got, qrel, failed, program>>

Init ==
    /\ program \in Programs
    /\ relocs = <<>> /\ insn = <<>> /\ applied = 0
    /\ last_hi = [addr |-> {}, val |-> {}]
    /\ plt = <<>> /\ got \in Gots[program]
    /\ qrel = <<>> /\ loaded = 0
    /\ failed = FALSE

Next ==
    \/ EmitJump \/ EmitAccess \/ EmitForeign \/ EmitPointer \/ EmitDifference
    \/ RelocatePlt \/ Relocate \/ Load

Spec == Init /\ [][Next]_vars

-----------------------------------------------------------------------------
(* Properties *)

\* What a signed immediate of n bits can hold.
InReach(n, off) == off = Sext(64, off, n) /\ 0 \notin off

\* No distance is one of those that a range check lets pass and its immediate cannot hold:
\* 1 to 2 MiB for R_RISCV_JAL, and 2 to 4 GiB for the upper half of an address.
NoGap ==
    LET InPage(off) == PageOf(off) = Sext(64, PageOf(off), 20)
    IN  \A p \in Programs :
          /\ \A i \in 1..MaxRelocs[p], val \in Targets[p] :
                LET off == Minus(64, val, Addr(i))
                IN  /\ "JAL" \in Types[p] /\ FitsIn(22, off) => InReach(21, off)
                    /\ HiTypes \cap Types[p] # {} /\ PageFits(PageOf(off)) => InPage(off)
          /\ \A i \in 1..MaxRelocs[p], val \in NearTargets[p] :
                "CALL" \in Types[p] => InPage(Minus(64, val, Addr(i)))
          /\ \A g \in Gots[p], k \in 0..PltEntries :
                LET page == PageOfUnsigned(Minus(64, Plus(64, g, Bits(8 * k)), PltAddr(k)))
                IN  PageFits(page) => 19 \notin page

\* The slot of the HI20 that the LO12 in slot i refers to.
HiOf(i) == CHOOSE h \in DOMAIN relocs : Addr(h) = relocs[i].val

\* Where the processor goes, what address it forms, or what it finds in the data, at slot i.
Reached(i) ==
    LET t == relocs[i].type
        From(imm) == Plus(64, Addr(i), imm)
    IN  CASE t = "BRANCH"     -> From(ImmB(insn[i][1]))
          [] t = "JAL"        -> From(ImmJ(insn[i][1]))
          [] t = "RVC_BRANCH" -> From(ImmCB(insn[i][1]))
          [] t = "RVC_JUMP"   -> From(ImmCJ(insn[i][1]))
          [] t = "CALL"       -> Plus(64, From(ImmU(insn[i][1])), ImmI(insn[i][2]))
          [] t = "PCREL_LO12_I" ->
               Plus(64, Plus(64, Addr(HiOf(i)), ImmU(insn[HiOf(i)][1])), ImmI(insn[i][1]))
          [] t = "PCREL_LO12_S" ->
               Plus(64, Plus(64, Addr(HiOf(i)), ImmU(insn[HiOf(i)][1])), ImmS(insn[i][1]))
          [] t \in DataTypes -> Datum(insn[relocs[i].at]) \cap 0..Width(t) - 1

Wanted(i) ==
    LET r == relocs[i]
    IN  CASE r.type \in LoTypes -> relocs[HiOf(i)].val
          [] r.type \in SubTypes -> Minus(64, relocs[i - 1].val, r.val) \cap 0..Width(r.type) - 1
          [] r.type \in PointerTypes ->
               0..Width(r.type) - 1 \cap
                   IF program \notin Dynamic THEN r.val
                   ELSE IF r.dyn THEN Plus(64, Elsewhere, r.addend) ELSE Plus(64, Base, r.val)
          [] OTHER -> r.val

\* The relocations that have their final effect: an access or a difference with its second
\* half, a pointer of dynamic output when it is loaded.
Effective ==
    {i \in 1..applied :
        LET r == relocs[i]
        IN  /\ r.type \notin HiTypes \cup AddTypes
            /\ r.type = "64" /\ program \in Dynamic =>
                   applied = Len(relocs) /\ loaded = Len(qrel)}

\* A linked program goes where its symbols are: each relocation that is applied without
\* an error makes the processor form the address of its symbol, the low half of an
\* access together with its own high half, in whatever order they come; a pointer in the
\* data is that of its symbol, wherever the loader puts it, and a difference is that of the
\* two symbols.  An entry of the PLT loads its own slot of the GOT.
ReachesTarget ==
    /\ \A i \in Effective : Reached(i) = Wanted(i)
    /\ \A k \in DOMAIN plt :
        Plus(64, Plus(64, PltAddr(k - 1), ImmU(plt[k][1])), ImmI(plt[k][2])) = GotAddr(k - 1)

\* The bits of the two words that hold the immediate or the datum.
ImmediateOf(t) ==
    CASE t \in {"JAL"} \cup HiTypes -> 12..31
      [] t = "CALL" -> 12..31 \cup 52..63
      [] t \in {"BRANCH", "PCREL_LO12_S"} -> 7..11 \cup 25..31
      [] t = "PCREL_LO12_I" -> 20..31
      [] t = "RVC_BRANCH" -> 2..6 \cup 10..12
      [] t = "RVC_JUMP" -> 2..12
      [] t \in DataTypes -> 0..Width(t) - 1

KeepsOthers ==
    \A i \in DOMAIN insn :
        LET field == ImmediateOf(relocs[i].type)
        IN  Datum(insn'[i]) \ field = Datum(insn[i]) \ field

\* Relocating an instruction leaves its operation and its registers alone, and relocating a
\* datum leaves what is next to it alone.
OnlyImmediates == [][KeepsOthers]_vars


\* The linker refuses no program that it could link: a jump that fails is out of the
\* reach of its instruction, an access that fails is beyond 2 GiB or has its halves apart.
FailsWithReason ==
    failed /\ plt # <<>> =>
        LET i == applied + 1
            t == relocs[i].type
            off == Off(relocs[i], Addr(i))
        IN  /\ t = "BRANCH" => ~InReach(13, off)
            /\ t = "JAL" => ~InReach(21, off)
            /\ t = "RVC_BRANCH" => ~InReach(9, off)
            /\ t = "RVC_JUMP" => ~InReach(12, off)
            /\ t \in HiTypes => LET page == PageOf(off) IN page # Sext(64, page, 20)
            /\ t \in LoTypes => i = 1 \/ HiOf(i) # i - 1
=============================================================================
