------------------------------ MODULE MCImage -------------------------------
(***************************************************************************)
(* The image that tcc makes of a unit: the code of a function and its      *)
(* frame (RiscvFrame), the contents of an object (Initializers), the       *)
(* relocation of either (RiscvLink), and the memory that the image is run  *)
(* in (RunMemory).  They share no variable, so a behaviour is of one of    *)
(* them, and the others stay idle.                                         *)
(***************************************************************************)
EXTENDS RiscvLink, RunMemory, MCRiscvFrame, MCInitializers, TLC

-----------------------------------------------------------------------------
(* Relocation: targets around the ends of what each instruction reaches *)

MCText == Bits(65536)
MCPlt == Bits(131072)

\* The addresses at these distances from the first slot.
From(S) == {Plus(64, Plus(64, MCText, Bits(8)), dist) : dist \in S}
Around(S) == UNION {{dist, Plus(64, dist, Word(64, 2)), Minus(64, dist, Word(64, 2))} :
                    dist \in S}
Both(S) == S \cup {Neg(64, dist) : dist \in S}

\* The ends of the reach of 9, 12, 13, 21 and 22 bits, of 33 bits, and odd distances.
\* The distances that the tests let pass and the immediates cannot hold are left out: 1 to
\* 2 MiB for R_RISCV_JAL, and 2 to 4 GiB for the HI20s.
Ends == Around(Both({{}, {8}, {11}, {12}, {20}, {21}, {33}})) \cup {{0}, {0, 3}}
NearEnds == Around(Both({{11}, {11, 12}, {30}})) \cup {{4}, {0, 1, 11}}
MCTargets == From({dist \in Ends \cup NearEnds : FitsIn(22, dist) => InReach(21, dist)})
MCNear == From(NearEnds)

\* Two symbols, with low halves of either sign.
MCTwo == From({{5, 13}, {5, 11, 14}})

MCOld == {{}, 0..31}
MCNoOld == {{}}
\* A GOT behind the PLT, up to and beyond 2 GiB, and before it.
MCGot == {Plus(64, MCPlt, dist) : dist \in {{12}, {5, 11}, {3, 11, 16}, {30}, {33}}} \cup {MCText}
MCOneGot == {Plus(64, MCPlt, {12})}

\* Addresses for data: two of output at address 0, and one whose low half is all ones.
MCData == {Bits(65536), Bits(65600), 0..31 \cup {40}}
MCAddends == {{}, Neg(64, Bits(8))}
MCBase == {12, 31, 38}
MCElsewhere == 12..39

\* A jump depends on no other relocation.  An access is two; up to four halves of accesses
\* to two symbols come in any order; pointers and differences share a section, of static
\* and of dynamic output.
MCPrograms == {"jumps", "access", "order", "data", "shared"}
MCDynamic == {"shared"}
MCTypes == [p \in MCPrograms |->
    CASE p = "jumps" -> JumpTypes
      [] p = "data" -> DataTypes
      [] p = "shared" -> {"64", "ADD32", "SUB32"}
      [] OTHER -> HiTypes \cup LoTypes]
MCAllTargets == [p \in MCPrograms |->
    CASE p \in {"jumps", "access"} -> MCTargets
      [] p = "order" -> MCTwo
      [] OTHER -> MCData]
MCAllNear == [p \in MCPrograms |->
    CASE p \in {"jumps", "access"} -> MCNear
      [] p = "order" -> MCTwo
      [] OTHER -> {}]
MCAllOld == [p \in MCPrograms |-> IF p = "order" THEN MCNoOld ELSE MCOld]
MCGots == [p \in MCPrograms |-> IF p = "jumps" THEN MCGot ELSE MCOneGot]
MCMaxRelocs == [p \in MCPrograms |->
    CASE p = "jumps" -> 1 [] p = "order" -> 4 [] p = "shared" -> 3 [] OTHER -> 2]

\* No target is at one of the distances that are left out.
ASSUME DistanceAssumption == NoGap

-----------------------------------------------------------------------------
(* Memory: two states on one heap; the layouts have rounds of no, one and      *)
(* several sections, empty ones, alignments above and below the page, and end  *)
(* in the middle of a page.                                                    *)

RunSection(f, l, a) == [flags |-> f, length |-> l, align |-> a]
MCTccs == {"s", "t"}
MCAlignments == {1, 2, 4, 8}
MCLayouts == {
    <<RunSection("rx", 3, 2), RunSection("rw", 1, 2)>>,
    <<RunSection("rx", 0, 2), RunSection("ro", 5, 1), RunSection("rw", 0, 2)>>,
    <<RunSection("rx", 1, 1), RunSection("rx", 2, 2), RunSection("ro", 2, 8),
      RunSection("rw", 1, 1), RunSection("rw", 1, 8)>>}

RunIdle == sections = [s \in Tccs |-> CHOOSE secs \in Layouts : TRUE] /\ RunInit

-----------------------------------------------------------------------------
(* The composition *)

VARIABLE unit   \* which of them

imageVars == <<unit, frameVars, vars, initVars, runVars>>

FrameIdle ==
  /\ kind = "none" /\ phase = "none" /\ steps = 0 /\ assert_ok = TRUE
  /\ loc = 0 /\ num_va_regs = 0 /\ reg = <<>> /\ entry = <<>> /\ mem = <<>>
  /\ last = [target |-> 0, want |-> {}, addr |-> {}, value |-> Unknown]

LinkIdle ==
  /\ program = "none"
  /\ relocs = <<>> /\ insn = <<>> /\ applied = 0
  /\ last_hi = [addr |-> {}, val |-> {}]
  /\ plt = <<>> /\ got = {} /\ qrel = <<>> /\ loaded = 0 /\ failed = FALSE

ImageInit ==
  \/ unit = "function" /\ FrameInit /\ LinkIdle /\ InitIdle /\ RunIdle
  \/ unit = "relocations" /\ FrameIdle /\ Init /\ InitIdle /\ RunIdle
  \/ unit = "object" /\ FrameIdle /\ LinkIdle /\ InitInit /\ RunIdle
  \/ unit = "memory" /\ FrameIdle /\ LinkIdle /\ InitIdle /\ RunInit

FunctionStep == unit = "function" /\ FrameNext /\ UNCHANGED <<unit, vars, initVars, runVars>>
RelocationStep == unit = "relocations" /\ Next /\ UNCHANGED <<unit, frameVars, initVars, runVars>>
ObjectStep == unit = "object" /\ InitNext /\ UNCHANGED <<unit, frameVars, vars, runVars>>
MemoryStep == unit = "memory" /\ RunNext /\ UNCHANGED <<unit, frameVars, vars, initVars>>

ImageNext == FunctionStep \/ RelocationStep \/ ObjectStep \/ MemoryStep
ImageSpec == ImageInit /\ [][ImageNext]_imageVars

=============================================================================
