------------------------------ MODULE RiscvIsa ------------------------------
(***************************************************************************)
(* External: how a 64-bit RISC-V processor reads the immediate of an       *)
(* instruction word (RISC-V unprivileged ISA, immediate encodings, and the *)
(* compressed ones).  Words are sets of bits.                              *)
(***************************************************************************)
EXTENDS Words

\* The bits lo..hi of the instruction, moved to start at position at.
Piece(insn, lo, hi, at) == {k - lo + at : k \in insn \cap lo..hi}

ImmI(insn) == Sext(64, Piece(insn, 20, 31, 0), 12)
ImmS(insn) == Sext(64, Piece(insn, 7, 11, 0) \cup Piece(insn, 25, 31, 5), 12)
ImmU(insn) == Sext(64, Piece(insn, 12, 31, 12), 32)
ImmB(insn) ==
    Sext(64, Piece(insn, 8, 11, 1) \cup Piece(insn, 25, 30, 5) \cup Piece(insn, 7, 7, 11)
             \cup Piece(insn, 31, 31, 12), 13)
ImmJ(insn) ==
    Sext(64, Piece(insn, 21, 30, 1) \cup Piece(insn, 20, 20, 11) \cup Piece(insn, 12, 19, 12)
             \cup Piece(insn, 31, 31, 20), 21)
\* c.beqz and c.j
ImmCB(insn) ==
    Sext(64, Piece(insn, 3, 4, 1) \cup Piece(insn, 10, 11, 3) \cup Piece(insn, 2, 2, 5)
             \cup Piece(insn, 5, 6, 6) \cup Piece(insn, 12, 12, 8), 9)
ImmCJ(insn) ==
    Sext(64, Piece(insn, 3, 5, 1) \cup Piece(insn, 11, 11, 4) \cup Piece(insn, 2, 2, 5)
             \cup Piece(insn, 7, 7, 6) \cup Piece(insn, 6, 6, 7) \cup Piece(insn, 9, 10, 8)
             \cup Piece(insn, 8, 8, 10) \cup Piece(insn, 12, 12, 11), 12)
=============================================================================
