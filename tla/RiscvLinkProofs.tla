--------------------------- MODULE RiscvLinkProofs ---------------------------
(* Relocating changes nothing but immediates and data, an object that cannot be  *)
(* relocated has a relocation that does not fit, and what is relocated reaches   *)
(* its symbol: for any program, any addresses and any symbols.                   *)
EXTENDS RiscvLink, WordsProofs, SequenceTheorems, TLAPS

-----------------------------------------------------------------------------
(* Words *)

LEMMA SumRange ==
    ASSUME NEW a \in SUBSET (0..63), NEW b \in SUBSET (0..63)
    PROVE  Plus(64, a, b) \in SUBSET (0..63)
<1>1. 64 - 1 = 63 /\ 64 \in Nat
  OBVIOUS
<1>2. Plus(64, a, b) \in WordsOf(64)
  BY <1>1, PlusIs DEF WordsOf
<1>3. QED BY <1>1, <1>2 DEF WordsOf

\* A field keeps what is outside of it.
LEMMA PutKeeps ==
    ASSUME NEW word, NEW field, NEW imm \in SUBSET field
    PROVE  Put(word, field, imm) \ field = word \ field
BY DEF Put

-----------------------------------------------------------------------------
(* Slots: two words of 32 bits *)

HalfWords == SUBSET (0..31)
Slots == HalfWords \X HalfWords

LEMMA HalvesDatum ==
    ASSUME NEW d \in SUBSET (0..63)
    PROVE  Halves(d) \in Slots /\ Datum(Halves(d)) = d
<1>1. Halves(d) \in Slots
  BY DEF Halves, Slots, HalfWords, Shr
<1>2. ASSUME NEW k \in 0..63 PROVE k \in Datum(Halves(d)) <=> k \in d
  BY DEF Halves, Datum, Shl, Shr
<1>3. Datum(Halves(d)) \subseteq 0..63
  BY DEF Halves, Datum, Shl
<1>4. QED BY <1>1, <1>2, <1>3

LEMMA DatumRange ==
    ASSUME NEW w \in Slots
    PROVE  Datum(w) \in SUBSET (0..63)
BY DEF Datum, Shl, Slots, HalfWords

\* A slot keeps its bits outside of a field if its words do.
LEMMA DatumKeeps ==
    ASSUME NEW w \in Slots, NEW v \in Slots, NEW F,
           \A k \in 0..31 : k \notin F => (k \in v[1] <=> k \in w[1]),
           \A k \in 0..31 : k + 32 \notin F => (k \in v[2] <=> k \in w[2])
    PROVE  Datum(v) \ F = Datum(w) \ F
<1>1. ASSUME NEW k \in 0..63, k \notin F PROVE k \in Datum(v) <=> k \in Datum(w)
  <2>1. CASE k \in 0..31
    BY <1>1, <2>1 DEF Datum, Shl, Slots, HalfWords
  <2>2. CASE k \in 32..63
    <3>1. k - 32 \in 0..31 /\ (k - 32) + 32 = k
      BY <2>2
    <3>2. k - 32 \in v[2] <=> k - 32 \in w[2]
      BY <1>1, <3>1
    <3>3. k \notin v[1] /\ k \notin w[1]
      BY <2>2 DEF Slots, HalfWords
    <3>4. QED BY <3>2, <3>3 DEF Datum, Shl
  <2>3. QED BY <2>1, <2>2
<1>2. QED BY <1>1, DatumRange

-----------------------------------------------------------------------------
(* relocate *)

AllTypes == JumpTypes \cup HiTypes \cup LoTypes \cup DataTypes

\* Where the parts of an offset are put.
LEMMA AtRange ==
    ASSUME NEW x, NEW lo \in Nat, NEW hi \in Nat, NEW at \in Nat
    PROVE  At(x, lo, hi, at) \subseteq at..at + hi - lo
BY DEF At, Piece

LEMMA PutWord ==
    ASSUME NEW word \in HalfWords, NEW field \in SUBSET (0..31), NEW imm \in SUBSET field
    PROVE  /\ Put(word, field, imm) \in HalfWords
           /\ \A k \in 0..31 : k \notin field => (k \in Put(word, field, imm) <=> k \in word)
BY DEF Put, HalfWords

LEMMA HiWord ==
    ASSUME NEW word \in HalfWords, NEW page
    PROVE  /\ Hi20(word, page) \in HalfWords
           /\ \A k \in 0..31 : k \notin 12..31 => (k \in Hi20(word, page) <=> k \in word)
<1> DEFINE imm == Shl(32, page \cap 0..19, 12)
<1>1. imm \in SUBSET (12..31) /\ 12..31 \in SUBSET (0..31)
  BY DEF Shl
<1>2. Hi20(word, page) = Put(word, 12..31, imm)
  BY DEF Hi20
<1> HIDE DEF imm
<1>3. QED BY <1>1, <1>2, PutWord

LEMMA LoWord ==
    ASSUME NEW word \in HalfWords, NEW off
    PROVE  /\ Lo12_I(word, off) \in HalfWords
           /\ \A k \in 0..31 : k \notin 20..31 => (k \in Lo12_I(word, off) <=> k \in word)
<1> DEFINE imm == Shl(32, off \cap 0..11, 20)
<1>1. imm \in SUBSET (20..31) /\ 20..31 \in SUBSET (0..31)
  BY DEF Shl
<1>2. Lo12_I(word, off) = Put(word, 20..31, imm)
  BY DEF Lo12_I
<1> HIDE DEF imm
<1>3. QED BY <1>1, <1>2, PutWord

LEMMA StoreWord ==
    ASSUME NEW word \in HalfWords, NEW off
    PROVE  /\ Lo12_S(word, off) \in HalfWords
           /\ \A k \in 0..31 : k \notin 7..11 \cup 25..31 =>
                  (k \in Lo12_S(word, off) <=> k \in word)
<1> DEFINE field == 7..11 \cup 25..31
           imm == Shl(32, off \cap 5..11, 20) \cup Shl(32, off \cap 0..4, 7)
<1>1. imm \in SUBSET field /\ field \in SUBSET (0..31)
  BY DEF Shl
<1>2. Lo12_S(word, off) = Put(word, field, imm)
  BY DEF Lo12_S
<1> HIDE DEF imm
<1>3. QED BY <1>1, <1>2, PutWord

\* A relocation of an instruction of one word, with its field.
LEMMA InstructionKeeps ==
    ASSUME NEW w \in Slots, NEW field \in SUBSET (0..31), NEW v \in HalfWords,
           \A k \in 0..31 : k \notin field => (k \in v <=> k \in w[1])
    PROVE  /\ <<v, w[2]>> \in Slots
           /\ Datum(<<v, w[2]>>) \ field = Datum(w) \ field
<1>1. <<v, w[2]>> \in Slots
  BY DEF Slots
<1>2. QED BY <1>1, DatumKeeps

LEMMA FieldKeeps ==
    ASSUME NEW w \in Slots, NEW field \in SUBSET (0..31), NEW imm \in SUBSET field
    PROVE  /\ <<Put(w[1], field, imm), w[2]>> \in Slots
           /\ Datum(<<Put(w[1], field, imm), w[2]>>) \ field = Datum(w) \ field
<1> DEFINE v == Put(w[1], field, imm)
<1>1. w[1] \in HalfWords
  BY DEF Slots
<1>2. v \in HalfWords /\ \A k \in 0..31 : k \notin field => (k \in v <=> k \in w[1])
  BY <1>1, PutWord
<1> HIDE DEF v
<1>3. <<v, w[2]>> \in Slots /\ Datum(<<v, w[2]>>) \ field = Datum(w) \ field
  BY <1>2, InstructionKeeps
<1>4. QED BY <1>3 DEF v

\* What is stored in a datum has the width of its field.
LEMMA StoredRange ==
    ASSUME NEW t \in DataTypes, NEW old \in SUBSET (0..Width(t) - 1),
           NEW val \in SUBSET (0..Width(t) - 1)
    PROVE  Width(t) \in {64, 32, 16, 6} /\ Stored(t, old, val) \in SUBSET (0..Width(t) - 1)
<1>1. Width(t) \in {64, 32, 16, 6}
  BY DEF Width, DataTypes, PointerTypes, AddTypes, SubTypes
<1>2. Stored(t, old, val) \in {val, Minus(Width(t), old, val), Plus(Width(t), old, val)}
  BY DEF Stored, SubTypes
<1> DEFINE n == Width(t)
<1>3. n \in Nat /\ old \in SUBSET (0..n - 1) /\ val \in SUBSET (0..n - 1)
  BY <1>1
<1> HIDE DEF n
<1>4. Minus(n, old, val) \subseteq 0..n - 1 /\ Plus(n, old, val) \subseteq 0..n - 1
  BY <1>3, PlusIs, MinusIs DEF WordsOf
<1>5. QED BY <1>1, <1>2, <1>4 DEF n

LEMMA DataKeeps ==
    ASSUME NEW w \in Slots, NEW t \in DataTypes, NEW imm \in SUBSET (0..Width(t) - 1),
           Width(t) \in {64, 32, 16, 6}
    PROVE  /\ Halves(Put(Datum(w), 0..Width(t) - 1, imm)) \in Slots
           /\ Datum(Halves(Put(Datum(w), 0..Width(t) - 1, imm))) \ (0..Width(t) - 1)
                = Datum(w) \ (0..Width(t) - 1)
<1> DEFINE d == Put(Datum(w), 0..Width(t) - 1, imm)
<1>1. d \in SUBSET (0..63)
  <2>1. Datum(w) \in SUBSET (0..63)
    BY DatumRange
  <2>2. 0..Width(t) - 1 \subseteq 0..63
    OBVIOUS
  <2>3. QED BY <2>1, <2>2 DEF Put
<1>2. d \ (0..Width(t) - 1) = Datum(w) \ (0..Width(t) - 1)
  BY PutKeeps
<1> HIDE DEF d
<1>3. Halves(d) \in Slots /\ Datum(Halves(d)) = d
  BY <1>1, HalvesDatum
<1>4. QED BY <1>2, <1>3 DEF d

\* relocate changes the immediate or the datum of a slot, and nothing else.
LEMMA ScatterKeeps ==
    ASSUME NEW r, r.type \in AllTypes, NEW w \in Slots, NEW addr
    PROVE  /\ Scatter(r, w, addr) \in Slots
           /\ Datum(Scatter(r, w, addr)) \ ImmediateOf(r.type)
                = Datum(w) \ ImmediateOf(r.type)
<1> DEFINE off == Off(r, addr)
           hi_lo == Minus(64, last_hi.val, last_hi.addr)
<1> USE DEF AllTypes, JumpTypes, HiTypes, LoTypes, DataTypes, PointerTypes, AddTypes, SubTypes
<1>0. w[1] \in HalfWords /\ w[2] \in HalfWords /\ w = <<w[1], w[2]>>
  BY DEF Slots
<1>1. CASE r.type = "BRANCH"
  <2> DEFINE field == 7..11 \cup 25..31
             imm == At(off, 12, 12, 31) \cup At(off, 5, 10, 25) \cup At(off, 1, 4, 8)
                    \cup At(off, 11, 11, 7)
  <2>1. Scatter(r, w, addr) = <<Put(w[1], field, imm), w[2]>> /\ ImmediateOf(r.type) = field
    BY <1>1 DEF Scatter, ImmediateOf
  <2>2. imm \in SUBSET field /\ field \in SUBSET (0..31)
    BY AtRange
  <2> HIDE DEF field, imm
  <2>3. /\ <<Put(w[1], field, imm), w[2]>> \in Slots
        /\ Datum(<<Put(w[1], field, imm), w[2]>>) \ field = Datum(w) \ field
    BY <2>2, FieldKeeps
  <2>4. QED BY <2>1, <2>3
<1>2. CASE r.type = "JAL"
  <2> DEFINE field == 12..31
             imm == At(off, 12, 19, 12) \cup At(off, 11, 11, 20) \cup At(off, 1, 10, 21)
                    \cup At(off, 20, 20, 31)
  <2>1. Scatter(r, w, addr) = <<Put(w[1], field, imm), w[2]>> /\ ImmediateOf(r.type) = field
    BY <1>2 DEF Scatter, ImmediateOf
  <2>2. imm \in SUBSET field /\ field \in SUBSET (0..31)
    BY AtRange
  <2> HIDE DEF field, imm
  <2>3. /\ <<Put(w[1], field, imm), w[2]>> \in Slots
        /\ Datum(<<Put(w[1], field, imm), w[2]>>) \ field = Datum(w) \ field
    BY <2>2, FieldKeeps
  <2>4. QED BY <2>1, <2>3
<1>3. CASE r.type = "RVC_BRANCH"
  <2> DEFINE field == 2..6 \cup 10..12
             imm == At(off, 5, 5, 2) \cup At(off, 1, 2, 3) \cup At(off, 6, 7, 5)
                    \cup At(off, 3, 4, 10) \cup At(off, 8, 8, 12)
  <2>1. Scatter(r, w, addr) = <<Put(w[1], field, imm), w[2]>> /\ ImmediateOf(r.type) = field
    BY <1>3 DEF Scatter, ImmediateOf
  <2>2. imm \in SUBSET field /\ field \in SUBSET (0..31)
    BY AtRange
  <2> HIDE DEF field, imm
  <2>3. /\ <<Put(w[1], field, imm), w[2]>> \in Slots
        /\ Datum(<<Put(w[1], field, imm), w[2]>>) \ field = Datum(w) \ field
    BY <2>2, FieldKeeps
  <2>4. QED BY <2>1, <2>3
<1>4. CASE r.type = "RVC_JUMP"
  <2> DEFINE field == 2..12
             imm == At(off, 5, 5, 2) \cup At(off, 1, 3, 3) \cup At(off, 7, 7, 6)
                    \cup At(off, 6, 6, 7) \cup At(off, 10, 10, 8) \cup At(off, 8, 9, 9)
                    \cup At(off, 4, 4, 11) \cup At(off, 11, 11, 12)
  <2>1. Scatter(r, w, addr) = <<Put(w[1], field, imm), w[2]>> /\ ImmediateOf(r.type) = field
    BY <1>4 DEF Scatter, ImmediateOf
  <2>2. imm \in SUBSET field /\ field \in SUBSET (0..31)
    BY AtRange
  <2> HIDE DEF field, imm
  <2>3. /\ <<Put(w[1], field, imm), w[2]>> \in Slots
        /\ Datum(<<Put(w[1], field, imm), w[2]>>) \ field = Datum(w) \ field
    BY <2>2, FieldKeeps
  <2>4. QED BY <2>1, <2>3
<1>5. CASE r.type = "CALL"
  <2> DEFINE hi == Hi20(w[1], PageOf(off))
             lo == Lo12_I(w[2], off)
  <2>1. Scatter(r, w, addr) = <<hi, lo>> /\ ImmediateOf(r.type) = 12..31 \cup 52..63
    BY <1>5 DEF Scatter, ImmediateOf
  <2>2. /\ hi \in HalfWords /\ lo \in HalfWords
        /\ \A k \in 0..31 : k \notin 12..31 => (k \in hi <=> k \in w[1])
        /\ \A k \in 0..31 : k \notin 20..31 => (k \in lo <=> k \in w[2])
    BY <1>0, HiWord, LoWord
  <2> HIDE DEF hi, lo
  <2>3. <<hi, lo>> \in Slots
    BY <2>2 DEF Slots
  <2>4. /\ \A k \in 0..31 : k \notin 12..31 \cup 52..63 => (k \in <<hi, lo>>[1] <=> k \in w[1])
        /\ \A k \in 0..31 : k + 32 \notin 12..31 \cup 52..63 =>
               (k \in <<hi, lo>>[2] <=> k \in w[2])
    BY <2>2
  <2> DEFINE field == 12..31 \cup 52..63
             v == <<hi, lo>>
  <2>5. Datum(v) \ field = Datum(w) \ field
    <3> HIDE DEF field, v
    <3>1. v \in Slots
      BY <2>3 DEF v
    <3>2. /\ \A k \in 0..31 : k \notin field => (k \in v[1] <=> k \in w[1])
          /\ \A k \in 0..31 : k + 32 \notin field => (k \in v[2] <=> k \in w[2])
      BY <2>4 DEF v, field
    <3>3. QED BY <3>1, <3>2, DatumKeeps
  <2>6. QED BY <2>1, <2>3, <2>5
<1>6. CASE r.type \in HiTypes
  <2>1. /\ Scatter(r, w, addr) = <<Hi20(w[1], PageOf(off)), w[2]>>
        /\ ImmediateOf(r.type) = 12..31
    BY <1>6 DEF Scatter, ImmediateOf
  <2>2. 12..31 \in SUBSET (0..31)
    OBVIOUS
  <2>3. QED BY <1>0, <2>1, <2>2, HiWord, InstructionKeeps
<1>7. CASE r.type = "PCREL_LO12_I"
  <2>1. Scatter(r, w, addr) = <<Lo12_I(w[1], hi_lo), w[2]>> /\ ImmediateOf(r.type) = 20..31
    BY <1>7 DEF Scatter, ImmediateOf
  <2>2. 20..31 \in SUBSET (0..31)
    OBVIOUS
  <2>3. QED BY <1>0, <2>1, <2>2, LoWord, InstructionKeeps
<1>8. CASE r.type = "PCREL_LO12_S"
  <2>1. /\ Scatter(r, w, addr) = <<Lo12_S(w[1], hi_lo), w[2]>>
        /\ ImmediateOf(r.type) = 7..11 \cup 25..31
    BY <1>8 DEF Scatter, ImmediateOf
  <2>2. 7..11 \cup 25..31 \in SUBSET (0..31)
    OBVIOUS
  <2>3. QED BY <1>0, <2>1, <2>2, StoreWord, InstructionKeeps
<1>9. CASE r.type \in DataTypes
  <2> DEFINE field == 0..Width(r.type) - 1
             imm == Stored(r.type, Datum(w) \cap field, r.val \cap field)
  <2>1. /\ Scatter(r, w, addr) = Halves(Put(Datum(w), field, imm))
        /\ ImmediateOf(r.type) = field
    BY <1>9 DEF Scatter, ImmediateOf
  <2>2. Width(r.type) \in {64, 32, 16, 6} /\ imm \in SUBSET field
    BY <1>9, StoredRange
  <2> HIDE DEF imm
  <2>3. QED BY <1>9, <2>1, <2>2, DataKeeps
<1>10. QED BY <1>1, <1>2, <1>3, <1>4, <1>5, <1>6, <1>7, <1>8, <1>9

-----------------------------------------------------------------------------
(* The relocations of a program *)

Relocations == [type : AllTypes, at : Nat, val : SUBSET (0..63), addend : SUBSET (0..63),
                dyn : BOOLEAN]
Remaining == [type : {"64", "RELATIVE"}, at : Nat, addend : SUBSET (0..63)]

\* Each relocation has the slot of its number; the second of a difference has that of the
\* first, which is as wide.
InPlace(i) ==
    \/ relocs[i].at = i
    \/ /\ relocs[i].type \in SubTypes /\ i > 1 /\ relocs[i].at = i - 1
       /\ relocs[i - 1].type \in AddTypes /\ Width(relocs[i - 1].type) = Width(relocs[i].type)

LinkInv ==
    /\ program \in Programs
    /\ relocs \in Seq(Relocations)
    /\ insn \in Seq(Slots)
    /\ Len(insn) = Len(relocs)
    /\ applied \in 0..Len(relocs)
    /\ qrel \in Seq(Remaining)
    /\ loaded \in 0..Len(qrel)
    /\ \A i \in 1..Len(relocs) : InPlace(i)
    /\ \A k \in 1..Len(qrel) :
           qrel[k].at \in 1..Len(relocs) /\ relocs[qrel[k].at].type = "64"

LEMMA InitLink == Init => LinkInv
<1> SUFFICES ASSUME Init PROVE LinkInv
  OBVIOUS
<1>1. /\ program \in Programs /\ relocs = <<>> /\ insn = <<>> /\ applied = 0
      /\ qrel = <<>> /\ loaded = 0
  BY DEF Init
<1>2. QED BY <1>1 DEF LinkInv

\* A program that grows keeps what it has.
LEMMA Grow ==
    ASSUME LinkInv, UNCHANGED <<applied, qrel, loaded, program>>,
           relocs' \in Seq(Relocations), insn' \in Seq(Slots), Len(insn') = Len(relocs'),
           Len(relocs) <= Len(relocs'),
           \A i \in 1..Len(relocs) : relocs'[i] = relocs[i] /\ insn'[i] = insn[i],
           \A i \in Len(relocs) + 1..Len(relocs') : InPlace(i)'
    PROVE  LinkInv' /\ KeepsOthers
<1>1. /\ program' \in Programs /\ applied' \in 0..Len(relocs')
      /\ qrel' \in Seq(Remaining) /\ loaded' \in 0..Len(qrel')
  BY DEF LinkInv
<1>2. ASSUME NEW i \in 1..Len(relocs') PROVE InPlace(i)'
  <2>1. CASE i \in Len(relocs) + 1..Len(relocs')
    BY <2>1
  <2>2. CASE i \in 1..Len(relocs)
    <3>1. InPlace(i) /\ relocs'[i] = relocs[i]
      BY <2>2 DEF LinkInv
    <3>2. i > 1 => relocs'[i - 1] = relocs[i - 1]
      BY <2>2
    <3>3. QED BY <3>1, <3>2 DEF InPlace
  <2>3. QED BY <1>2, <2>1, <2>2 DEF LinkInv
<1>3. ASSUME NEW k \in 1..Len(qrel')
      PROVE  qrel'[k].at \in 1..Len(relocs') /\ relocs'[qrel'[k].at].type = "64"
  BY <1>3 DEF LinkInv
<1>4. KeepsOthers
  BY DEF KeepsOthers, LinkInv
<1>5. QED BY <1>1, <1>2, <1>3, <1>4 DEF LinkInv

\* By one relocation, or by two.
LEMMA GrowByOne ==
    ASSUME LinkInv, UNCHANGED <<applied, qrel, loaded, program>>,
           NEW r \in Relocations, NEW w \in Slots, r.at = Len(relocs) + 1,
           relocs' = Append(relocs, r), insn' = Append(insn, w)
    PROVE  LinkInv' /\ KeepsOthers
<1>1. /\ relocs' \in Seq(Relocations) /\ Len(relocs') = Len(relocs) + 1
      /\ relocs'[Len(relocs) + 1] = r
      /\ \A i \in 1..Len(relocs) : relocs'[i] = relocs[i]
  BY AppendProperties DEF LinkInv
<1>2. /\ insn' \in Seq(Slots) /\ Len(insn') = Len(relocs) + 1
      /\ \A i \in 1..Len(relocs) : insn'[i] = insn[i]
  BY AppendProperties DEF LinkInv
<1>3. Len(relocs) \in Nat
  BY DEF LinkInv
<1>4. ASSUME NEW i \in Len(relocs) + 1..Len(relocs') PROVE InPlace(i)'
  BY <1>1, <1>3 DEF InPlace
<1>5. QED BY <1>1, <1>2, <1>3, <1>4, Grow

LEMMA GrowByTwo ==
    ASSUME LinkInv, UNCHANGED <<applied, qrel, loaded, program>>,
           NEW r1 \in Relocations, NEW r2 \in Relocations, NEW w1 \in Slots, NEW w2 \in Slots,
           r1.at = Len(relocs) + 1,
           \/ r2.at = Len(relocs) + 2
           \/ /\ r2.at = Len(relocs) + 1 /\ r1.type \in AddTypes /\ r2.type \in SubTypes
              /\ Width(r1.type) = Width(r2.type),
           relocs' = relocs \o <<r1, r2>>, insn' = insn \o <<w1, w2>>
    PROVE  LinkInv' /\ KeepsOthers
<1>1. Len(relocs) \in Nat /\ Len(insn) = Len(relocs)
  BY DEF LinkInv
<1>2. /\ relocs' \in Seq(Relocations) /\ Len(relocs') = Len(relocs) + 2
      /\ relocs'[Len(relocs) + 1] = r1 /\ relocs'[Len(relocs) + 2] = r2
      /\ \A i \in 1..Len(relocs) : relocs'[i] = relocs[i]
  <2>1. <<r1, r2>> \in Seq(Relocations) /\ Len(<<r1, r2>>) = 2 /\ relocs \in Seq(Relocations)
    BY DEF LinkInv
  <2>2. QED BY <1>1, <2>1, ConcatProperties
<1>3. /\ insn' \in Seq(Slots) /\ Len(insn') = Len(relocs) + 2
      /\ \A i \in 1..Len(relocs) : insn'[i] = insn[i]
  <2>1. <<w1, w2>> \in Seq(Slots) /\ Len(<<w1, w2>>) = 2 /\ insn \in Seq(Slots)
    BY DEF LinkInv
  <2>2. QED BY <1>1, <2>1, ConcatProperties
<1>4. ASSUME NEW i \in Len(relocs) + 1..Len(relocs') PROVE InPlace(i)'
  <2>1. CASE i = Len(relocs) + 1
    BY <1>1, <1>2, <2>1 DEF InPlace
  <2>2. CASE i = Len(relocs) + 2
    <3>1. i > 1 /\ i - 1 = Len(relocs) + 1 /\ relocs'[i] = r2 /\ relocs'[i - 1] = r1
      BY <1>1, <1>2, <2>2
    <3>2. QED BY <2>2, <3>1 DEF InPlace
  <2>3. QED BY <1>1, <1>2, <2>1, <2>2
<1>5. Len(relocs) <= Len(relocs') /\ Len(insn') = Len(relocs')
  BY <1>1, <1>2, <1>3
<1>6. QED BY <1>2, <1>3, <1>4, <1>5, Grow

-----------------------------------------------------------------------------
(* The actions *)

LEMMA AddrRange ==
    ASSUME NEW i
    PROVE  Addr(i) \in SUBSET (0..63)
<1>1. Bits(8 * i) \in SUBSET (0..63) /\ Text \in SUBSET (0..63)
  BY WordAssumption DEF Bits
<1> QED
  BY <1>1, SumRange DEF Addr

LEMMA NewRelocation ==
    ASSUME LinkInv, NEW t \in Types[program], NEW val \in SUBSET (0..63)
    PROVE  /\ t \in AllTypes
           /\ New(t, val) \in Relocations
           /\ New(t, val).type = t /\ New(t, val).at = Len(relocs) + 1
<1>1. t \in AllTypes
  BY ProgramAssumption DEF LinkInv, AllTypes
<1>2. Len(relocs) + 1 \in Nat
  BY DEF LinkInv
<1>3. QED BY <1>1, <1>2 DEF New, Relocations

LEMMA Constants ==
    ASSUME LinkInv
    PROVE  /\ Targets[program] \in SUBSET (SUBSET (0..63))
           /\ NearTargets[program] \in SUBSET (SUBSET (0..63))
           /\ OldWords[program] \in SUBSET HalfWords
           /\ \A w1, w2 \in OldWords[program] : <<w1, w2>> \in Slots
<1>1. program \in Programs
  BY DEF LinkInv
<1>2. QED BY <1>1, ProgramAssumption, WordAssumption DEF HalfWords, Slots

LEMMA EmitJumpKeeps ==
    ASSUME LinkInv, EmitJump
    PROVE  LinkInv' /\ KeepsOthers
<1>1. PICK t \in Types[program] \cap JumpTypes, w1 \in OldWords[program],
           w2 \in OldWords[program] :
      \E val \in IF t = "CALL" THEN NearTargets[program] ELSE Targets[program] :
          /\ relocs' = Append(relocs, New(t, val))
          /\ insn' = Append(insn, <<w1, w2>>)
  BY DEF EmitJump
<1>2. PICK val \in SUBSET (0..63) :
          /\ relocs' = Append(relocs, New(t, val))
          /\ insn' = Append(insn, <<w1, w2>>)
  BY <1>1, Constants
<1>3. <<w1, w2>> \in Slots
  BY Constants
<1>4. New(t, val) \in Relocations /\ New(t, val).at = Len(relocs) + 1
  BY NewRelocation
<1>5. UNCHANGED <<applied, qrel, loaded, program>>
  BY DEF EmitJump
<1>6. QED BY <1>2, <1>3, <1>4, <1>5, GrowByOne

LEMMA EmitAccessKeeps ==
    ASSUME LinkInv, EmitAccess
    PROVE  LinkInv' /\ KeepsOthers
<1>1. PICK hi \in Types[program] \cap HiTypes, lo \in Types[program] \cap LoTypes,
           w \in OldWords[program] :
      \E val \in IF hi = "GOT_HI20" THEN NearTargets[program] ELSE Targets[program] :
          /\ relocs' = relocs \o <<New(hi, val),
                                   [type |-> lo, at |-> Len(relocs) + 2, dyn |-> FALSE,
                                    val |-> Addr(Len(relocs) + 1), addend |-> {}]>>
          /\ insn' = insn \o <<<<w, w>>, <<w, w>>>>
  BY DEF EmitAccess
<1> DEFINE label == Addr(Len(relocs) + 1)
           second == [type |-> lo, at |-> Len(relocs) + 2, dyn |-> FALSE,
                      val |-> label, addend |-> {}]
<1>2. PICK val \in SUBSET (0..63) :
          /\ relocs' = relocs \o <<New(hi, val), second>>
          /\ insn' = insn \o <<<<w, w>>, <<w, w>>>>
  BY <1>1, Constants
<1>3. <<w, w>> \in Slots
  BY Constants
<1>4. New(hi, val) \in Relocations /\ New(hi, val).at = Len(relocs) + 1
  BY NewRelocation
<1>5. second \in Relocations /\ second.at = Len(relocs) + 2
  <2>1. Len(relocs) + 1 \in Nat
    BY DEF LinkInv
  <2>2. label \in SUBSET (0..63)
    BY <2>1, AddrRange
  <2> HIDE DEF label
  <2>3. lo \in AllTypes
    BY <2>2, NewRelocation
  <2>4. QED BY <2>1, <2>2, <2>3 DEF Relocations
<1>6. UNCHANGED <<applied, qrel, loaded, program>>
  BY DEF EmitAccess
<1> HIDE DEF second
<1>7. QED BY <1>2, <1>3, <1>4, <1>5, <1>6, GrowByTwo

LEMMA EmitForeignKeeps ==
    ASSUME LinkInv, EmitForeign
    PROVE  LinkInv' /\ KeepsOthers
<1> DEFINE labels == {Addr(i) : i \in {j \in DOMAIN relocs : relocs[j].type \in HiTypes}}
<1>1. PICK t \in Types[program] \cap (HiTypes \cup LoTypes), w \in OldWords[program] :
      \E val \in IF t \in HiTypes THEN NearTargets[program] ELSE labels :
          /\ relocs' = Append(relocs, New(t, val))
          /\ insn' = Append(insn, <<w, w>>)
  BY DEF EmitForeign
<1>2. labels \in SUBSET (SUBSET (0..63))
  <2>1. DOMAIN relocs \subseteq Nat
    BY DEF LinkInv
  <2>2. QED BY <2>1, AddrRange
<1> HIDE DEF labels
<1>3. PICK val \in SUBSET (0..63) :
          /\ relocs' = Append(relocs, New(t, val))
          /\ insn' = Append(insn, <<w, w>>)
  BY <1>1, <1>2, Constants
<1>4. <<w, w>> \in Slots
  BY Constants
<1>5. New(t, val) \in Relocations /\ New(t, val).at = Len(relocs) + 1
  BY NewRelocation
<1>6. UNCHANGED <<applied, qrel, loaded, program>>
  BY DEF EmitForeign
<1>7. QED BY <1>3, <1>4, <1>5, <1>6, GrowByOne

LEMMA EmitPointerKeeps ==
    ASSUME LinkInv, EmitPointer
    PROVE  LinkInv' /\ KeepsOthers
<1>1. PICK t \in Types[program] \cap PointerTypes, a \in Addends,
           sym \in Targets[program] \cup IF program \in Dynamic THEN {{}} ELSE {},
           dyn \in BOOLEAN :
          /\ relocs' = Append(relocs, [type |-> t, at |-> Len(relocs) + 1, dyn |-> dyn,
                                       val |-> Plus(64, sym, a), addend |-> a])
          /\ insn' = Append(insn, <<{}, {}>>)
  BY DEF EmitPointer
<1>2. a \in SUBSET (0..63) /\ sym \in SUBSET (0..63)
  BY Constants, WordAssumption
<1> DEFINE val == Plus(64, sym, a)
<1>3. val \in SUBSET (0..63)
  BY <1>2, SumRange
<1> HIDE DEF val
<1>4. t \in AllTypes /\ Len(relocs) + 1 \in Nat
  <2>1. t \in AllTypes
    BY <1>3, NewRelocation
  <2>2. QED BY <2>1 DEF LinkInv
<1> DEFINE r == [type |-> t, at |-> Len(relocs) + 1, dyn |-> dyn, val |-> val, addend |-> a]
<1>5. r \in Relocations /\ r.at = Len(relocs) + 1
  BY <1>2, <1>3, <1>4 DEF Relocations
<1>6. relocs' = Append(relocs, r)
  BY <1>1 DEF val
<1>7. <<{}, {}>> \in Slots
  BY DEF Slots, HalfWords
<1>8. UNCHANGED <<applied, qrel, loaded, program>>
  BY DEF EmitPointer
<1> HIDE DEF r
<1>9. QED BY <1>1, <1>5, <1>6, <1>7, <1>8, GrowByOne

LEMMA EmitDifferenceKeeps ==
    ASSUME LinkInv, EmitDifference
    PROVE  LinkInv' /\ KeepsOthers
<1>1. PICK add \in Types[program] \cap AddTypes, sub \in Types[program] \cap SubTypes,
           w \in OldWords[program], to \in Targets[program], from \in Targets[program] :
          /\ Width(add) = Width(sub)
          /\ relocs' = relocs \o <<New(add, to), New(sub, from)>>
          /\ insn' = insn \o <<Halves(Datum(<<w, w>>) \ 0..Width(add) - 1), <<{}, {}>>>>
  BY DEF EmitDifference
<1>2. to \in SUBSET (0..63) /\ from \in SUBSET (0..63)
  BY Constants
<1>3. /\ New(add, to) \in Relocations /\ New(add, to).type = add
      /\ New(add, to).at = Len(relocs) + 1
      /\ New(sub, from) \in Relocations /\ New(sub, from).type = sub
      /\ New(sub, from).at = Len(relocs) + 1
  BY <1>2, NewRelocation
<1> DEFINE around == Halves(Datum(<<w, w>>) \ 0..Width(add) - 1)
<1>4. around \in Slots /\ <<{}, {}>> \in Slots
  <2>1. <<w, w>> \in Slots
    BY Constants
  <2>2. Datum(<<w, w>>) \in SUBSET (0..63)
    BY <2>1, DatumRange
  <2> DEFINE d == Datum(<<w, w>>) \ 0..Width(add) - 1
  <2>3. d \in SUBSET (0..63)
    BY <2>2
  <2> HIDE DEF d
  <2>4. Halves(d) \in Slots
    BY <2>3, HalvesDatum
  <2>5. QED BY <2>4 DEF d, Slots, HalfWords
<1>5. UNCHANGED <<applied, qrel, loaded, program>>
  BY DEF EmitDifference
<1>6. insn' = insn \o <<around, <<{}, {}>>>>
  BY <1>1
<1> DEFINE r1 == New(add, to)
           r2 == New(sub, from)
           none == <<{}, {}>>
<1>7. /\ r1 \in Relocations /\ r2 \in Relocations /\ none \in Slots
      /\ r1.at = Len(relocs) + 1 /\ r2.at = Len(relocs) + 1
      /\ r1.type \in AddTypes /\ r2.type \in SubTypes /\ Width(r1.type) = Width(r2.type)
      /\ relocs' = relocs \o <<r1, r2>> /\ insn' = insn \o <<around, none>>
  BY <1>1, <1>3, <1>4, <1>6
<1> HIDE DEF around, r1, r2, none
<1>8. QED BY <1>4, <1>5, <1>7, GrowByTwo

\* A slot may change in the bits of its relocation.
LEMMA ChangeSlot ==
    ASSUME LinkInv, NEW j \in 1..Len(relocs), NEW v \in Slots,
           insn' = [insn EXCEPT ![j] = v],
           Datum(v) \ ImmediateOf(relocs[j].type) = Datum(insn[j]) \ ImmediateOf(relocs[j].type)
    PROVE  insn' \in Seq(Slots) /\ Len(insn') = Len(relocs) /\ KeepsOthers
<1>1. insn \in Seq(Slots) /\ Len(insn) = Len(relocs) /\ DOMAIN insn = 1..Len(relocs)
  BY DEF LinkInv
<1>2. insn' \in Seq(Slots) /\ Len(insn') = Len(relocs)
  BY <1>1, ExceptSeq
<1>3. ASSUME NEW k \in DOMAIN insn
      PROVE  Datum(insn'[k]) \ ImmediateOf(relocs[k].type)
                 = Datum(insn[k]) \ ImmediateOf(relocs[k].type)
  <2>1. CASE k = j
    <3>1. insn'[k] = v
      BY <1>1, <2>1
    <3>2. QED BY <2>1, <3>1
  <2>2. CASE k # j
    <3>1. insn'[k] = insn[k]
      BY <1>1, <2>2
    <3>2. QED BY <3>1
  <2>3. QED BY <2>1, <2>2
<1>4. QED BY <1>2, <1>3 DEF KeepsOthers

\* Two relocations of a slot have the same field.
LEMMA SameField ==
    ASSUME LinkInv, NEW i \in 1..Len(relocs)
    PROVE  /\ relocs[i].at \in 1..Len(relocs)
           /\ ImmediateOf(relocs[relocs[i].at].type) = ImmediateOf(relocs[i].type)
           /\ relocs[i].type = "64" => relocs[i].at = i
<1>1. InPlace(i)
  BY DEF LinkInv
<1>2. CASE relocs[i].at = i
  BY <1>2
<1>3. CASE /\ relocs[i].type \in SubTypes /\ i > 1 /\ relocs[i].at = i - 1
           /\ relocs[i - 1].type \in AddTypes
           /\ Width(relocs[i - 1].type) = Width(relocs[i].type)
  <2>1. relocs[i].at \in 1..Len(relocs)
    BY <1>3
  <2>2. \A t \in AddTypes \cup SubTypes : ImmediateOf(t) = 0..Width(t) - 1 /\ t # "64"
    BY DEF ImmediateOf, DataTypes, AddTypes, SubTypes, PointerTypes, HiTypes
  <2>3. QED BY <1>3, <2>1, <2>2
<1>4. QED BY <1>1, <1>2, <1>3 DEF InPlace

LEMMA QrelKeeps ==
    ASSUME LinkInv, NEW i \in 1..Len(relocs), relocs' = relocs,
           qrel' = QrelAfter(relocs[i], insn[relocs[i].at])
    PROVE  /\ qrel' \in Seq(Remaining)
           /\ Len(qrel) <= Len(qrel')
           /\ \A k \in 1..Len(qrel') :
                  qrel'[k].at \in 1..Len(relocs') /\ relocs'[qrel'[k].at].type = "64"
<1> DEFINE r == relocs[i]
           w == insn[r.at]
<1>1. r \in Relocations /\ qrel \in Seq(Remaining) /\ Len(qrel) \in Nat
  BY DEF LinkInv
<1>2. r.at \in 1..Len(relocs) /\ (r.type = "64" => r.at = i)
  BY SameField
<1>3. \A k \in 1..Len(qrel) :
          qrel[k].at \in 1..Len(relocs) /\ relocs[qrel[k].at].type = "64"
  BY DEF LinkInv
<1>4. CASE qrel' = qrel
  BY <1>1, <1>3, <1>4
<1>5. CASE qrel' # qrel
  <2> DEFINE q == IF r.dyn
                  THEN [type |-> "64", at |-> r.at, addend |-> r.addend]
                  ELSE [type |-> "RELATIVE", at |-> r.at, addend |-> Plus(64, Datum(w), r.val)]
  <2>1. r.type = "64" /\ qrel' = Append(qrel, q)
    BY <1>5 DEF QrelAfter
  <2>2. w \in Slots
    BY <1>2 DEF LinkInv
  <2> HIDE DEF w
  <2>3. Datum(w) \in SUBSET (0..63)
    BY <2>2, DatumRange
  <2>4. r.val \in SUBSET (0..63) /\ r.addend \in SUBSET (0..63)
    BY <1>1 DEF Relocations
  <2>5. Plus(64, Datum(w), r.val) \in SUBSET (0..63)
    BY <2>3, <2>4, SumRange
  <2>6. q \in Remaining /\ q.at = r.at
    <3> DEFINE sum == Plus(64, Datum(w), r.val)
    <3>1. sum \in SUBSET (0..63)
      BY <2>5
    <3>2. r.at \in Nat
      BY <1>1 DEF Relocations
    <3> HIDE DEF sum, r
    <3>3. QED BY <2>4, <3>1, <3>2 DEF Remaining, sum
  <2>7. relocs[q.at].type = "64" /\ q.at \in 1..Len(relocs)
    BY <1>2, <2>1, <2>6
  <2> HIDE DEF q, r
  <2>8. /\ qrel' \in Seq(Remaining) /\ Len(qrel') = Len(qrel) + 1
        /\ qrel'[Len(qrel) + 1] = q
        /\ \A k \in 1..Len(qrel) : qrel'[k] = qrel[k]
    BY <1>1, <2>1, <2>6, AppendProperties
  <2>9. QED BY <1>1, <1>3, <2>7, <2>8
<1>6. QED BY <1>4, <1>5

LEMMA RelocateKeeps ==
    ASSUME LinkInv, Relocate
    PROVE  LinkInv' /\ KeepsOthers
<1> DEFINE i == applied + 1
           r == relocs[i]
<1>1. i \in 1..Len(relocs) /\ applied \in Nat /\ Len(relocs) \in Nat
  BY DEF Relocate, LinkInv
<1>2. UNCHANGED <<relocs, loaded, program>>
  BY DEF Relocate
<1>3. CASE UNCHANGED <<insn, applied, qrel>>
  BY <1>2, <1>3 DEF LinkInv, InPlace, KeepsOthers
<1>4. CASE Fits(r, Addr(i))
  <2>1. /\ insn' = IF LeftToLoader(r) THEN insn
                   ELSE [insn EXCEPT ![r.at] = Scatter(r, insn[r.at], Addr(r.at))]
        /\ qrel' = QrelAfter(r, insn[r.at])
        /\ applied' = i
    BY <1>4 DEF Relocate
  <2>2. /\ r.at \in 1..Len(relocs)
        /\ ImmediateOf(relocs[r.at].type) = ImmediateOf(r.type)
    BY <1>1, SameField
  <2>3. insn' \in Seq(Slots) /\ Len(insn') = Len(relocs) /\ KeepsOthers
    <3>1. CASE LeftToLoader(r)
      BY <2>1, <3>1 DEF LinkInv, KeepsOthers
    <3>2. CASE ~LeftToLoader(r)
      <4> DEFINE w == insn[r.at]
                 v == Scatter(r, w, Addr(r.at))
      <4>1. w \in Slots /\ r.type \in AllTypes
        <5>1. r \in Relocations
          BY <1>1 DEF LinkInv
        <5>2. r.type \in AllTypes
          BY <5>1 DEF Relocations
        <5>3. w \in Slots
          BY <2>2 DEF LinkInv
        <5>4. QED BY <5>2, <5>3
      <4>2. v \in Slots /\ Datum(v) \ ImmediateOf(r.type) = Datum(w) \ ImmediateOf(r.type)
        BY <4>1, ScatterKeeps
      <4>3. insn' = [insn EXCEPT ![r.at] = v]
        BY <2>1, <3>2
      <4> HIDE DEF v, r
      <4>4. QED BY <2>2, <4>2, <4>3, ChangeSlot
    <3>3. QED BY <3>1, <3>2
  <2>4. /\ qrel' \in Seq(Remaining) /\ Len(qrel) <= Len(qrel')
        /\ \A k \in 1..Len(qrel') :
               qrel'[k].at \in 1..Len(relocs') /\ relocs'[qrel'[k].at].type = "64"
    BY <1>1, <1>2, <2>1, QrelKeeps
  <2>5. loaded' \in 0..Len(qrel')
    BY <1>2, <2>4 DEF LinkInv
  <2>6. /\ program' \in Programs /\ relocs' \in Seq(Relocations)
        /\ \A j \in 1..Len(relocs') : InPlace(j)'
    BY <1>2 DEF LinkInv, InPlace
  <2>7. applied' \in 0..Len(relocs')
    BY <1>1, <1>2, <2>1
  <2>8. QED BY <1>2, <2>3, <2>4, <2>5, <2>6, <2>7 DEF LinkInv
<1>5. QED BY <1>3, <1>4 DEF Relocate

LEMMA LoadKeeps ==
    ASSUME LinkInv, Load
    PROVE  LinkInv' /\ KeepsOthers
<1> DEFINE q == qrel[loaded + 1]
           sum == Plus(64, q.addend, IF q.type = "RELATIVE" THEN Base ELSE Elsewhere)
<1>1. /\ q \in Remaining /\ q.at \in 1..Len(relocs) /\ relocs[q.at].type = "64"
      /\ loaded + 1 \in 0..Len(qrel)
  BY DEF Load, LinkInv
<1>2. sum \in SUBSET (0..63)
  <2> DEFINE base == IF q.type = "RELATIVE" THEN Base ELSE Elsewhere
  <2>1. q.addend \in SUBSET (0..63)
    BY <1>1 DEF Remaining
  <2>2. base \in SUBSET (0..63)
    BY WordAssumption
  <2> HIDE DEF base
  <2>3. Plus(64, q.addend, base) \in SUBSET (0..63)
    BY <2>1, <2>2, SumRange
  <2>4. QED BY <2>3 DEF base
<1>3. insn' = [insn EXCEPT ![q.at] = Halves(sum)] /\ loaded' = loaded + 1
  BY DEF Load
<1> HIDE DEF sum
<1>4. Halves(sum) \in Slots
  BY <1>2, HalvesDatum
<1>5. insn[q.at] \in Slots
  BY <1>1 DEF LinkInv
<1>6. ImmediateOf(relocs[q.at].type) = 0..63
  BY <1>1 DEF ImmediateOf, Width, DataTypes, PointerTypes, HiTypes
<1>7. Datum(Halves(sum)) \ 0..63 = Datum(insn[q.at]) \ 0..63
  BY <1>4, <1>5, DatumRange
<1> DEFINE v == Halves(sum)
           j == q.at
<1>8. /\ v \in Slots /\ j \in 1..Len(relocs) /\ insn' = [insn EXCEPT ![j] = v]
      /\ Datum(v) \ ImmediateOf(relocs[j].type) = Datum(insn[j]) \ ImmediateOf(relocs[j].type)
  BY <1>1, <1>3, <1>4, <1>6, <1>7
<1> HIDE DEF v, j
<1>9. insn' \in Seq(Slots) /\ Len(insn') = Len(relocs) /\ KeepsOthers
  BY <1>8, ChangeSlot
<1>10. UNCHANGED <<relocs, applied, qrel, program>>
  BY DEF Load
<1>11. QED BY <1>1, <1>3, <1>9, <1>10 DEF LinkInv, InPlace

-----------------------------------------------------------------------------
(* Only immediates and data change *)

LEMMA NextLink == LinkInv /\ [Next]_vars => LinkInv' /\ KeepsOthers
<1> SUFFICES ASSUME LinkInv, [Next]_vars PROVE LinkInv' /\ KeepsOthers
  OBVIOUS
<1>1. CASE EmitJump       BY <1>1, EmitJumpKeeps
<1>2. CASE EmitAccess     BY <1>2, EmitAccessKeeps
<1>3. CASE EmitForeign    BY <1>3, EmitForeignKeeps
<1>4. CASE EmitPointer    BY <1>4, EmitPointerKeeps
<1>5. CASE EmitDifference BY <1>5, EmitDifferenceKeeps
<1>6. CASE Relocate       BY <1>6, RelocateKeeps
<1>7. CASE Load           BY <1>7, LoadKeeps
<1>8. CASE RelocatePlt \/ UNCHANGED vars
  <2>1. UNCHANGED <<relocs, insn, applied, qrel, loaded, program>>
    BY <1>8 DEF RelocatePlt, vars
  <2>2. QED BY <2>1 DEF LinkInv, InPlace, KeepsOthers
<1>9. QED BY <1>1, <1>2, <1>3, <1>4, <1>5, <1>6, <1>7, <1>8 DEF Next

\* The relocations of greloca, put_elf_reloca and init_putv each have a slot for their own
\* or share that of the difference they complete, and those that are left to the loader are
\* of pointers.
THEOREM LinkCorrect == Spec => []LinkInv
<1>1. QED BY InitLink, NextLink, PTL DEF Spec

\* relocate, and the loader after it, change no bit of a word of code or data but those of
\* the immediate or the datum that the type of the relocation names, for any program, any
\* addresses and any symbols.
THEOREM ImmediatesCorrect == Spec => OnlyImmediates
<1>1. QED BY LinkCorrect, NextLink, PTL DEF Spec, OnlyImmediates

-----------------------------------------------------------------------------
-----------------------------------------------------------------------------
(* What a processor reads from the immediates that relocate writes *)

\* An offset that is in reach is the immediate of its bits.
LEMMA SextReach ==
    ASSUME NEW n \in 2..64, NEW off, InReach(n, off), NEW P,
           \A k : k \in P <=> k \in 1..n - 1 /\ k \in off
    PROVE  Sext(64, P, n) = off
<1>1. \A k : k \in Sext(64, P, n) <=> k \in Sext(64, off, n)
  <2>1. 0 \notin off
    BY DEF InReach
  <2>2. \A k : k \in P \cap 0..n - 1 <=> k \in off \cap 0..n - 1
    BY <2>1
  <2>3. n - 1 \in P <=> n - 1 \in off
    OBVIOUS
  <2> QED
    BY <2>2, <2>3 DEF Sext
<1> QED
  BY <1>1 DEF InReach

\* The bits of the parts of an offset.
LEMMA AtIs ==
    ASSUME NEW off, NEW lo \in Nat, NEW hi \in Nat, NEW at \in Nat, NEW k \in Int
    PROVE  k \in At(off, lo, hi, at) <=> k \in at..at + hi - lo /\ k - at + lo \in off
<1>1. ASSUME k \in at..at + hi - lo, k - at + lo \in off PROVE k \in At(off, lo, hi, at)
  <2>1. k - at + lo \in off \cap lo..hi /\ (k - at + lo) - lo + at = k
    BY <1>1
  <2> QED
    BY <2>1 DEF At, Piece
<1>2. ASSUME k \in At(off, lo, hi, at) PROVE k \in at..at + hi - lo /\ k - at + lo \in off
  <2>1. PICK j \in off \cap lo..hi : k = j - lo + at
    BY <1>2 DEF At, Piece
  <2>2. k - at + lo = j
    BY <2>1
  <2> QED
    BY <2>1, <2>2
<1> QED
  BY <1>1, <1>2

\* A part of an offset, moved to where the instruction has it.
LEMMA PieceIs ==
    ASSUME NEW insn0, NEW lo \in Nat, NEW hi \in Nat, NEW at \in Nat
    PROVE  \A k : k \in Piece(insn0, lo, hi, at) <=>
                      k \in at..at + hi - lo /\ k - at + lo \in insn0
<1>1. \A k \in Piece(insn0, lo, hi, at) : k \in Int
  BY DEF Piece
<1>2. \A k \in Int : k \in Piece(insn0, lo, hi, at) <=>
                      k \in at..at + hi - lo /\ k - at + lo \in insn0
  BY AtIs DEF At
<1> QED
  BY <1>1, <1>2

\* The immediate is what is put in the field.
LEMMA PutIs ==
    ASSUME NEW word, NEW field, NEW imm, NEW k, k \in field
    PROVE  k \in Put(word, field, imm) <=> k \in imm
BY DEF Put

\* A branch, a jump, and the two short ones: the immediate is the offset.
LEMMA BranchReads ==
    ASSUME NEW word, NEW off, InReach(13, off)
    PROVE  ImmB(Put(word, 7..11 \cup 25..31,
                    At(off, 12, 12, 31) \cup At(off, 5, 10, 25) \cup At(off, 1, 4, 8)
                    \cup At(off, 11, 11, 7))) = off
<1> DEFINE imm == At(off, 12, 12, 31) \cup At(off, 5, 10, 25) \cup At(off, 1, 4, 8)
                  \cup At(off, 11, 11, 7)
           v == Put(word, 7..11 \cup 25..31, imm)
           P == Piece(v, 8, 11, 1) \cup Piece(v, 25, 30, 5) \cup Piece(v, 7, 7, 11)
                \cup Piece(v, 31, 31, 12)
<1>1. \A k \in Int : k \in imm <=>
          \/ k = 31 /\ 12 \in off
          \/ k \in 25..30 /\ k - 20 \in off
          \/ k \in 8..11 /\ k - 7 \in off
          \/ k = 7 /\ 11 \in off
  BY AtIs
<1>2. \A k \in 7..11 \cup 25..31 : k \in v <=> k \in imm
  BY PutIs
<1> HIDE DEF imm, v
<1>3. \A k : k \in P <=>
          \/ k \in 1..4 /\ k + 7 \in v
          \/ k \in 5..10 /\ k + 20 \in v
          \/ k = 11 /\ 7 \in v
          \/ k = 12 /\ 31 \in v
  BY PieceIs
<1> HIDE DEF P
<1>4. \A k : k \in P <=> k \in 1..13 - 1 /\ k \in off
  BY <1>1, <1>2, <1>3
<1>5. Sext(64, P, 13) = off
  BY <1>4, SextReach
<1> QED
  BY <1>5 DEF P, ImmB, v, imm


LEMMA JumpReads ==
    ASSUME NEW word, NEW off, InReach(21, off)
    PROVE  ImmJ(Put(word, 12..31,
                    At(off, 12, 19, 12) \cup At(off, 11, 11, 20) \cup At(off, 1, 10, 21)
                    \cup At(off, 20, 20, 31))) = off
<1> DEFINE imm == At(off, 12, 19, 12) \cup At(off, 11, 11, 20) \cup At(off, 1, 10, 21)
                  \cup At(off, 20, 20, 31)
           v == Put(word, 12..31, imm)
           P == Piece(v, 21, 30, 1) \cup Piece(v, 20, 20, 11) \cup Piece(v, 12, 19, 12)
                \cup Piece(v, 31, 31, 20)
<1>1. \A k \in Int : k \in imm <=>
          \/ k \in 12..19 /\ k \in off
          \/ k = 20 /\ 11 \in off
          \/ k \in 21..30 /\ k - 20 \in off
          \/ k = 31 /\ 20 \in off
  BY AtIs
<1>2. \A k \in 12..31 : k \in v <=> k \in imm
  BY PutIs
<1> HIDE DEF imm, v
<1>3. \A k : k \in P <=>
          \/ k \in 1..10 /\ k + 20 \in v
          \/ k = 11 /\ 20 \in v
          \/ k \in 12..19 /\ k \in v
          \/ k = 20 /\ 31 \in v
  BY PieceIs
<1> HIDE DEF P
<1>4. \A k : k \in P <=> k \in 1..21 - 1 /\ k \in off
  BY <1>1, <1>2, <1>3
<1>5. Sext(64, P, 21) = off
  BY <1>4, SextReach
<1> QED
  BY <1>5 DEF P, ImmJ, v, imm

LEMMA ShortBranchReads ==
    ASSUME NEW word, NEW off, InReach(9, off)
    PROVE  ImmCB(Put(word, 2..6 \cup 10..12,
                     At(off, 5, 5, 2) \cup At(off, 1, 2, 3) \cup At(off, 6, 7, 5)
                     \cup At(off, 3, 4, 10) \cup At(off, 8, 8, 12))) = off
<1> DEFINE imm == At(off, 5, 5, 2) \cup At(off, 1, 2, 3) \cup At(off, 6, 7, 5)
                  \cup At(off, 3, 4, 10) \cup At(off, 8, 8, 12)
           v == Put(word, 2..6 \cup 10..12, imm)
           P == Piece(v, 3, 4, 1) \cup Piece(v, 10, 11, 3) \cup Piece(v, 2, 2, 5)
                \cup Piece(v, 5, 6, 6) \cup Piece(v, 12, 12, 8)
<1>1. \A k \in Int : k \in imm <=>
          \/ k = 2 /\ 5 \in off
          \/ k \in 3..4 /\ k - 2 \in off
          \/ k \in 5..6 /\ k + 1 \in off
          \/ k \in 10..11 /\ k - 7 \in off
          \/ k = 12 /\ 8 \in off
  BY AtIs
<1>2. \A k \in 2..6 \cup 10..12 : k \in v <=> k \in imm
  BY PutIs
<1> HIDE DEF imm, v
<1>3. \A k : k \in P <=>
          \/ k \in 1..2 /\ k + 2 \in v
          \/ k \in 3..4 /\ k + 7 \in v
          \/ k = 5 /\ 2 \in v
          \/ k \in 6..7 /\ k - 1 \in v
          \/ k = 8 /\ 12 \in v
  BY PieceIs
<1> HIDE DEF P
<1>4. \A k : k \in P <=> k \in 1..9 - 1 /\ k \in off
  BY <1>1, <1>2, <1>3
<1>5. Sext(64, P, 9) = off
  BY <1>4, SextReach
<1> QED
  BY <1>5 DEF P, ImmCB, v, imm

LEMMA ShortJumpReads ==
    ASSUME NEW word, NEW off, InReach(12, off)
    PROVE  ImmCJ(Put(word, 2..12,
                     At(off, 5, 5, 2) \cup At(off, 1, 3, 3) \cup At(off, 7, 7, 6)
                     \cup At(off, 6, 6, 7) \cup At(off, 10, 10, 8) \cup At(off, 8, 9, 9)
                     \cup At(off, 4, 4, 11) \cup At(off, 11, 11, 12))) = off
<1> DEFINE imm == At(off, 5, 5, 2) \cup At(off, 1, 3, 3) \cup At(off, 7, 7, 6)
                  \cup At(off, 6, 6, 7) \cup At(off, 10, 10, 8) \cup At(off, 8, 9, 9)
                  \cup At(off, 4, 4, 11) \cup At(off, 11, 11, 12)
           v == Put(word, 2..12, imm)
           P == Piece(v, 3, 5, 1) \cup Piece(v, 11, 11, 4) \cup Piece(v, 2, 2, 5)
                \cup Piece(v, 7, 7, 6) \cup Piece(v, 6, 6, 7) \cup Piece(v, 9, 10, 8)
                \cup Piece(v, 8, 8, 10) \cup Piece(v, 12, 12, 11)
<1>1. \A k \in Int : k \in imm <=>
          \/ k = 2 /\ 5 \in off
          \/ k \in 3..5 /\ k - 2 \in off
          \/ k = 6 /\ 7 \in off
          \/ k = 7 /\ 6 \in off
          \/ k = 8 /\ 10 \in off
          \/ k \in 9..10 /\ k - 1 \in off
          \/ k = 11 /\ 4 \in off
          \/ k = 12 /\ 11 \in off
  BY AtIs
<1>2. \A k \in 2..12 : k \in v <=> k \in imm
  BY PutIs
<1> HIDE DEF imm, v
<1>3. \A k : k \in P <=>
          \/ k \in 1..3 /\ k + 2 \in v
          \/ k = 4 /\ 11 \in v
          \/ k = 5 /\ 2 \in v
          \/ k = 6 /\ 7 \in v
          \/ k = 7 /\ 6 \in v
          \/ k \in 8..9 /\ k + 1 \in v
          \/ k = 10 /\ 8 \in v
          \/ k = 11 /\ 12 \in v
  BY PieceIs
<1> HIDE DEF P
<1>4. \A k : k \in P <=> k \in 1..12 - 1 /\ k \in off
  BY <1>1, <1>2, <1>3
<1>5. Sext(64, P, 12) = off
  BY <1>4, SextReach
<1> QED
  BY <1>5 DEF P, ImmCJ, v, imm

\* A page of 20 signed bits, and its low half.
LEMMA ShlIs ==
    ASSUME NEW a, NEW w \in Nat, NEW s \in Nat
    PROVE  \A k : k \in Shl(w, a, s) <=> k \in 0..w - 1 /\ k - s \in a
BY DEF Shl


LEMMA SextIs ==
    ASSUME NEW a, NEW n \in 1..64
    PROVE  \A k : k \in Sext(64, a, n) <=>
               (k \in a /\ k \in 0..n - 1) \/ (n - 1 \in a /\ k \in n..63)
BY DEF Sext

\* The upper half of an address is read from the instruction that has it.
LEMMA UpperReads ==
    ASSUME NEW word, NEW y \in SUBSET (0..63), NEW page,
           \A k \in 0..51 : k \in page <=> k + 12 \in y,
           \A k \in 20..51 : k \in page <=> 19 \in page
    PROVE  ImmU(Hi20(word, page)) = y \ (0..11)
<1> DEFINE imm == Shl(32, page \cap 0..19, 12)
           v == Put(word, 12..31, imm)
           P == Piece(v, 12, 31, 12)
<1>1. \A k \in 12..31 : k \in imm <=> k \in y
  <2>1. \A k \in 12..31 : k \in imm <=> k - 12 \in page
    BY ShlIs
  <2>2. \A k \in 12..31 : k - 12 \in page <=> k \in y
    OBVIOUS
  <2> QED
    BY <2>1, <2>2
<1>2. \A k \in 12..31 : k \in v <=> k \in imm
  BY PutIs
<1> HIDE DEF imm, v
<1>3. \A k : k \in P <=> k \in 12..31 /\ k \in v
  BY PieceIs
<1> HIDE DEF P
<1>4. \A k : k \in P <=> k \in 12..31 /\ k \in y
  BY <1>1, <1>2, <1>3
<1>5. \A k \in 32..63 : k \in y <=> 31 \in y
  <2>1. \A k \in 20..51 : k + 12 \in y <=> 19 + 12 \in y
    OBVIOUS
  <2> QED
    BY <2>1
<1>6. \A k : k \in Sext(64, P, 32) <=> k \in y \ (0..11)
  <2>1. \A k : k \in Sext(64, P, 32) <=> k \in P \/ (31 \in P /\ k \in 32..63)
    <3>1. \A k : k \in Sext(64, P, 32) <=>
                     (k \in P /\ k \in 0..32 - 1) \/ (32 - 1 \in P /\ k \in 32..63)
      BY SextIs
    <3>2. \A k \in P : k \in 0..32 - 1
      BY <1>4
    <3> QED
      BY <3>1, <3>2
  <2>2. \A k : k \in y \ (0..11) <=> k \in 12..63 /\ k \in y
    <3>1. ASSUME NEW k \in y PROVE k \notin 0..11 <=> k \in 12..63
      <4>1. k \in 0..63
        OBVIOUS
      <4> QED
        BY <4>1
    <3> QED
      BY <3>1
  <2> QED
    BY <1>4, <1>5, <2>1, <2>2
<1>7. Sext(64, P, 32) = y \ (0..11)
  BY <1>6
<1> QED
  BY <1>7 DEF P, v, imm, ImmU, Hi20

\* The lower half of an address is read from the instruction that has it.
LEMMA LowerReads ==
    ASSUME NEW word, NEW off
    PROVE  /\ ImmI(Lo12_I(word, off)) = Sext(64, off, 12)
           /\ ImmS(Lo12_S(word, off)) = Sext(64, off, 12)
<1>1. ImmI(Lo12_I(word, off)) = Sext(64, off, 12)
  <2> DEFINE imm == Shl(32, off \cap 0..11, 20)
             v == Put(word, 20..31, imm)
             P == Piece(v, 20, 31, 0)
  <2>1. \A k \in 20..31 : k \in imm <=> k - 20 \in off
    BY ShlIs
  <2>2. \A k \in 20..31 : k \in v <=> k \in imm
    BY PutIs
  <2> HIDE DEF imm, v
  <2>3. \A k : k \in P <=> k \in 0..11 /\ k + 20 \in v
    BY PieceIs
  <2> HIDE DEF P
  <2>4. \A k : k \in P <=> k \in 0..11 /\ k \in off
    BY <2>1, <2>2, <2>3
  <2>5. \A k : k \in Sext(64, P, 12) <=> k \in Sext(64, off, 12)
    BY <2>4 DEF Sext
  <2> QED
    BY <2>5 DEF P, v, imm, ImmI, Lo12_I
<1>2. ImmS(Lo12_S(word, off)) = Sext(64, off, 12)
  <2> DEFINE imm == Shl(32, off \cap 5..11, 20) \cup Shl(32, off \cap 0..4, 7)
             v == Put(word, 7..11 \cup 25..31, imm)
             P == Piece(v, 7, 11, 0) \cup Piece(v, 25, 31, 5)
  <2>1. \A k \in Int : k \in imm <=>
            \/ k \in 25..31 /\ k - 20 \in off
            \/ k \in 7..11 /\ k - 7 \in off
    <3>1. \A k : k \in Shl(32, off \cap 5..11, 20) <=> k \in 0..31 /\ k - 20 \in off \cap 5..11
      BY ShlIs
    <3>2. \A k : k \in Shl(32, off \cap 0..4, 7) <=> k \in 0..31 /\ k - 7 \in off \cap 0..4
      BY ShlIs
    <3>3. \A k : k \in imm <=>
              \/ k \in 0..31 /\ k - 20 \in off /\ k - 20 \in 5..11
              \/ k \in 0..31 /\ k - 7 \in off /\ k - 7 \in 0..4
      BY <3>1, <3>2
    <3> HIDE DEF imm
    <3> SUFFICES ASSUME NEW k \in Int
                 PROVE  k \in imm <=>
                            \/ k \in 25..31 /\ k - 20 \in off
                            \/ k \in 7..11 /\ k - 7 \in off
      OBVIOUS
    <3>4. /\ k \in 25..31 <=> k \in 0..31 /\ k - 20 \in 5..11
          /\ k \in 7..11 <=> k \in 0..31 /\ k - 7 \in 0..4
      OBVIOUS
    <3>5. k \in imm <=>
              \/ k \in 0..31 /\ k - 20 \in off /\ k - 20 \in 5..11
              \/ k \in 0..31 /\ k - 7 \in off /\ k - 7 \in 0..4
      BY <3>3
    <3> QED
      BY ONLY <3>4, <3>5
  <2> HIDE DEF imm
  <2>2. \A k \in 7..11 \cup 25..31 : k \in v <=> k \in imm
    BY PutIs
  <2> HIDE DEF v
  <2>3. \A k : k \in P <=>
            \/ k \in 0..4 /\ k + 7 \in v
            \/ k \in 5..11 /\ k + 20 \in v
    BY PieceIs
  <2> HIDE DEF P
  <2>4. \A k : k \in P <=> k \in 0..11 /\ k \in off
    BY <2>1, <2>2, <2>3
  <2>5. \A k : k \in Sext(64, P, 12) <=> k \in Sext(64, off, 12)
    BY <2>4 DEF Sext
  <2> QED
    BY <2>5 DEF P, v, imm, ImmS, Lo12_S
<1> QED
  BY <1>1, <1>2

-----------------------------------------------------------------------------
(* The range checks *)

\* The unsigned comparison of relocate: what passes is what the bits from n - 1 up allow.
LEMMA FitsIs ==
    ASSUME NEW n \in 2..64, NEW off \in SUBSET (0..63)
    PROVE  FitsIn(n, off) <=> InReach(n, off)
<1> DEFINE y == Plus(64, off, {n - 1})
<1>0. 64 \in Nat /\ n \in 1..64 /\ off \in WordsOf(64) /\ {n - 1} \in WordsOf(64)
  BY DEF WordsOf
<1>1. y \in SUBSET (0..63)
  BY <1>0, PlusIs DEF WordsOf
<1>2. ASSUME FitsIn(n, off) PROVE InReach(n, off)
  <2>1. y \subseteq 1..n - 1
    BY <1>2, <1>1 DEF FitsIn
  <2>2. off = Sext(64, off, n)
    BY <1>0, <2>1, OffsetSigned
  <2>3. 0 \notin off
    <3>1. \A k : k \in y <=> (k \in off /\ k \in 0..n - 2) \/ (k = n - 1 /\ k \notin off)
      BY <1>0, <2>2, SignedOffset
    <3>2. 0 \in y <=> 0 \in off
      BY <3>1
    <3> QED
      BY <2>1, <3>2
  <2> QED
    BY <2>2, <2>3 DEF InReach
<1>3. ASSUME InReach(n, off) PROVE FitsIn(n, off)
  <2>1. off = Sext(64, off, n) /\ 0 \notin off
    BY <1>3 DEF InReach
  <2>2. \A k : k \in y <=> (k \in off /\ k \in 0..n - 2) \/ (k = n - 1 /\ k \notin off)
    BY <1>0, <2>1, SignedOffset
  <2>3. y \subseteq 1..n - 1
    BY <2>1, <2>2
  <2> QED
    BY <2>3 DEF FitsIn
<1> QED
  BY <1>2, <1>3

\* R_RISCV_JAL lets pass what 21 bits hold, and more.
LEMMA WiderReach ==
    ASSUME NEW off \in SUBSET (0..63), InReach(21, off)
    PROVE  FitsIn(22, off)
<1>1. off = Sext(64, off, 21) /\ 0 \notin off
  BY DEF InReach
<1>2. \A k : k \in off <=> k \in Sext(64, off, 22)
  <2>1. \A k : k \in off <=> (k \in off /\ k \in 0..20) \/ (20 \in off /\ k \in 21..63)
    BY <1>1 DEF Sext
  <2> QED
    BY <2>1 DEF Sext
<1>3. InReach(22, off)
  BY <1>1, <1>2 DEF InReach
<1> QED
  BY <1>3, FitsIs

LEMMA PageIs ==
    ASSUME NEW off \in SUBSET (0..63), NEW y, y = Plus(64, off, {11})
    PROVE  /\ y \in SUBSET (0..63)
           /\ PageOf(off) \in SUBSET (0..63) /\ PageOfUnsigned(off) \in SUBSET (0..51)
           /\ \A k \in 0..51 : k \in PageOf(off) <=> k + 12 \in y
           /\ \A k \in 0..51 : k \in PageOfUnsigned(off) <=> k + 12 \in y
<1>1. y \in SUBSET (0..63)
  BY PlusIs DEF WordsOf
<1>2. PageOfUnsigned(off) = Shr(y, 12) /\ PageOf(off) = Sext(64, Shr(y, 12), 52)
  BY DEF PageOf, PageOfUnsigned, Round
<1>3. Shr(y, 12) \in SUBSET (0..51) /\ \A k \in 0..51 : k \in Shr(y, 12) <=> k + 12 \in y
  BY <1>1 DEF Shr
<1>4. /\ Sext(64, Shr(y, 12), 52) \in SUBSET (0..63)
      /\ \A k \in 0..51 : k \in Sext(64, Shr(y, 12), 52) <=> k \in Shr(y, 12)
  BY <1>3 DEF Sext
<1> QED
  BY <1>1, <1>2, <1>3, <1>4

LEMMA PageRange ==
    ASSUME NEW off \in SUBSET (0..63)
    PROVE  PageOf(off) \in SUBSET (0..63) /\ PageOfUnsigned(off) \in SUBSET (0..51)
<1>1. PICK y : y = Plus(64, off, {11})
  OBVIOUS
<1> QED
  BY <1>1, PageIs

LEMMA PageFitsIs ==
    ASSUME NEW page \in SUBSET (0..63)
    PROVE  PageFits(page) <=> page = Sext(64, page, 21)
<1> DEFINE y == Plus(64, page, {20})
<1>0. 64 \in Nat /\ 21 \in 1..64 /\ page \in WordsOf(64) /\ {20} \in WordsOf(64) /\ 21 - 1 = 20
  BY DEF WordsOf
<1>1. y \in SUBSET (0..63)
  BY <1>0, PlusIs DEF WordsOf
<1>2. PageFits(page) <=> y \subseteq 0..20
  <2> HIDE DEF y
  <2>1. Shr(y, 21) = {} <=> y \subseteq 0..20
    BY <1>1 DEF Shr
  <2> QED
    BY <2>1 DEF PageFits, y
<1>3. ASSUME y \subseteq 0..20 PROVE page = Sext(64, page, 21)
  <2>1. Plus(64, page, {21 - 1}) \subseteq 0..21 - 1
    BY <1>0, <1>3
  <2> QED
    BY <1>0, <2>1, OffsetSigned
<1>4. ASSUME page = Sext(64, page, 21) PROVE y \subseteq 0..20
  <2> DEFINE n == 21
  <2>0. n \in 1..64 /\ page = Sext(64, page, n)
    BY <1>4
  <2>3. n = 21
    OBVIOUS
  <2> HIDE DEF n
  <2>1. \A k : k \in Plus(64, page, {n - 1}) <=>
               (k \in page /\ k \in 0..n - 2) \/ (k = n - 1 /\ k \notin page)
    BY <1>0, <2>0, SignedOffset
  <2>2. \A k \in y : k \in 0..20
    BY <2>1, <2>3
  <2> QED
    BY <2>2
<1> QED
  BY <1>2, <1>3, <1>4

LEMMA Narrower ==
    ASSUME NEW page, page = Sext(64, page, 20)
    PROVE  page = Sext(64, page, 21) /\ \A k \in 20..51 : k \in page <=> 19 \in page
<1>1. \A k : k \in page <=> (k \in page /\ k \in 0..19) \/ (19 \in page /\ k \in 20..63)
  BY DEF Sext
<1>2. \A k : k \in page <=> k \in Sext(64, page, 21)
  BY <1>1 DEF Sext
<1> QED
  BY <1>1, <1>2

-----------------------------------------------------------------------------
(* Addresses and data *)

\* The slots of a program have addresses of their own.
LEMMA AddrDiffer ==
    ASSUME NEW p \in Programs, NEW i \in 1..MaxRelocs[p], NEW j \in 1..MaxRelocs[p],
           Addr(i) = Addr(j)
    PROVE  i = j
<1>1. MaxRelocs[p] \in Nat /\ MaxRelocs[p] < 2^28
  BY ProgramAssumption, SectionAssumption
<1>2. 8 * i \in Short /\ 8 * j \in Short
  <2>1. ASSUME NEW n \in Nat, n < 2^28 PROVE 8 * n \in Short
    BY <2>1 DEF Short
  <2> QED
    BY <1>1, <2>1
<1>3. Bits(8 * i) = Bits(8 * j)
  <2> DEFINE a == Bits(8 * i)
             b == Bits(8 * j)
  <2>1. a \in WordsOf(64) /\ b \in WordsOf(64) /\ Text \in WordsOf(64)
    BY WordAssumption DEF Bits, WordsOf
  <2>2. Plus(64, Text, a) = Plus(64, Text, b)
    BY DEF Addr
  <2> HIDE DEF a, b
  <2>3. Plus(64, a, Text) = Plus(64, b, Text)
    BY <2>2, PlusCommutes
  <2>4. a = b
    BY <2>1, <2>3, PlusCancels
  <2> QED
    BY <2>4 DEF a, b
<1>4. 8 * i = 8 * j
  BY <1>2, <1>3, BitsDiffer
<1> QED
  BY <1>4

\* An offset leads to its symbol, and so do its two halves.
LEMMA OffsetLeads ==
    ASSUME NEW val \in SUBSET (0..63), NEW addr \in SUBSET (0..63),
           NEW off, off = Minus(64, val, addr)
    PROVE  /\ off \in SUBSET (0..63)
           /\ Plus(64, Plus(64, addr, Plus(64, off, {11}) \ (0..11)), Sext(64, off, 12)) = val
<1>0. 64 \in Nat /\ val \in WordsOf(64) /\ addr \in WordsOf(64) /\ WordsOf(64) = SUBSET (0..63)
  BY DEF WordsOf
<1>1. off \in WordsOf(64) /\ Plus(64, addr, off) = val
  BY <1>0, MinusIs
<1> DEFINE u == Plus(64, off, {11}) \ (0..11)
           l == Sext(64, off, 12)
<1>2. Plus(64, u, l) = off
  BY <1>1, HalvesAddUp
<1>3. u \in WordsOf(64) /\ l \in WordsOf(64)
  <2>1. Plus(64, off, {11}) \in SUBSET (0..63)
    BY <1>0, <1>1, SumRange
  <2>2. u \in SUBSET (0..63)
    BY <2>1
  <2>3. l \in SUBSET (0..63)
    BY <1>0, <1>1 DEF Sext
  <2> QED
    BY <1>0, <2>2, <2>3
<1> HIDE DEF u, l
<1>4. Plus(64, Plus(64, addr, u), l) = Plus(64, addr, Plus(64, u, l))
  BY <1>0, <1>3, PlusAssociates
<1> QED
  BY <1>0, <1>1, <1>2, <1>4 DEF u, l

\* What is put in the field of a datum is found there.
LEMMA DataReads ==
    ASSUME NEW w \in Slots, NEW F \in SUBSET (0..63), NEW imm \in SUBSET F
    PROVE  Datum(Halves(Put(Datum(w), F, imm))) \cap F = imm
<1> DEFINE d == Put(Datum(w), F, imm)
<1>1. d \in SUBSET (0..63)
  BY DatumRange DEF Put
<1>2. d \cap F = imm
  BY DEF Put
<1> HIDE DEF d
<1>3. Datum(Halves(d)) = d
  BY <1>1, HalvesDatum
<1> QED
  BY <1>2, <1>3 DEF d

-----------------------------------------------------------------------------
(* What the relocations of a program ask for *)

\* The bits that a relocation of data is about.
FieldOf(t) == 0..Width(t) - 1
Field(i) == Datum(insn[relocs[i].at]) \cap FieldOf(relocs[i].type)

\* The symbol of a relocation is one that its type may have.
Meant(r) ==
    /\ r.type \in Types[program]
    /\ r.type \in JumpTypes \cup HiTypes => r.val \in Targets[program]
    /\ r.type = "CALL" => r.val \in NearTargets[program]

\* A LO12 has the label of a HI20, and a SUB shares the slot of its ADD.
Written(i) ==
    /\ Meant(relocs[i])
    /\ relocs[i].type \in LoTypes =>
           \E h \in 1..Len(relocs) : relocs[h].type \in HiTypes /\ Addr(h) = relocs[i].val
    /\ relocs[i].type \in SubTypes => relocs[i].at # i

\* The data that is added to is zero until then.
Clear(i) == relocs[i].type \in PointerTypes \cup AddTypes => Field(i) = {}

\* last_hi is of a HI20 that is done, and of the last relocation if that is one.
LastHiRight ==
    /\ \/ last_hi.addr = {}
       \/ \E h \in 1..applied :
              /\ relocs[h].type \in HiTypes
              /\ last_hi = [addr |-> Addr(h), val |-> relocs[h].val]
    /\ applied > 0 /\ relocs[applied].type \in HiTypes => last_hi.addr = Addr(applied)

\* The relocation that failed did not fit.
FailedRight ==
    failed /\ plt # <<>> =>
        applied < Len(relocs) /\ ~Fits(relocs[applied + 1], Addr(applied + 1))

\* What the relocations ask for, what last_hi knows, and why relocate failed.
ReasonInv ==
    /\ got \in Gots[program]
    /\ Len(relocs) <= MaxRelocs[program]
    /\ \A i \in 1..Len(relocs) : Written(i)
    /\ \A i \in applied + 1..Len(relocs) : Clear(i)
    /\ LastHiRight
    /\ FailedRight

\* A program that grows.
LEMMA GrowReason ==
    ASSUME LinkInv, LinkInv', ReasonInv, applied = 0, plt = <<>>,
           UNCHANGED <<applied, last_hi, plt, got, failed, program>>,
           Len(relocs) <= Len(relocs'), Len(relocs') <= MaxRelocs[program],
           \A i \in 1..Len(relocs) : relocs'[i] = relocs[i] /\ insn'[i] = insn[i],
           \A i \in Len(relocs) + 1..Len(relocs') : Written(i)' /\ Clear(i)'
    PROVE  ReasonInv'
<1>1. Len(relocs) \in Nat /\ Len(relocs') \in Nat
  BY DEF LinkInv
<1>2. ASSUME NEW i \in 1..Len(relocs) PROVE Written(i)' /\ Clear(i)'
  <2>1. relocs'[i] = relocs[i] /\ relocs[i].at \in 1..Len(relocs)
    BY SameField
  <2>2. Written(i) /\ Clear(i)
    BY <1>1 DEF ReasonInv
  <2>3. Written(i)'
    <3>1. \A h \in 1..Len(relocs) : h \in 1..Len(relocs') /\ relocs'[h] = relocs[h]
      BY <1>1
    <3>2. \A h : Addr(h)' = Addr(h)
      BY DEF Addr
    <3> QED
      BY <2>1, <2>2, <3>1, <3>2 DEF Written, Meant
  <2>4. Clear(i)'
    BY <2>1, <2>2 DEF Clear, Field, FieldOf
  <2> QED
    BY <2>3, <2>4
<1>3. \A i \in 1..Len(relocs') : Written(i)' /\ Clear(i)'
  BY <1>1, <1>2
<1>4. LastHiRight' /\ FailedRight'
  <2>1. last_hi.addr = {}
    BY DEF ReasonInv, LastHiRight
  <2> QED
    BY <2>1 DEF LastHiRight, FailedRight
<1> QED
  BY <1>1, <1>3, <1>4 DEF ReasonInv

\* A program that grows by one relocation, or by two.
LEMMA OneReason ==
    ASSUME LinkInv, LinkInv', ReasonInv, applied = 0, plt = <<>>,
           UNCHANGED <<applied, last_hi, plt, got, failed, program>>,
           Len(relocs) < MaxRelocs[program],
           NEW r \in Relocations, NEW w \in Slots, Meant(r), r.at = Len(relocs) + 1,
           relocs' = Append(relocs, r), insn' = Append(insn, w),
           r.type \notin SubTypes,
           r.type \in LoTypes =>
               \E h \in 1..Len(relocs) : relocs[h].type \in HiTypes /\ Addr(h) = r.val,
           r.type \in PointerTypes \cup AddTypes => Datum(w) \cap FieldOf(r.type) = {}
    PROVE  ReasonInv'
<1>0. PICK n \in Nat : n = Len(relocs)
  BY DEF LinkInv
<1>1. /\ n \in Nat /\ Len(relocs') = n + 1 /\ relocs'[n + 1] = r
      /\ \A i \in 1..n : relocs'[i] = relocs[i]
  BY <1>0, AppendProperties DEF LinkInv
<1>2. insn'[n + 1] = w /\ \A i \in 1..n : insn'[i] = insn[i]
  BY <1>0, AppendProperties DEF LinkInv
<1>3. Written(n + 1)'
  <2>1. r.type \in LoTypes =>
            \E h \in 1..Len(relocs') : relocs'[h].type \in HiTypes /\ Addr(h) = r.val
    BY <1>1
  <2>2. \A h : Addr(h)' = Addr(h)
    BY DEF Addr
  <2>3. Meant(relocs[n + 1])'
    BY <1>1 DEF Meant
  <2>4. relocs'[n + 1].type \in LoTypes =>
            \E h \in 1..Len(relocs') : relocs'[h].type \in HiTypes /\ Addr(h) = relocs'[n + 1].val
    BY <1>1, <2>1
  <2>5. relocs'[n + 1].type \in SubTypes => relocs'[n + 1].at # n + 1
    BY <1>1
  <2> QED
    BY <2>2, <2>3, <2>4, <2>5 DEF Written, Meant
<1>4. Clear(n + 1)'
  BY <1>0, <1>1, <1>2 DEF Clear, Field, FieldOf
<1>5. \A i \in n + 1..Len(relocs') : Written(i)' /\ Clear(i)'
  <2>1. \A i \in n + 1..Len(relocs') : i = n + 1
    BY <1>1
  <2> QED
    BY <1>3, <1>4, <2>1
<1>6. MaxRelocs[program] \in Nat
  BY ProgramAssumption DEF LinkInv
<1>7. Len(relocs) <= Len(relocs') /\ Len(relocs') <= MaxRelocs[program]
  BY <1>0, <1>1, <1>6
<1>8. /\ \A i \in 1..Len(relocs) : relocs'[i] = relocs[i] /\ insn'[i] = insn[i]
      /\ \A i \in Len(relocs) + 1..Len(relocs') : Written(i)' /\ Clear(i)'
  BY <1>0, <1>1, <1>2, <1>5
<1> QED
  BY <1>7, <1>8, GrowReason

LEMMA TwoReason ==
    ASSUME LinkInv, LinkInv', ReasonInv, applied = 0, plt = <<>>,
           UNCHANGED <<applied, last_hi, plt, got, failed, program>>,
           Len(relocs) + 1 < MaxRelocs[program],
           NEW r1 \in Relocations, NEW r2 \in Relocations, NEW w1 \in Slots, NEW w2 \in Slots,
           Meant(r1), Meant(r2), r1.at = Len(relocs) + 1,
           relocs' = relocs \o <<r1, r2>>, insn' = insn \o <<w1, w2>>,
           r1.type \notin SubTypes \cup LoTypes \cup PointerTypes,
           r1.type \in AddTypes => Datum(w1) \cap FieldOf(r1.type) = {},
           r2.type \in LoTypes \cup SubTypes,
           r2.type \in LoTypes => r1.type \in HiTypes /\ r2.val = Addr(Len(relocs) + 1),
           r2.type \in SubTypes => r2.at = Len(relocs) + 1
    PROVE  ReasonInv'
<1>0. PICK n \in Nat : n = Len(relocs)
  BY DEF LinkInv
<1>1. /\ n \in Nat /\ Len(relocs') = n + 2 /\ relocs'[n + 1] = r1 /\ relocs'[n + 2] = r2
      /\ \A i \in 1..n : relocs'[i] = relocs[i]
  <2>1. <<r1, r2>> \in Seq(Relocations) /\ Len(<<r1, r2>>) = 2 /\ relocs \in Seq(Relocations)
    BY DEF LinkInv
  <2> QED
    BY <1>0, <2>1, ConcatProperties
<1>2. insn'[n + 1] = w1 /\ \A i \in 1..n : insn'[i] = insn[i]
  <2>1. /\ <<w1, w2>> \in Seq(Slots) /\ Len(<<w1, w2>>) = 2
        /\ insn \in Seq(Slots) /\ Len(insn) = Len(relocs)
    BY DEF LinkInv
  <2> DEFINE two == <<w1, w2>>
  <2>2. two \in Seq(Slots) /\ Len(two) = 2 /\ two[1] = w1 /\ insn' = insn \o two
    BY <2>1
  <2> HIDE DEF two
  <2>3. \A i \in 1..n + 2 : insn'[i] = IF i <= n THEN insn[i] ELSE two[i - n]
    BY <1>0, <2>1, <2>2, ConcatProperties
  <2>4. n + 1 \in 1..n + 2 /\ ~(n + 1 <= n) /\ (n + 1) - n = 1
    BY <1>0
  <2>5. \A i \in 1..n : i \in 1..n + 2 /\ i <= n
    BY <1>0
  <2> QED
    BY <2>2, <2>3, <2>4, <2>5
<1>3. \A h : Addr(h)' = Addr(h)
  BY DEF Addr
<1>4. Written(n + 1)' /\ Clear(n + 1)'
  <2>1. Written(n + 1)'
    <3>1. Meant(relocs[n + 1])'
      BY <1>1 DEF Meant
    <3>2. /\ relocs'[n + 1].type \in SubTypes => relocs'[n + 1].at # n + 1
          /\ ~(relocs'[n + 1].type \in LoTypes)
      BY <1>1
    <3> QED
      BY <3>1, <3>2 DEF Written, Meant
  <2>2. Clear(n + 1)'
    BY <1>0, <1>1, <1>2 DEF Clear, Field, FieldOf
  <2> QED
    BY <2>1, <2>2
<1>5. Written(n + 2)' /\ Clear(n + 2)'
  <2>1. Meant(relocs[n + 2])'
    BY <1>1 DEF Meant
  <2>2. relocs'[n + 2].type \in LoTypes =>
            \E h \in 1..Len(relocs') : relocs'[h].type \in HiTypes /\ Addr(h) = relocs'[n + 2].val
    <3>1. n + 1 \in 1..Len(relocs')
      BY <1>1
    <3> QED
      BY <1>1, <3>1
  <2>3. relocs'[n + 2].type \in SubTypes => relocs'[n + 2].at # n + 2
    BY <1>1
  <2>4. Written(n + 2)'
    BY <1>3, <2>1, <2>2, <2>3 DEF Written, Meant
  <2>5. Clear(n + 2)'
    <3>1. (LoTypes \cup SubTypes) \cap (PointerTypes \cup AddTypes) = {}
      BY DEF LoTypes, SubTypes, PointerTypes, AddTypes
    <3> QED
      BY <1>1, <3>1 DEF Clear
  <2> QED
    BY <2>4, <2>5
<1>6. \A i \in n + 1..Len(relocs') : Written(i)' /\ Clear(i)'
  <2>1. \A i \in n + 1..Len(relocs') : i = n + 1 \/ i = n + 2
    BY <1>1
  <2> QED
    BY <1>4, <1>5, <2>1
<1>7. MaxRelocs[program] \in Nat
  BY ProgramAssumption DEF LinkInv
<1>8. Len(relocs) <= Len(relocs') /\ Len(relocs') <= MaxRelocs[program]
  BY <1>0, <1>1, <1>7
<1>9. /\ \A i \in 1..Len(relocs) : relocs'[i] = relocs[i] /\ insn'[i] = insn[i]
      /\ \A i \in Len(relocs) + 1..Len(relocs') : Written(i)' /\ Clear(i)'
  BY <1>0, <1>1, <1>2, <1>6
<1> QED
  BY <1>8, <1>9, GrowReason

\* A new relocation means its symbol.
LEMMA NewMeans ==
    ASSUME LinkInv, NEW t \in Types[program], NEW val \in SUBSET (0..63),
           t \in JumpTypes \cup HiTypes => val \in Targets[program],
           t = "CALL" => val \in NearTargets[program]
    PROVE  /\ New(t, val) \in Relocations /\ New(t, val).type = t /\ New(t, val).val = val
           /\ New(t, val).at = Len(relocs) + 1
           /\ Meant(New(t, val))
<1>1. /\ New(t, val) \in Relocations /\ New(t, val).type = t
      /\ New(t, val).at = Len(relocs) + 1
  BY NewRelocation
<1>2. New(t, val).val = val
  BY DEF New
<1> DEFINE r == New(t, val)
<1> HIDE DEF r
<1>3. r \in Relocations /\ r.type = t /\ r.at = Len(relocs) + 1 /\ r.val = val
  BY <1>1, <1>2 DEF r
<1>4. Meant(r)
  BY <1>3 DEF Meant
<1> QED
  BY <1>3, <1>4 DEF r

\* The kinds of types have nothing in common.
LEMMA Kinds ==
    /\ JumpTypes \cap (HiTypes \cup LoTypes \cup DataTypes) = {}
    /\ HiTypes \cap (LoTypes \cup DataTypes) = {} /\ LoTypes \cap DataTypes = {}
    /\ PointerTypes \cap (AddTypes \cup SubTypes) = {} /\ AddTypes \cap SubTypes = {}
    /\ "CALL" \in JumpTypes
BY DEF JumpTypes, HiTypes, LoTypes, DataTypes, PointerTypes, AddTypes, SubTypes

-----------------------------------------------------------------------------
(* The actions, and the invariant on the relocations that are asked for *)

LEMMA EmitJumpReason ==
    ASSUME LinkInv, LinkInv', ReasonInv, EmitJump
    PROVE  ReasonInv'
<1>1. PICK t \in Types[program] \cap JumpTypes, w1 \in OldWords[program],
           w2 \in OldWords[program] :
      \E val \in IF t = "CALL" THEN NearTargets[program] ELSE Targets[program] :
          /\ relocs' = Append(relocs, New(t, val))
          /\ insn' = Append(insn, <<w1, w2>>)
  BY DEF EmitJump
<1>2. PICK val \in IF t = "CALL" THEN NearTargets[program] ELSE Targets[program] :
          /\ relocs' = Append(relocs, New(t, val))
          /\ insn' = Append(insn, <<w1, w2>>)
  BY <1>1
<1>3. val \in SUBSET (0..63) /\ val \in Targets[program]
      /\ (t = "CALL" => val \in NearTargets[program])
  <2>1. NearTargets[program] \subseteq Targets[program]
    BY ProgramAssumption DEF LinkInv
  <2> QED
    BY <2>1, Constants
<1>4. <<w1, w2>> \in Slots
  BY Constants
<1> DEFINE r == New(t, val)
<1>5. r \in Relocations /\ r.type = t /\ r.at = Len(relocs) + 1 /\ Meant(r)
  BY <1>3, NewMeans
<1>6. t \notin SubTypes \cup LoTypes \cup PointerTypes \cup AddTypes
  BY Kinds DEF DataTypes
<1>7. /\ Len(relocs) < MaxRelocs[program] /\ applied = 0 /\ plt = <<>>
      /\ UNCHANGED <<applied, last_hi, plt, got, failed, program>>
  BY DEF EmitJump
<1> HIDE DEF r
<1> DEFINE w == <<w1, w2>>
<1>8. relocs' = Append(relocs, r) /\ insn' = Append(insn, w) /\ w \in Slots
  BY <1>2, <1>4 DEF r
<1> HIDE DEF w
<1> QED
  BY <1>5, <1>6, <1>7, <1>8, OneReason

LEMMA EmitForeignReason ==
    ASSUME LinkInv, LinkInv', ReasonInv, EmitForeign
    PROVE  ReasonInv'
<1> DEFINE labels == {Addr(i) : i \in {j \in DOMAIN relocs : relocs[j].type \in HiTypes}}
<1>1. PICK t \in Types[program] \cap (HiTypes \cup LoTypes), w0 \in OldWords[program] :
      \E val \in IF t \in HiTypes THEN NearTargets[program] ELSE labels :
          /\ relocs' = Append(relocs, New(t, val))
          /\ insn' = Append(insn, <<w0, w0>>)
  BY DEF EmitForeign
<1>2. PICK val \in IF t \in HiTypes THEN NearTargets[program] ELSE labels :
          /\ relocs' = Append(relocs, New(t, val))
          /\ insn' = Append(insn, <<w0, w0>>)
  BY <1>1
<1>3. /\ t \in HiTypes => val \in Targets[program] /\ val \in SUBSET (0..63)
      /\ t \in LoTypes => /\ val \in SUBSET (0..63)
                          /\ \E h \in 1..Len(relocs) : relocs[h].type \in HiTypes /\ Addr(h) = val
  <2>1. CASE t \in HiTypes
    <3>1. NearTargets[program] \subseteq Targets[program]
      BY ProgramAssumption DEF LinkInv
    <3> QED
      BY <2>1, <3>1, Constants, Kinds
  <2>2. CASE t \in LoTypes
    <3>1. val \in labels
      BY <2>2, Kinds
    <3>2. PICK h \in DOMAIN relocs : relocs[h].type \in HiTypes /\ Addr(h) = val
      BY <3>1
    <3>3. h \in 1..Len(relocs)
      BY <3>2 DEF LinkInv
    <3> QED
      BY <2>2, <3>2, <3>3, AddrRange, Kinds
  <2> QED
    BY <2>1, <2>2
<1>4. val \in SUBSET (0..63) /\ <<w0, w0>> \in Slots
  BY <1>3, Constants
<1> DEFINE r == New(t, val)
<1>5. /\ r \in Relocations /\ r.type = t /\ r.at = Len(relocs) + 1 /\ r.val = val
      /\ Meant(r)
  <2>1. t \notin JumpTypes /\ t # "CALL" /\ t \in Types[program]
    BY Kinds
  <2> QED
    BY <1>3, <1>4, <2>1, NewMeans
<1>6. t \notin SubTypes \cup PointerTypes \cup AddTypes
  BY Kinds DEF DataTypes
<1>7. /\ Len(relocs) < MaxRelocs[program] /\ applied = 0 /\ plt = <<>>
      /\ UNCHANGED <<applied, last_hi, plt, got, failed, program>>
  BY DEF EmitForeign
<1> HIDE DEF r, labels
<1> DEFINE w == <<w0, w0>>
<1>8. relocs' = Append(relocs, r) /\ insn' = Append(insn, w) /\ w \in Slots
  BY <1>2, <1>4 DEF r
<1> HIDE DEF w
<1> QED
  BY <1>3, <1>5, <1>6, <1>7, <1>8, OneReason

LEMMA EmitAccessReason ==
    ASSUME LinkInv, LinkInv', ReasonInv, EmitAccess
    PROVE  ReasonInv'
<1> DEFINE label == Addr(Len(relocs) + 1)
<1>1. PICK hi \in Types[program] \cap HiTypes, lo \in Types[program] \cap LoTypes,
           w0 \in OldWords[program] :
      \E val \in IF hi = "GOT_HI20" THEN NearTargets[program] ELSE Targets[program] :
          /\ relocs' = relocs \o <<New(hi, val),
                                   [type |-> lo, at |-> Len(relocs) + 2, dyn |-> FALSE,
                                    val |-> label, addend |-> {}]>>
          /\ insn' = insn \o <<<<w0, w0>>, <<w0, w0>>>>
  BY DEF EmitAccess
<1> DEFINE r2 == [type |-> lo, at |-> Len(relocs) + 2, dyn |-> FALSE,
                  val |-> label, addend |-> {}]
<1>2. PICK val \in IF hi = "GOT_HI20" THEN NearTargets[program] ELSE Targets[program] :
          /\ relocs' = relocs \o <<New(hi, val), r2>>
          /\ insn' = insn \o <<<<w0, w0>>, <<w0, w0>>>>
  BY <1>1
<1>3. val \in Targets[program] /\ val \in SUBSET (0..63)
  <2>1. NearTargets[program] \subseteq Targets[program]
    BY ProgramAssumption DEF LinkInv
  <2> QED
    BY <2>1, Constants
<1> DEFINE r1 == New(hi, val)
<1>4. /\ r1 \in Relocations /\ r1.type = hi /\ r1.at = Len(relocs) + 1 /\ Meant(r1)
  <2>1. hi # "CALL" /\ hi \in Types[program]
    BY Kinds
  <2> QED
    BY <1>3, <2>1, NewMeans
<1>5. /\ r2 \in Relocations /\ r2.type = lo /\ r2.val = label /\ Meant(r2)
  <2>0. label \in SUBSET (0..63)
    BY AddrRange
  <2>1. label \in SUBSET (0..63) /\ Len(relocs) + 2 \in Nat
    <3> HIDE DEF label
    <3> QED
      BY <2>0 DEF LinkInv
  <2> HIDE DEF label
  <2>2. lo \in AllTypes
    BY DEF AllTypes
  <2>3. r2 \in Relocations
    BY <2>1, <2>2 DEF Relocations
  <2>4. lo \notin JumpTypes \cup HiTypes /\ lo # "CALL"
    BY Kinds
  <2> QED
    BY <2>3, <2>4 DEF Meant
<1>6. /\ hi \notin SubTypes \cup LoTypes \cup PointerTypes \cup AddTypes
      /\ lo \notin SubTypes \cup PointerTypes \cup AddTypes
  BY Kinds DEF DataTypes
<1>7. /\ Len(relocs) + 1 < MaxRelocs[program] /\ applied = 0 /\ plt = <<>>
      /\ UNCHANGED <<applied, last_hi, plt, got, failed, program>>
  BY DEF EmitAccess
<1> DEFINE w == <<w0, w0>>
<1>8. relocs' = relocs \o <<r1, r2>> /\ insn' = insn \o <<w, w>> /\ w \in Slots
  BY <1>2, Constants
<1> HIDE DEF r1, r2, w
<1>9. /\ r1.type \notin SubTypes \cup LoTypes \cup PointerTypes
      /\ r1.type \in AddTypes => Datum(w) \cap FieldOf(r1.type) = {}
      /\ r2.type \in LoTypes \cup SubTypes
      /\ r2.type \in LoTypes => r1.type \in HiTypes /\ r2.val = Addr(Len(relocs) + 1)
      /\ r2.type \in SubTypes => r2.at = Len(relocs) + 1
  BY <1>4, <1>5, <1>6
<1> QED
  BY <1>4, <1>5, <1>7, <1>8, <1>9, TwoReason

LEMMA EmitPointerReason ==
    ASSUME LinkInv, LinkInv', ReasonInv, EmitPointer
    PROVE  ReasonInv'
<1>1. PICK t \in Types[program] \cap PointerTypes, a \in Addends,
           sym \in Targets[program] \cup IF program \in Dynamic THEN {{}} ELSE {},
           dyn \in BOOLEAN :
          /\ relocs' = Append(relocs, [type |-> t, at |-> Len(relocs) + 1, dyn |-> dyn,
                                       val |-> Plus(64, sym, a), addend |-> a])
          /\ insn' = Append(insn, <<{}, {}>>)
  BY DEF EmitPointer
<1>2. a \in SUBSET (0..63) /\ sym \in SUBSET (0..63)
  BY Constants, WordAssumption
<1> DEFINE val == Plus(64, sym, a)
<1>3. val \in SUBSET (0..63)
  BY <1>2, SumRange
<1> HIDE DEF val
<1> DEFINE r == [type |-> t, at |-> Len(relocs) + 1, dyn |-> dyn, val |-> val, addend |-> a]
           w == <<{}, {}>>
<1>4. t \notin SubTypes \cup LoTypes \cup AddTypes \cup JumpTypes \cup HiTypes
      /\ t # "CALL" /\ t \in AllTypes
  BY Kinds DEF DataTypes, AllTypes
<1>5. r \in Relocations /\ r.type = t /\ r.at = Len(relocs) + 1
  <2>1. Len(relocs) + 1 \in Nat
    BY DEF LinkInv
  <2> QED
    BY <1>2, <1>3, <1>4, <2>1 DEF Relocations
<1>6. relocs' = Append(relocs, r) /\ insn' = Append(insn, w)
  BY <1>1 DEF val
<1>7. w \in Slots /\ Datum(w) = {}
  BY DEF Slots, HalfWords, Datum, Shl
<1>8. /\ Len(relocs) < MaxRelocs[program] /\ applied = 0 /\ plt = <<>>
      /\ UNCHANGED <<applied, last_hi, plt, got, failed, program>>
  BY DEF EmitPointer
<1> HIDE DEF r, w
<1>9. Meant(r)
  BY <1>4, <1>5 DEF Meant
<1>10. /\ r.type \notin SubTypes
       /\ r.type \in LoTypes =>
              \E h \in 1..Len(relocs) : relocs[h].type \in HiTypes /\ Addr(h) = r.val
       /\ r.type \in PointerTypes \cup AddTypes => Datum(w) \cap FieldOf(r.type) = {}
  BY <1>4, <1>5, <1>7
<1> QED
  BY <1>5, <1>6, <1>7, <1>8, <1>9, <1>10, OneReason

LEMMA EmitDifferenceReason ==
    ASSUME LinkInv, LinkInv', ReasonInv, EmitDifference
    PROVE  ReasonInv'
<1>1. PICK add \in Types[program] \cap AddTypes, sub \in Types[program] \cap SubTypes,
           w0 \in OldWords[program], to \in Targets[program], from \in Targets[program] :
          /\ Width(add) = Width(sub)
          /\ relocs' = relocs \o <<New(add, to), New(sub, from)>>
          /\ insn' = insn \o <<Halves(Datum(<<w0, w0>>) \ 0..Width(add) - 1), <<{}, {}>>>>
  BY DEF EmitDifference
<1>2. to \in SUBSET (0..63) /\ from \in SUBSET (0..63)
  BY Constants
<1>3. /\ add \notin SubTypes \cup LoTypes \cup PointerTypes \cup JumpTypes \cup HiTypes
      /\ sub \notin AddTypes \cup LoTypes \cup PointerTypes \cup JumpTypes \cup HiTypes
      /\ add # "CALL" /\ sub # "CALL"
  BY Kinds DEF DataTypes
<1> DEFINE r1 == New(add, to)
           r2 == New(sub, from)
           d == Datum(<<w0, w0>>) \ 0..Width(add) - 1
           w1 == Halves(d)
           w2 == <<{}, {}>>
<1>4. /\ r1 \in Relocations /\ r1.type = add /\ r1.at = Len(relocs) + 1 /\ Meant(r1)
      /\ r2 \in Relocations /\ r2.type = sub /\ r2.at = Len(relocs) + 1 /\ Meant(r2)
  BY <1>2, <1>3, NewMeans
<1>5. w1 \in Slots /\ Datum(w1) = d /\ w2 \in Slots
  <2>1. <<w0, w0>> \in Slots
    BY Constants
  <2>2. Datum(<<w0, w0>>) \in SUBSET (0..63)
    BY <2>1, DatumRange
  <2>3. d \in SUBSET (0..63)
    BY <2>2
  <2> HIDE DEF d
  <2>4. w1 \in Slots /\ Datum(w1) = d
    BY <2>3, HalvesDatum
  <2>5. w2 \in Slots
    BY DEF Slots, HalfWords
  <2> QED
    BY <2>4, <2>5
<1>6. d \cap FieldOf(add) = {}
  BY DEF FieldOf
<1>7. /\ Len(relocs) + 1 < MaxRelocs[program] /\ applied = 0 /\ plt = <<>>
      /\ UNCHANGED <<applied, last_hi, plt, got, failed, program>>
  BY DEF EmitDifference
<1>8. relocs' = relocs \o <<r1, r2>> /\ insn' = insn \o <<w1, w2>>
  BY <1>1
<1> HIDE DEF r1, r2, d, w1, w2
<1>9. /\ r1.type \notin SubTypes \cup LoTypes \cup PointerTypes
      /\ r1.type \in AddTypes => Datum(w1) \cap FieldOf(r1.type) = {}
      /\ r2.type \in LoTypes \cup SubTypes
      /\ r2.type \in LoTypes => r1.type \in HiTypes /\ r2.val = Addr(Len(relocs) + 1)
      /\ r2.type \in SubTypes => r2.at = Len(relocs) + 1
  BY <1>3, <1>4, <1>5, <1>6
<1> QED
  BY <1>4, <1>5, <1>7, <1>8, <1>9, TwoReason

\* Which slot a relocation has.
LEMMA SlotOf ==
    ASSUME LinkInv, ReasonInv, NEW i \in 1..Len(relocs)
    PROVE  /\ relocs[i].type \notin SubTypes => relocs[i].at = i
           /\ relocs[i].type \in SubTypes =>
                  /\ i > 1 /\ relocs[i].at = i - 1 /\ relocs[i - 1].type \in AddTypes
                  /\ Width(relocs[i - 1].type) = Width(relocs[i].type)
<1>1. InPlace(i) /\ Written(i)
  BY DEF LinkInv, ReasonInv
<1> QED
  BY <1>1 DEF InPlace, Written

\* What relocate leaves alone.
LEMMA RelocateStep ==
    ASSUME LinkInv, ReasonInv, Relocate, NEW i \in Nat, i = applied + 1
    PROVE  /\ i \in 1..Len(relocs) /\ Len(relocs) \in Nat /\ ~failed /\ plt # <<>>
           /\ UNCHANGED <<relocs, plt, got, loaded, program>>
           /\ relocs[i].at \in 1..Len(relocs)
           /\ ~Fits(relocs[i], Addr(i)) =>
                  failed' = TRUE /\ UNCHANGED <<insn, applied, last_hi, qrel>>
           /\ Fits(relocs[i], Addr(i)) =>
                  /\ applied' = i /\ UNCHANGED failed
                  /\ last_hi' = HiAfter(relocs[i], Addr(relocs[i].at))
                  /\ qrel' = QrelAfter(relocs[i], insn[relocs[i].at])
                  /\ ~LeftToLoader(relocs[i]) =>
                         insn'[relocs[i].at] =
                             Scatter(relocs[i], insn[relocs[i].at], Addr(relocs[i].at))
                  /\ \A j \in 1..Len(relocs) : j # relocs[i].at => insn'[j] = insn[j]
<1>1. i \in 1..Len(relocs) /\ Len(relocs) \in Nat
  BY DEF Relocate, LinkInv
<1>2. relocs[i].at \in 1..Len(relocs)
  BY <1>1, SameField
<1>3. /\ ~failed /\ plt # <<>> /\ UNCHANGED <<relocs, plt, got, loaded, program>>
      /\ ~Fits(relocs[i], Addr(i)) =>
             failed' = TRUE /\ UNCHANGED <<insn, applied, last_hi, qrel>>
  BY DEF Relocate
<1> DEFINE j0 == relocs[i].at
           w == Scatter(relocs[i], insn[j0], Addr(j0))
<1>4. ASSUME Fits(relocs[i], Addr(i))
      PROVE  /\ applied' = i /\ UNCHANGED failed
             /\ last_hi' = HiAfter(relocs[i], Addr(j0))
             /\ qrel' = QrelAfter(relocs[i], insn[j0])
             /\ insn' = IF LeftToLoader(relocs[i]) THEN insn ELSE [insn EXCEPT ![j0] = w]
  BY <1>4 DEF Relocate
<1>5. DOMAIN insn = 1..Len(relocs)
  BY DEF LinkInv
<1> HIDE DEF j0, w
<1>6. ASSUME Fits(relocs[i], Addr(i))
      PROVE  /\ ~LeftToLoader(relocs[i]) => insn'[j0] = w
             /\ \A j \in 1..Len(relocs) : j # j0 => insn'[j] = insn[j]
  <2>1. j0 \in 1..Len(relocs)
    BY <1>2 DEF j0
  <2> QED
    BY <1>4, <1>5, <1>6, <2>1
<1> QED
  BY <1>1, <1>2, <1>3, <1>4, <1>6 DEF j0, w

LEMMA FitsKept ==
    ASSUME UNCHANGED <<relocs, applied, last_hi>>
    PROVE  Fits(relocs[applied + 1], Addr(applied + 1))' <=>
               Fits(relocs[applied + 1], Addr(applied + 1))
BY DEF Fits, Addr, Off

LEMMA WrittenKept ==
    ASSUME UNCHANGED <<relocs, program>>, NEW i, Written(i)
    PROVE  Written(i)'
BY DEF Written, Meant, Addr

LEMMA RelocateReason ==
    ASSUME LinkInv, LinkInv', ReasonInv, Relocate
    PROVE  ReasonInv'
<1>0. PICK i \in Nat : i = applied + 1
  BY DEF LinkInv
<1>1. /\ i \in 1..Len(relocs) /\ Len(relocs) \in Nat /\ ~failed /\ plt # <<>>
      /\ UNCHANGED <<relocs, plt, got, loaded, program>>
  BY <1>0, RelocateStep
<1>2. \A k \in 1..Len(relocs) : Written(k)'
  <2>1. \A k \in 1..Len(relocs) : Written(k)
    BY DEF ReasonInv
  <2> QED
    BY <1>1, <2>1, WrittenKept
<1>3. CASE ~Fits(relocs[i], Addr(i))
  <2>1. failed' = TRUE /\ UNCHANGED <<insn, applied, last_hi, qrel>>
    BY <1>0, <1>3, RelocateStep
  <2>2. ~Fits(relocs[applied + 1], Addr(applied + 1))'
    BY <1>0, <1>1, <1>3, <2>1, FitsKept
  <2>3. FailedRight'
    <3>1. applied < Len(relocs)
      BY <1>0, <1>1 DEF LinkInv
    <3> QED
      BY <1>1, <2>1, <2>2, <3>1 DEF FailedRight
  <2>4. LastHiRight'
    <3>1. LastHiRight
      BY DEF ReasonInv
    <3>2. \A h : Addr(h)' = Addr(h)
      BY DEF Addr
    <3> QED
      BY <1>1, <2>1, <3>1, <3>2 DEF LastHiRight
  <2>5. \A k \in applied' + 1..Len(relocs') : Clear(k)'
    BY <1>1, <2>1 DEF ReasonInv, Clear, Field
  <2> QED
    BY <1>1, <1>2, <2>3, <2>4, <2>5 DEF ReasonInv
<1>4. CASE Fits(relocs[i], Addr(i))
  <2>1. /\ applied' = i /\ UNCHANGED failed
        /\ last_hi' = HiAfter(relocs[i], Addr(relocs[i].at))
        /\ \A j \in 1..Len(relocs) : j # relocs[i].at => insn'[j] = insn[j]
    BY <1>0, <1>4, RelocateStep
  <2>2. FailedRight'
    BY <1>1, <2>1 DEF FailedRight
  <2>3. LastHiRight'
    <3>1. LastHiRight
      BY DEF ReasonInv
    <3>2. \A h : Addr(h)' = Addr(h)
      BY DEF Addr
    <3>3. CASE relocs[i].type \in HiTypes
      <4>1. relocs[i].at = i
        BY <1>1, <3>3, SlotOf, Kinds DEF DataTypes
      <4>2. last_hi' = [addr |-> Addr(i), val |-> relocs[i].val]
        BY <2>1, <3>3, <4>1 DEF HiAfter
      <4>3. i \in 1..applied' /\ relocs'[i].type \in HiTypes /\ relocs' = relocs
        BY <1>1, <2>1, <3>3
      <4> QED
        BY <2>1, <3>2, <4>2, <4>3 DEF LastHiRight
    <3>4. CASE relocs[i].type \notin HiTypes
      <4>1. last_hi' = last_hi
        BY <2>1, <3>4 DEF HiAfter
      <4>2. \A h \in 1..applied : h \in 1..applied'
        BY <1>0, <2>1 DEF LinkInv
      <4> QED
        BY <1>1, <2>1, <3>1, <3>2, <3>4, <4>1, <4>2 DEF LastHiRight
    <3> QED
      BY <3>3, <3>4
  <2>4. ASSUME NEW k \in i + 1..Len(relocs) PROVE Clear(k)'
    <3>0. k \in 1..Len(relocs) /\ Clear(k)
      BY <1>0, <1>1 DEF ReasonInv
    <3>1. CASE relocs[k].type \in PointerTypes \cup AddTypes
      <4>1. relocs[k].at = k
        BY <3>0, <3>1, SlotOf, Kinds
      <4>2. relocs[i].at # k
        BY <1>1, SlotOf
      <4>3. insn'[k] = insn[k]
        BY <2>1, <3>0, <4>2
      <4> QED
        BY <1>1, <3>0, <4>1, <4>3 DEF Clear, Field, FieldOf
    <3>2. CASE relocs[k].type \notin PointerTypes \cup AddTypes
      BY <1>1, <3>2 DEF Clear
    <3> QED
      BY <3>1, <3>2
  <2>5. \A k \in applied' + 1..Len(relocs') : Clear(k)'
    BY <1>1, <2>1, <2>4
  <2> QED
    BY <1>1, <1>2, <2>2, <2>3, <2>5 DEF ReasonInv
<1> QED
  BY <1>3, <1>4

LEMMA RestReason ==
    ASSUME LinkInv, ReasonInv, Load \/ RelocatePlt \/ UNCHANGED vars
    PROVE  ReasonInv'
<1>1. UNCHANGED <<relocs, applied, last_hi, got, program>>
  BY DEF Load, RelocatePlt, vars
<1>2. \A k \in 1..Len(relocs) : Written(k)'
  <2>1. \A k \in 1..Len(relocs) : Written(k)
    BY DEF ReasonInv
  <2> QED
    BY <1>1, <2>1, WrittenKept
<1>3. LastHiRight'
  <2>1. LastHiRight /\ \A h : Addr(h)' = Addr(h)
    BY DEF ReasonInv, Addr
  <2> QED
    BY <1>1, <2>1 DEF LastHiRight
<1>4. FailedRight'
  <2>1. CASE RelocatePlt
    BY <2>1 DEF RelocatePlt, FailedRight
  <2>2. CASE UNCHANGED <<failed, plt>>
    <3>1. Fits(relocs[applied + 1], Addr(applied + 1))' <=>
              Fits(relocs[applied + 1], Addr(applied + 1))
      BY <1>1, FitsKept
    <3> QED
      BY <1>1, <2>2, <3>1 DEF FailedRight, ReasonInv
  <2> QED
    BY <2>1, <2>2 DEF Load, vars
<1>5. \A k \in applied + 1..Len(relocs) : Clear(k)'
  <2>1. CASE Load
    <3>1. applied + 1..Len(relocs) = {}
      BY <2>1 DEF Load, LinkInv
    <3> QED
      BY <3>1
  <2>2. CASE insn' = insn
    BY <1>1, <2>2 DEF ReasonInv, Clear, Field
  <2> QED
    BY <2>1, <2>2 DEF RelocatePlt, vars
<1> QED
  BY <1>1, <1>2, <1>3, <1>4, <1>5 DEF ReasonInv

LEMMA InitReason == Init => ReasonInv
<1> SUFFICES ASSUME Init PROVE ReasonInv
  OBVIOUS
<1>1. /\ program \in Programs /\ relocs = <<>> /\ applied = 0 /\ last_hi.addr = {}
      /\ got \in Gots[program] /\ ~failed
  BY DEF Init
<1>2. MaxRelocs[program] \in Nat
  BY <1>1, ProgramAssumption
<1> QED
  BY <1>1, <1>2 DEF ReasonInv, LastHiRight, FailedRight

LEMMA NextReason == LinkInv /\ LinkInv' /\ ReasonInv /\ [Next]_vars => ReasonInv'
<1> SUFFICES ASSUME LinkInv, LinkInv', ReasonInv, [Next]_vars PROVE ReasonInv'
  OBVIOUS
<1>1. CASE EmitJump       BY <1>1, EmitJumpReason
<1>2. CASE EmitAccess     BY <1>2, EmitAccessReason
<1>3. CASE EmitForeign    BY <1>3, EmitForeignReason
<1>4. CASE EmitPointer    BY <1>4, EmitPointerReason
<1>5. CASE EmitDifference BY <1>5, EmitDifferenceReason
<1>6. CASE Relocate       BY <1>6, RelocateReason
<1>7. CASE Load \/ RelocatePlt \/ UNCHANGED vars
  BY <1>7, RestReason
<1> QED BY <1>1, <1>2, <1>3, <1>4, <1>5, <1>6, <1>7 DEF Next

\* The relocations that greloca, put_elf_reloca and init_putv ask for are of symbols that
\* their types may have, last_hi is a HI20 that is done, and when relocate has failed the
\* relocation it stopped at did not fit.
THEOREM ReasonCorrect == Spec => []ReasonInv
<1> QED BY LinkCorrect, InitReason, NextReason, PTL DEF Spec

\* The HI20 that a LO12 names.
LEMMA HiIs ==
    ASSUME LinkInv, ReasonInv, NEW i \in 1..Len(relocs), relocs[i].type \in LoTypes
    PROVE  /\ HiOf(i) \in 1..Len(relocs) /\ Addr(HiOf(i)) = relocs[i].val
           /\ relocs[HiOf(i)].type \in HiTypes
           /\ \A h \in 1..Len(relocs) : Addr(h) = relocs[i].val => h = HiOf(i)
<1>1. DOMAIN relocs = 1..Len(relocs) /\ program \in Programs
  BY DEF LinkInv
<1>2. PICK h \in 1..Len(relocs) : relocs[h].type \in HiTypes /\ Addr(h) = relocs[i].val
  BY DEF ReasonInv, Written
<1>3. HiOf(i) \in 1..Len(relocs) /\ Addr(HiOf(i)) = relocs[i].val
  BY <1>1, <1>2 DEF HiOf
<1>4. \A k \in 1..Len(relocs) : k \in 1..MaxRelocs[program]
  BY <1>1, ProgramAssumption DEF ReasonInv, LinkInv
<1>5. \A k \in 1..Len(relocs) : Addr(k) = relocs[i].val => k = HiOf(i)
  BY <1>1, <1>3, <1>4, AddrDiffer
<1> QED
  BY <1>2, <1>3, <1>5

\* The offset of a relocation is the distance of its symbol.
LEMMA OffIs ==
    ASSUME LinkInv, NEW i \in 1..Len(relocs)
    PROVE  /\ relocs[i].val \in SUBSET (0..63) /\ Addr(i) \in SUBSET (0..63)
           /\ Off(relocs[i], Addr(i)) \in SUBSET (0..63)
           /\ Off(relocs[i], Addr(i)) = Minus(64, relocs[i].val, Addr(i))
<1>1. relocs[i].val \in SUBSET (0..63) /\ Addr(i) \in SUBSET (0..63)
  <2>1. relocs[i] \in Relocations
    BY DEF LinkInv
  <2>2. relocs[i].val \in SUBSET (0..63)
    BY <2>1 DEF Relocations
  <2> QED
    BY <2>2, AddrRange
<1>2. Off(relocs[i], Addr(i)) = Minus(64, relocs[i].val, Addr(i))
  BY DEF Off
<1> QED
  BY <1>1, <1>2, OffsetLeads

\* What does not fit is out of reach.
LEMMA NoFitNoReach ==
    ASSUME LinkInv, ReasonInv, failed, plt # <<>>, NEW i \in Nat, i = applied + 1,
           NEW t, t = relocs[i].type, NEW off, off = Off(relocs[i], Addr(i))
    PROVE  /\ t = "BRANCH" => ~InReach(13, off)
           /\ t = "JAL" => ~InReach(21, off)
           /\ t = "RVC_BRANCH" => ~InReach(9, off)
           /\ t = "RVC_JUMP" => ~InReach(12, off)
           /\ t \in HiTypes => PageOf(off) # Sext(64, PageOf(off), 20)
           /\ t \in LoTypes => i = 1 \/ HiOf(i) # i - 1
<1>1. i \in 1..Len(relocs) /\ ~Fits(relocs[i], Addr(i))
  BY DEF ReasonInv, FailedRight, LinkInv
<1>2. off \in SUBSET (0..63)
  BY <1>1, OffIs
<1>9. /\ FitsIn(13, off) <=> InReach(13, off)
      /\ FitsIn(9, off) <=> InReach(9, off)
      /\ FitsIn(12, off) <=> InReach(12, off)
  <2>1. \A n \in 2..64 : FitsIn(n, off) <=> InReach(n, off)
    BY <1>2, FitsIs
  <2>2. 13 \in 2..64 /\ 9 \in 2..64 /\ 12 \in 2..64
    OBVIOUS
  <2> QED
    BY <2>1, <2>2
<1>10. PageOf(off) \in SUBSET (0..63)
  BY <1>2, PageRange
<1> USE DEF HiTypes, LoTypes, DataTypes, PointerTypes, AddTypes, SubTypes
<1>3. ASSUME t = "BRANCH" PROVE ~InReach(13, off)
  <2>1. ~FitsIn(13, off)
    BY <1>1, <1>3 DEF Fits
  <2> QED
    BY <1>9, <2>1
<1>4. ASSUME t = "JAL" PROVE ~InReach(21, off)
  <2>1. ~FitsIn(22, off)
    BY <1>1, <1>4 DEF Fits
  <2> QED
    BY <1>2, <2>1, WiderReach
<1>5. ASSUME t = "RVC_BRANCH" PROVE ~InReach(9, off)
  <2>1. ~FitsIn(9, off)
    BY <1>1, <1>5 DEF Fits
  <2> QED
    BY <1>9, <2>1
<1>6. ASSUME t = "RVC_JUMP" PROVE ~InReach(12, off)
  <2>1. ~FitsIn(12, off)
    BY <1>1, <1>6 DEF Fits
  <2> QED
    BY <1>9, <2>1
<1>7. ASSUME t \in HiTypes PROVE PageOf(off) # Sext(64, PageOf(off), 20)
  <2>1. ~PageFits(PageOf(off))
    BY <1>1, <1>7 DEF Fits
  <2> QED
    BY <1>10, <2>1, PageFitsIs, Narrower
<1>8. ASSUME t \in LoTypes, i # 1, HiOf(i) = i - 1 PROVE FALSE
  <2>1. relocs[i].val # last_hi.addr
    BY <1>1, <1>8 DEF Fits
  <2>2. applied > 0 /\ HiOf(i) = applied
    BY <1>1, <1>8 DEF LinkInv
  <2>3. relocs[applied].type \in HiTypes /\ Addr(applied) = relocs[i].val
    BY <1>1, <1>8, <2>2, HiIs
  <2>4. last_hi.addr = Addr(applied)
    BY <2>2, <2>3 DEF ReasonInv, LastHiRight
  <2> QED
    BY <2>1, <2>3, <2>4
<1> QED
  BY <1>3, <1>4, <1>5, <1>6, <1>7, <1>8

\* relocate fails only at a relocation that cannot be made: its symbol is out of reach of
\* the immediate, or a LO12 does not follow its HI20.
THEOREM ReasonsGiven == Spec => []FailsWithReason
<1>1. LinkInv /\ ReasonInv => FailsWithReason
  <2> SUFFICES ASSUME LinkInv, ReasonInv, failed, plt # <<>> PROVE FailsWithReason
    BY DEF FailsWithReason
  <2>1. PICK i \in Nat : i = applied + 1
    BY DEF LinkInv
  <2>2. PICK t : t = relocs[i].type
    OBVIOUS
  <2>3. PICK off : off = Off(relocs[i], Addr(i))
    OBVIOUS
  <2>4. /\ t = "BRANCH" => ~InReach(13, off)
        /\ t = "JAL" => ~InReach(21, off)
        /\ t = "RVC_BRANCH" => ~InReach(9, off)
        /\ t = "RVC_JUMP" => ~InReach(12, off)
        /\ t \in HiTypes => PageOf(off) # Sext(64, PageOf(off), 20)
        /\ t \in LoTypes => i = 1 \/ HiOf(i) # i - 1
    BY <2>1, <2>2, <2>3, NoFitNoReach
  <2> QED
    BY <2>1, <2>2, <2>3, <2>4 DEF FailsWithReason
<1> QED BY <1>1, LinkCorrect, ReasonCorrect, PTL

-----------------------------------------------------------------------------
(* What the relocations that are done have reached *)

\* What an instruction adds for the upper half of the offset of relocation h.
HiPart(h) == Plus(64, Off(relocs[h], Addr(h)), Round) \ (0..11)
LoPart(h) == Sext(64, Off(relocs[h], Addr(h)), 12)

\* The offset of a relocation leads to its symbol, and so do its two halves.
LEMMA HalvesLead ==
    ASSUME LinkInv, NEW i \in 1..Len(relocs)
    PROVE  /\ Plus(64, Addr(i), Off(relocs[i], Addr(i))) = relocs[i].val
           /\ Plus(64, Plus(64, Addr(i), HiPart(i)), LoPart(i)) = relocs[i].val
<1>1. PICK val : val = relocs[i].val
  OBVIOUS
<1>2. PICK addr : addr = Addr(i)
  OBVIOUS
<1>3. PICK off : off = Off(relocs[i], Addr(i))
  OBVIOUS
<1>4. val \in SUBSET (0..63) /\ addr \in SUBSET (0..63) /\ off = Minus(64, val, addr)
  BY <1>1, <1>2, <1>3, OffIs
<1>5. Plus(64, addr, off) = val
  <2>1. 64 \in Nat /\ val \in WordsOf(64) /\ addr \in WordsOf(64)
    BY <1>4 DEF WordsOf
  <2>2. Plus(64, addr, Minus(64, val, addr)) = val
    BY <2>1, MinusIs
  <2> QED
    BY <1>4, <2>2
<1>6. Plus(64, Plus(64, addr, Plus(64, off, {11}) \ (0..11)), Sext(64, off, 12)) = val
  BY <1>4, OffsetLeads
<1> QED
  BY <1>1, <1>2, <1>3, <1>5, <1>6 DEF HiPart, LoPart, Round

\* The page of an offset, in the upper half of an instruction.
LEMMA PageReads ==
    ASSUME NEW word, NEW off \in SUBSET (0..63), PageOf(off) = Sext(64, PageOf(off), 20)
    PROVE  ImmU(Hi20(word, PageOf(off))) = Plus(64, off, Round) \ (0..11)
<1>1. PICK y : y = Plus(64, off, {11})
  OBVIOUS
<1>2. PICK page : page = PageOf(off)
  OBVIOUS
<1>3. y \in SUBSET (0..63) /\ \A k \in 0..51 : k \in page <=> k + 12 \in y
  BY <1>1, <1>2, PageIs
<1>4. \A k \in 20..51 : k \in page <=> 19 \in page
  BY <1>2, Narrower
<1>5. ImmU(Hi20(word, page)) = y \ (0..11)
  BY <1>3, <1>4, UpperReads
<1> QED
  BY <1>1, <1>2, <1>5 DEF Round

LEMMA UnsignedPageReads ==
    ASSUME NEW word, NEW off \in SUBSET (0..63), PageFits(PageOfUnsigned(off)),
           19 \notin PageOfUnsigned(off)
    PROVE  ImmU(Hi20(word, PageOfUnsigned(off))) = Plus(64, off, Round) \ (0..11)
<1>1. PICK y : y = Plus(64, off, {11})
  OBVIOUS
<1>2. PICK page : page = PageOfUnsigned(off)
  OBVIOUS
<1>3. y \in SUBSET (0..63) /\ \A k \in 0..51 : k \in page <=> k + 12 \in y
  BY <1>1, <1>2, PageIs
<1>4. page \in SUBSET (0..51)
  BY <1>2, PageRange
<1>5. page = Sext(64, page, 21)
  BY <1>2, <1>4, PageFitsIs
<1>6. \A k : k \in page <=> (k \in page /\ k \in 0..20) \/ (20 \in page /\ k \in 21..63)
  BY <1>5 DEF Sext
<1>7. 20 \notin page
  <2>1. 63 \notin page
    BY <1>4
  <2> QED
    BY <1>6, <2>1
<1>8. \A k \in 20..51 : k \in page <=> 19 \in page
  BY <1>2, <1>6, <1>7
<1>9. ImmU(Hi20(word, page)) = y \ (0..11)
  BY <1>3, <1>8, UpperReads
<1> QED
  BY <1>1, <1>2, <1>9 DEF Round

\* What the instructions hold after relocate.
LEMMA JumpsHold ==
    ASSUME NoGap, LinkInv, ReasonInv, NEW i \in 1..Len(relocs),
           relocs[i].type \in JumpTypes, Fits(relocs[i], Addr(i)),
           NEW w, NEW v, v = Scatter(relocs[i], w, Addr(i)),
           NEW off, off = Off(relocs[i], Addr(i)), NEW t, t = relocs[i].type
    PROVE  /\ t = "BRANCH" => ImmB(v[1]) = off
           /\ t = "JAL" => ImmJ(v[1]) = off
           /\ t = "RVC_BRANCH" => ImmCB(v[1]) = off
           /\ t = "RVC_JUMP" => ImmCJ(v[1]) = off
           /\ t = "CALL" => ImmU(v[1]) = HiPart(i) /\ ImmI(v[2]) = LoPart(i)
<1>1. off \in SUBSET (0..63) /\ off = Minus(64, relocs[i].val, Addr(i))
  BY OffIs
<1>2. /\ program \in Programs /\ i \in 1..MaxRelocs[program] /\ t \in Types[program]
      /\ relocs[i].val \in Targets[program]
      /\ t = "CALL" => relocs[i].val \in NearTargets[program]
  <2>1. program \in Programs /\ Meant(relocs[i])
    BY DEF LinkInv, ReasonInv, Written
  <2>2. i \in 1..MaxRelocs[program]
    BY <2>1, ProgramAssumption DEF ReasonInv, LinkInv
  <2> QED
    BY <2>1, <2>2 DEF Meant
<1>9. t \notin HiTypes \cup LoTypes \cup DataTypes
  BY Kinds
<1>3. /\ FitsIn(13, off) <=> InReach(13, off)
      /\ FitsIn(9, off) <=> InReach(9, off)
      /\ FitsIn(12, off) <=> InReach(12, off)
  <2>1. \A n \in 2..64 : FitsIn(n, off) <=> InReach(n, off)
    BY <1>1, FitsIs
  <2>2. 13 \in 2..64 /\ 9 \in 2..64 /\ 12 \in 2..64
    OBVIOUS
  <2> QED
    BY <2>1, <2>2
<1>4. ASSUME t = "BRANCH" PROVE ImmB(v[1]) = off
  <2>1. v[1] = Put(w[1], 7..11 \cup 25..31,
                   At(off, 12, 12, 31) \cup At(off, 5, 10, 25) \cup At(off, 1, 4, 8)
                   \cup At(off, 11, 11, 7))
    BY <1>4, <1>9 DEF Scatter
  <2>2. InReach(13, off)
    BY <1>3, <1>4, <1>9 DEF Fits
  <2> QED
    BY <2>1, <2>2, BranchReads
<1>5. ASSUME t = "JAL" PROVE ImmJ(v[1]) = off
  <2>1. v[1] = Put(w[1], 12..31,
                   At(off, 12, 19, 12) \cup At(off, 11, 11, 20) \cup At(off, 1, 10, 21)
                   \cup At(off, 20, 20, 31))
    BY <1>5, <1>9 DEF Scatter
  <2>2. FitsIn(22, off)
    BY <1>5, <1>9 DEF Fits
  <2>3. InReach(21, off)
    BY <1>1, <1>2, <1>5, <2>2 DEF NoGap
  <2> QED
    BY <2>1, <2>3, JumpReads
<1>6. ASSUME t = "RVC_BRANCH" PROVE ImmCB(v[1]) = off
  <2>1. v[1] = Put(w[1], 2..6 \cup 10..12,
                   At(off, 5, 5, 2) \cup At(off, 1, 2, 3) \cup At(off, 6, 7, 5)
                   \cup At(off, 3, 4, 10) \cup At(off, 8, 8, 12))
    BY <1>6, <1>9 DEF Scatter
  <2>2. InReach(9, off)
    BY <1>3, <1>6, <1>9 DEF Fits
  <2> QED
    BY <2>1, <2>2, ShortBranchReads
<1>7. ASSUME t = "RVC_JUMP" PROVE ImmCJ(v[1]) = off
  <2>1. v[1] = Put(w[1], 2..12,
                   At(off, 5, 5, 2) \cup At(off, 1, 3, 3) \cup At(off, 7, 7, 6)
                   \cup At(off, 6, 6, 7) \cup At(off, 10, 10, 8) \cup At(off, 8, 9, 9)
                   \cup At(off, 4, 4, 11) \cup At(off, 11, 11, 12))
    BY <1>7, <1>9 DEF Scatter
  <2>2. InReach(12, off)
    BY <1>3, <1>7, <1>9 DEF Fits
  <2> QED
    BY <2>1, <2>2, ShortJumpReads
<1>8. ASSUME t = "CALL" PROVE ImmU(v[1]) = HiPart(i) /\ ImmI(v[2]) = LoPart(i)
  <2>1. v[1] = Hi20(w[1], PageOf(off)) /\ v[2] = Lo12_I(w[2], off)
    BY <1>8, <1>9 DEF Scatter
  <2>2. PageOf(off) = Sext(64, PageOf(off), 20)
    BY <1>1, <1>2, <1>8 DEF NoGap
  <2>3. ImmU(v[1]) = Plus(64, off, Round) \ (0..11)
    BY <1>1, <2>1, <2>2, PageReads
  <2>4. ImmI(v[2]) = Sext(64, off, 12)
    BY <2>1, LowerReads
  <2> QED
    BY <2>3, <2>4 DEF HiPart, LoPart
<1> QED
  BY <1>4, <1>5, <1>6, <1>7, <1>8

LEMMA HighHolds ==
    ASSUME NoGap, LinkInv, ReasonInv, NEW i \in 1..Len(relocs),
           relocs[i].type \in HiTypes, Fits(relocs[i], Addr(i)),
           NEW w, NEW v, v = Scatter(relocs[i], w, Addr(i))
    PROVE  ImmU(v[1]) = HiPart(i)
<1>0. PICK off : off = Off(relocs[i], Addr(i))
  OBVIOUS
<1>1. off \in SUBSET (0..63) /\ off = Minus(64, relocs[i].val, Addr(i))
  BY <1>0, OffIs
<1>2. /\ program \in Programs /\ i \in 1..MaxRelocs[program]
      /\ HiTypes \cap Types[program] # {}
      /\ relocs[i].val \in Targets[program]
  <2>1. program \in Programs /\ Meant(relocs[i])
    BY DEF LinkInv, ReasonInv, Written
  <2>2. i \in 1..MaxRelocs[program]
    BY <2>1, ProgramAssumption DEF ReasonInv, LinkInv
  <2> QED
    BY <2>1, <2>2 DEF Meant
<1>3. PageFits(PageOf(off)) /\ v[1] = Hi20(w[1], PageOf(off))
  <2>1. relocs[i].type \notin LoTypes \cup DataTypes
    BY Kinds
  <2>2. relocs[i].type \in {"PCREL_HI20", "GOT_HI20"}
    BY DEF HiTypes
  <2> QED
    BY <1>0, <2>1, <2>2 DEF Fits, Scatter
<1>4. PageOf(off) = Sext(64, PageOf(off), 20)
  BY <1>1, <1>2, <1>3 DEF NoGap
<1>5. ImmU(v[1]) = Plus(64, off, Round) \ (0..11)
  BY <1>1, <1>3, <1>4, PageReads
<1> QED
  BY <1>0, <1>5 DEF HiPart

\* What a datum holds after relocate.
LEMMA DataHolds ==
    ASSUME NEW r, r.type \in DataTypes, r.val \in SUBSET (0..63), NEW w, w \in Slots, NEW addr,
           NEW v, v = Scatter(r, w, addr), NEW F, F = FieldOf(r.type)
    PROVE  /\ r.type \in PointerTypes \cup AddTypes /\ Datum(w) \cap F = {} =>
                  Datum(v) \cap F = r.val \cap F
           /\ r.type \in SubTypes => \A a \in SUBSET (0..63) :
                  Datum(w) \cap F = a \cap F => Datum(v) \cap F = Minus(64, a, r.val) \cap F
<1>1. PICK t : t = r.type
  OBVIOUS
<1>2. PICK n : n = Width(t)
  OBVIOUS
<1>3. n \in {64, 32, 16, 6}
  BY <1>1, <1>2 DEF Width, DataTypes, PointerTypes, AddTypes, SubTypes
<1>4. F = 0..n - 1
  BY <1>1, <1>2 DEF FieldOf
<1>5. PICK imm : imm = Stored(t, Datum(w) \cap F, r.val \cap F)
  OBVIOUS
<1>6. v = Halves(Put(Datum(w), 0..n - 1, imm))
  <2>1. r.type \notin JumpTypes \cup HiTypes \cup LoTypes
    BY Kinds
  <2>2. r.type \notin {"BRANCH", "JAL", "RVC_BRANCH", "RVC_JUMP", "CALL", "PCREL_LO12_I",
                       "PCREL_LO12_S"}
    BY <2>1 DEF JumpTypes, LoTypes
  <2> QED
    BY <1>1, <1>2, <1>4, <1>5, <2>1, <2>2 DEF Scatter
<1>7. imm \in SUBSET (0..n - 1)
  <2>1. PICK old : old = Datum(w) \cap F
    OBVIOUS
  <2>2. PICK val : val = r.val \cap F
    OBVIOUS
  <2>3. old \in SUBSET (0..Width(t) - 1) /\ val \in SUBSET (0..Width(t) - 1) /\ t \in DataTypes
    BY <1>1, <1>2, <1>4, <2>1, <2>2
  <2>4. Stored(t, old, val) \in SUBSET (0..Width(t) - 1)
    BY <2>3, StoredRange
  <2> QED
    BY <1>2, <1>5, <2>1, <2>2, <2>4
<1>8. Datum(v) \cap F = imm
  <2>1. F \in SUBSET (0..63) /\ imm \in SUBSET F
    BY <1>3, <1>4, <1>7
  <2>2. Datum(Halves(Put(Datum(w), F, imm))) \cap F = imm
    BY <2>1, DataReads
  <2> QED
    BY <1>4, <1>6, <2>2
<1>9. ASSUME t \in PointerTypes \cup AddTypes, Datum(w) \cap F = {}
      PROVE  imm = r.val \cap F
  <2>1. PICK val : val = r.val \cap F
    OBVIOUS
  <2>2. Plus(n, {}, val) = val
    <3>1. Plus(n, val, {}) = val
      BY PlusNone
    <3> QED
      BY <3>1, PlusCommutes
  <2>3. t \notin SubTypes
    BY <1>9, Kinds
  <2>4. imm = Stored(t, {}, val)
    BY <1>5, <1>9, <2>1
  <2> QED
    BY <1>2, <2>1, <2>2, <2>3, <2>4 DEF Stored
<1>10. ASSUME t \in SubTypes, NEW a, a \in SUBSET (0..63), Datum(w) \cap F = a \cap F
       PROVE  imm = Minus(64, a, r.val) \cap F
  <2>1. imm = Minus(n, a \cap 0..n - 1, r.val \cap 0..n - 1)
    <3>1. t # "SET6"
      BY <1>10 DEF SubTypes
    <3> QED
      BY <1>2, <1>4, <1>5, <1>10, <3>1 DEF Stored
  <2>2. PICK m : m = 64
    OBVIOUS
  <2>4. m \in Nat /\ n \in 0..m /\ a \in WordsOf(m) /\ r.val \in WordsOf(m)
    <3>1. m \in Nat /\ n \in 0..m
      BY <1>3, <2>2
    <3>2. WordsOf(m) = SUBSET (0..63)
      BY <2>2 DEF WordsOf
    <3> QED
      BY <1>10, <3>1, <3>2
  <2>5. Minus(n, a \cap 0..n - 1, r.val \cap 0..n - 1) = Minus(m, a, r.val) \cap 0..n - 1
    BY <2>4, MinusNarrow
  <2>3. Minus(n, a \cap 0..n - 1, r.val \cap 0..n - 1) = Minus(64, a, r.val) \cap 0..n - 1
    BY <2>2, <2>5
  <2> QED
    BY <1>4, <2>1, <2>3
<1> QED
  BY <1>1, <1>8, <1>9, <1>10

-----------------------------------------------------------------------------
(* The invariant *)

\* Relocation i has its effect: the instruction or the datum has what was asked for, and
\* that of a LO12 goes with a HI20 that is done.
Done(i) ==
    LET r == relocs[i]
        w == insn[r.at]
    IN  /\ r.type = "BRANCH" => ImmB(w[1]) = Off(r, Addr(i))
        /\ r.type = "JAL" => ImmJ(w[1]) = Off(r, Addr(i))
        /\ r.type = "RVC_BRANCH" => ImmCB(w[1]) = Off(r, Addr(i))
        /\ r.type = "RVC_JUMP" => ImmCJ(w[1]) = Off(r, Addr(i))
        /\ r.type = "CALL" => ImmU(w[1]) = HiPart(i) /\ ImmI(w[2]) = LoPart(i)
        /\ r.type \in HiTypes => ImmU(w[1]) = HiPart(i)
        /\ r.type \in LoTypes => HiOf(i) \in 1..applied
        /\ r.type = "PCREL_LO12_I" => ImmI(w[1]) = LoPart(HiOf(i))
        /\ r.type = "PCREL_LO12_S" => ImmS(w[1]) = LoPart(HiOf(i))
        /\ r.type \in PointerTypes /\ program \notin Dynamic =>
               Field(i) = r.val \cap FieldOf(r.type)
        /\ r.type \in SubTypes =>
               Field(i) = Minus(64, relocs[i - 1].val, r.val) \cap FieldOf(r.type)

\* The first half of a difference, before the second.
AddDone ==
    applied > 0 /\ relocs[applied].type \in AddTypes =>
        Field(applied) = relocs[applied].val \cap FieldOf(relocs[applied].type)

\* The pointers of dynamic output, what is left of them for the loader, and what it makes
\* of them.
Pointer(i) == relocs[i].type = "64" /\ program \in Dynamic
Entry(r) ==
    IF r.dyn THEN [type |-> "64", at |-> r.at, addend |-> r.addend]
    ELSE [type |-> "RELATIVE", at |-> r.at, addend |-> r.val]
Final(r) == IF r.dyn THEN Plus(64, r.addend, Elsewhere) ELSE Plus(64, r.val, Base)

\* The loader has what dynamic output leaves to it, and has made some of it final.
RemainsRight ==
    /\ \A k \in 1..Len(qrel) : \E i \in 1..applied : Pointer(i) /\ qrel[k] = Entry(relocs[i])
    /\ \A i \in 1..applied : Pointer(i) => \E k \in 1..Len(qrel) : qrel[k].at = i
    /\ \A k \in 1..loaded : Datum(insn[qrel[k].at]) = Final(relocs[qrel[k].at])
    /\ loaded > 0 => applied = Len(relocs)

\* The PLT is as relocate_plt makes it, and fits.
PltRight ==
    plt # <<>> =>
        /\ plt = [k \in 1..PltEntries + 1 |-> PltWords(k - 1)]
        /\ \A k \in 0..PltEntries : PltFits(k)

\* What is relocated has its effect, and what is not is still to do.
ReachInv ==
    /\ \A i \in 1..applied : Done(i)
    /\ AddDone
    /\ RemainsRight
    /\ PltRight

\* What is done stays done as long as its slot is left alone.
LEMMA DoneKept ==
    ASSUME UNCHANGED <<relocs, program>>, NEW i, Done(i),
           insn'[relocs[i].at] = insn[relocs[i].at], \A h \in 1..applied : h \in 1..applied'
    PROVE  Done(i)'
BY DEF Done, Field, FieldOf, HiPart, LoPart, HiOf, Off, Addr

LEMMA DoneNow ==
    ASSUME UNCHANGED <<relocs, program>>, NEW i, NEW r, r = relocs[i],
           NEW v, v = insn'[r.at],
           r.type = "BRANCH" => ImmB(v[1]) = Off(r, Addr(i)),
           r.type = "JAL" => ImmJ(v[1]) = Off(r, Addr(i)),
           r.type = "RVC_BRANCH" => ImmCB(v[1]) = Off(r, Addr(i)),
           r.type = "RVC_JUMP" => ImmCJ(v[1]) = Off(r, Addr(i)),
           r.type = "CALL" => ImmU(v[1]) = HiPart(i) /\ ImmI(v[2]) = LoPart(i),
           r.type \in HiTypes => ImmU(v[1]) = HiPart(i),
           r.type \in LoTypes => HiOf(i) \in 1..applied',
           r.type = "PCREL_LO12_I" => ImmI(v[1]) = LoPart(HiOf(i)),
           r.type = "PCREL_LO12_S" => ImmS(v[1]) = LoPart(HiOf(i)),
           r.type \in PointerTypes /\ program \notin Dynamic =>
               Datum(v) \cap FieldOf(r.type) = r.val \cap FieldOf(r.type),
           r.type \in SubTypes =>
               Datum(v) \cap FieldOf(r.type)
                   = Minus(64, relocs[i - 1].val, r.val) \cap FieldOf(r.type)
    PROVE  Done(i)'
BY DEF Done, Field, FieldOf, HiPart, LoPart, HiOf, Off, Addr

\* The HI20 of a LO12 is the last one, or the relocation fails.
LEMMA LastHiIs ==
    ASSUME LinkInv, ReasonInv, NEW i \in Nat, i = applied + 1, i \in 1..Len(relocs),
           relocs[i].type \in LoTypes, Fits(relocs[i], Addr(i))
    PROVE  /\ HiOf(i) \in 1..applied
           /\ Minus(64, last_hi.val, last_hi.addr) = Off(relocs[HiOf(i)], Addr(HiOf(i)))
<1>1. /\ HiOf(i) \in 1..Len(relocs) /\ Addr(HiOf(i)) = relocs[i].val
      /\ \A h \in 1..Len(relocs) : Addr(h) = relocs[i].val => h = HiOf(i)
  BY HiIs
<1>2. relocs[i].val = last_hi.addr
  <2>1. relocs[i].type \notin HiTypes \cup JumpTypes \cup DataTypes
    BY Kinds
  <2>2. relocs[i].type \notin {"BRANCH", "JAL", "RVC_BRANCH", "RVC_JUMP", "CALL"}
    BY <2>1 DEF JumpTypes
  <2> QED
    BY <2>1, <2>2 DEF Fits
<1>3. last_hi.addr # {}
  <2>1. HiOf(i) \in 1..MaxRelocs[program] /\ program \in Programs
    BY <1>1, ProgramAssumption DEF LinkInv, ReasonInv
  <2> QED
    BY <1>1, <1>2, <2>1, SectionAssumption
<1>4. PICK h \in 1..applied : last_hi = [addr |-> Addr(h), val |-> relocs[h].val]
  BY <1>3 DEF ReasonInv, LastHiRight
<1>5. h = HiOf(i)
  <2>1. h \in 1..Len(relocs)
    BY DEF LinkInv
  <2>2. Addr(h) = relocs[i].val
    BY <1>2, <1>4
  <2> QED
    BY <1>1, <2>1, <2>2
<1> QED
  BY <1>4, <1>5 DEF Off

\* The relocation that is done last.
LEMMA NowDone ==
    ASSUME NoGap, LinkInv, ReasonInv, ReachInv, Relocate, NEW i \in Nat, i = applied + 1,
           Fits(relocs[i], Addr(i))
    PROVE  Done(i)' /\ AddDone'
<1>0. PICK r : r = relocs[i]
  OBVIOUS
<1>1. /\ i \in 1..Len(relocs) /\ Len(relocs) \in Nat /\ UNCHANGED <<relocs, program>>
      /\ r.at \in 1..Len(relocs) /\ applied' = i
      /\ ~LeftToLoader(r) => insn'[r.at] = Scatter(r, insn[r.at], Addr(r.at))
  BY <1>0, RelocateStep
<1>2. /\ r.type \notin SubTypes => r.at = i
      /\ r.type \in SubTypes =>
             /\ i > 1 /\ r.at = i - 1 /\ relocs[i - 1].type \in AddTypes
             /\ Width(relocs[i - 1].type) = Width(r.type)
  BY <1>0, <1>1, SlotOf
<1>3. PICK w : w = insn[r.at]
  OBVIOUS
<1>4. PICK v : v = insn'[r.at]
  OBVIOUS
<1>5. w \in Slots /\ r.val \in SUBSET (0..63) /\ r.type \in AllTypes
  <2>1. r \in Relocations /\ w \in Slots
    BY <1>0, <1>1, <1>3 DEF LinkInv
  <2> QED
    BY <2>1 DEF Relocations
<1>6. CASE r.type \in JumpTypes
  <2>1. r.type \notin HiTypes \cup LoTypes \cup DataTypes
    BY <1>6, Kinds
  <2>2. r.at = i /\ ~LeftToLoader(r) /\ r.type \notin AddTypes
    BY <1>2, <2>1 DEF DataTypes, PointerTypes, LeftToLoader
  <2>3. v = Scatter(r, w, Addr(i))
    BY <1>1, <1>3, <1>4, <2>2
  <2>4. /\ r.type = "BRANCH" => ImmB(v[1]) = Off(r, Addr(i))
        /\ r.type = "JAL" => ImmJ(v[1]) = Off(r, Addr(i))
        /\ r.type = "RVC_BRANCH" => ImmCB(v[1]) = Off(r, Addr(i))
        /\ r.type = "RVC_JUMP" => ImmCJ(v[1]) = Off(r, Addr(i))
        /\ r.type = "CALL" => ImmU(v[1]) = HiPart(i) /\ ImmI(v[2]) = LoPart(i)
    <3>1. PICK off : off = Off(r, Addr(i))
      OBVIOUS
    <3>2. PICK t : t = r.type
      OBVIOUS
    <3>3. /\ t = "BRANCH" => ImmB(v[1]) = off
          /\ t = "JAL" => ImmJ(v[1]) = off
          /\ t = "RVC_BRANCH" => ImmCB(v[1]) = off
          /\ t = "RVC_JUMP" => ImmCJ(v[1]) = off
          /\ t = "CALL" => ImmU(v[1]) = HiPart(i) /\ ImmI(v[2]) = LoPart(i)
      BY <1>0, <1>1, <1>6, <2>3, <3>1, <3>2, JumpsHold
    <3> QED
      BY <3>1, <3>2, <3>3
  <2>5. r.type \notin PointerTypes \cup SubTypes /\ r.type # "PCREL_LO12_I"
        /\ r.type # "PCREL_LO12_S"
    BY <2>1 DEF LoTypes, DataTypes
  <2>6. Done(i)'
    BY <1>0, <1>1, <1>4, <2>1, <2>4, <2>5, DoneNow
  <2>7. AddDone'
    BY <1>0, <1>1, <2>2 DEF AddDone
  <2> QED
    BY <2>6, <2>7
<1>7. CASE r.type \in HiTypes
  <2>1. r.type \notin JumpTypes \cup LoTypes \cup DataTypes
    BY <1>7, Kinds
  <2>2. r.at = i /\ ~LeftToLoader(r) /\ r.type \notin AddTypes
    BY <1>2, <2>1 DEF DataTypes, PointerTypes, LeftToLoader
  <2>3. v = Scatter(r, w, Addr(i))
    BY <1>1, <1>3, <1>4, <2>2
  <2>4. ImmU(v[1]) = HiPart(i)
    BY <1>0, <1>1, <1>7, <2>3, HighHolds
  <2>5. /\ r.type \notin PointerTypes \cup SubTypes
        /\ r.type \notin {"PCREL_LO12_I", "PCREL_LO12_S", "BRANCH", "JAL", "RVC_BRANCH",
                          "RVC_JUMP", "CALL"}
    BY <2>1 DEF LoTypes, DataTypes, JumpTypes
  <2>6. Done(i)'
    BY <1>0, <1>1, <1>4, <2>1, <2>4, <2>5, DoneNow
  <2>7. AddDone'
    BY <1>0, <1>1, <2>2 DEF AddDone
  <2> QED
    BY <2>6, <2>7
<1>8. CASE r.type \in LoTypes
  <2>1. r.type \notin JumpTypes \cup HiTypes \cup DataTypes
    BY <1>8, Kinds
  <2>2. r.at = i /\ ~LeftToLoader(r) /\ r.type \notin AddTypes
    BY <1>2, <2>1 DEF DataTypes, PointerTypes, LeftToLoader
  <2>3. v = Scatter(r, w, Addr(i))
    BY <1>1, <1>3, <1>4, <2>2
  <2>4. /\ HiOf(i) \in 1..applied
        /\ Minus(64, last_hi.val, last_hi.addr) = Off(relocs[HiOf(i)], Addr(HiOf(i)))
    BY <1>0, <1>1, <1>8, LastHiIs
  <2>5. /\ r.type \notin PointerTypes \cup SubTypes
        /\ r.type \notin {"BRANCH", "JAL", "RVC_BRANCH", "RVC_JUMP", "CALL"}
    BY <2>1 DEF DataTypes, JumpTypes
  <2>6. PICK o : o = Minus(64, last_hi.val, last_hi.addr)
    OBVIOUS
  <2>7. /\ r.type = "PCREL_LO12_I" => v[1] = Lo12_I(w[1], o)
        /\ r.type = "PCREL_LO12_S" => v[1] = Lo12_S(w[1], o)
    BY <2>1, <2>3, <2>5, <2>6 DEF Scatter
  <2>8. Sext(64, o, 12) = LoPart(HiOf(i))
    BY <2>4, <2>6 DEF LoPart
  <2>9. /\ r.type = "PCREL_LO12_I" => ImmI(v[1]) = LoPart(HiOf(i))
        /\ r.type = "PCREL_LO12_S" => ImmS(v[1]) = LoPart(HiOf(i))
    BY <2>7, <2>8, LowerReads
  <2>10. HiOf(i) \in 1..applied'
    BY <1>1, <2>4 DEF LinkInv
  <2>11. Done(i)'
    BY <1>0, <1>1, <1>4, <2>1, <2>5, <2>9, <2>10, DoneNow
  <2>12. AddDone'
    BY <1>0, <1>1, <2>2 DEF AddDone
  <2> QED
    BY <2>11, <2>12
<1>9. CASE r.type \in DataTypes
  <2>1. r.type \notin JumpTypes \cup HiTypes \cup LoTypes
    BY <1>9, Kinds
  <2>2. r.type \notin {"BRANCH", "JAL", "RVC_BRANCH", "RVC_JUMP", "CALL", "PCREL_LO12_I",
                       "PCREL_LO12_S"}
    BY <2>1 DEF JumpTypes, LoTypes
  <2>3. PICK F : F = FieldOf(r.type)
    OBVIOUS
  <2>4. CASE LeftToLoader(r)
    <3>1. r.type \notin SubTypes \cup AddTypes /\ program \in Dynamic
      BY <2>4 DEF LeftToLoader, SubTypes, AddTypes
    <3>2. Done(i)'
      BY <1>0, <1>1, <1>4, <2>1, <2>2, <3>1, DoneNow
    <3>3. AddDone'
      BY <1>0, <1>1, <3>1 DEF AddDone
    <3> QED
      BY <3>2, <3>3
  <2>5. CASE ~LeftToLoader(r)
    <3>1. v = Scatter(r, w, Addr(r.at))
      BY <1>1, <1>3, <1>4, <2>5
    <3>2. PICK addr : addr = Addr(r.at)
      OBVIOUS
    <3>3. /\ r.type \in PointerTypes \cup AddTypes /\ Datum(w) \cap F = {} =>
                 Datum(v) \cap F = r.val \cap F
          /\ r.type \in SubTypes => \A a \in SUBSET (0..63) :
                 Datum(w) \cap F = a \cap F => Datum(v) \cap F = Minus(64, a, r.val) \cap F
      BY <1>5, <1>9, <2>3, <3>1, <3>2, DataHolds
    <3>4. r.type \in PointerTypes \cup AddTypes => Datum(v) \cap F = r.val \cap F
      <4>1. Clear(i)
        BY <1>1 DEF ReasonInv, LinkInv
      <4> QED
        BY <1>0, <1>3, <2>3, <3>3, <4>1 DEF Clear, Field
    <3>5. r.type \in SubTypes => Datum(v) \cap F = Minus(64, relocs[i - 1].val, r.val) \cap F
      <4>1. SUFFICES ASSUME r.type \in SubTypes
                     PROVE  Datum(v) \cap F = Minus(64, relocs[i - 1].val, r.val) \cap F
        OBVIOUS
      <4>2. /\ i - 1 = applied /\ applied > 0 /\ i - 1 \in 1..Len(relocs)
            /\ r.at = i - 1 /\ relocs[i - 1].type \in AddTypes
            /\ Width(relocs[i - 1].type) = Width(r.type)
        BY <1>1, <1>2, <4>1 DEF LinkInv
      <4>3. PICK j : j = i - 1
        OBVIOUS
      <4>4. relocs[j].type \notin SubTypes /\ j \in 1..Len(relocs)
        BY <4>2, <4>3, Kinds
      <4>5. relocs[j].at = j
        BY <4>4, SlotOf
      <4>6. FieldOf(relocs[j].type) = F
        BY <2>3, <4>2, <4>3 DEF FieldOf
      <4>7. Datum(w) \cap F = relocs[j].val \cap F
        BY <1>3, <4>2, <4>3, <4>5, <4>6 DEF ReachInv, AddDone, Field
      <4>8. relocs[j].val \in SUBSET (0..63)
        BY <4>4, OffIs
      <4> QED
        BY <3>3, <4>1, <4>3, <4>7, <4>8
    <3>6. Done(i)'
      BY <1>0, <1>1, <1>4, <2>1, <2>2, <2>3, <3>4, <3>5, DoneNow
    <3>7. AddDone'
      <4>1. SUFFICES ASSUME r.type \in AddTypes PROVE AddDone'
        BY <1>0, <1>1 DEF AddDone
      <4>2. r.at = i
        BY <1>2, <4>1, Kinds
      <4> QED
        BY <1>0, <1>1, <1>4, <2>3, <3>4, <4>1, <4>2 DEF AddDone, Field, FieldOf
    <3> QED
      BY <3>6, <3>7
  <2> QED
    BY <2>4, <2>5
<1> QED
  BY <1>5, <1>6, <1>7, <1>8, <1>9 DEF AllTypes

\* What is left to the loader is the symbol's address, or the offset in the output.
LEMMA NowRemains ==
    ASSUME LinkInv, ReasonInv, ReachInv, Relocate, NEW i \in Nat, i = applied + 1,
           Fits(relocs[i], Addr(i))
    PROVE  RemainsRight'
<1>0. PICK r : r = relocs[i]
  OBVIOUS
<1>1. /\ i \in 1..Len(relocs) /\ Len(relocs) \in Nat /\ UNCHANGED <<relocs, loaded, program>>
      /\ r.at \in 1..Len(relocs) /\ applied' = i /\ qrel' = QrelAfter(r, insn[r.at])
  BY <1>0, RelocateStep
<1>2. loaded' = 0
  BY <1>1 DEF ReachInv, RemainsRight, LinkInv
<1>3. qrel \in Seq(Remaining) /\ Len(qrel) \in Nat
  BY DEF LinkInv
<1>4. /\ \A k \in 1..Len(qrel) :
             \E j \in 1..applied : Pointer(j) /\ qrel[k] = Entry(relocs[j])
      /\ \A j \in 1..applied : Pointer(j) => \E k \in 1..Len(qrel) : qrel[k].at = j
  BY DEF ReachInv, RemainsRight
<1>5. \A j : j \in 1..applied' <=> j \in 1..applied \/ j = i
  BY <1>1 DEF LinkInv
<1>6. CASE ~Pointer(i)
  <2>1. qrel' = qrel
    BY <1>0, <1>1, <1>6 DEF Pointer, QrelAfter
  <2>2. \A k \in 1..Len(qrel') :
            \E j \in 1..applied' : Pointer(j)' /\ qrel'[k] = Entry(relocs'[j])
    BY <1>1, <1>4, <1>5, <2>1 DEF Pointer
  <2>3. \A j \in 1..applied' : Pointer(j) => \E k \in 1..Len(qrel') : qrel'[k].at = j
    BY <1>4, <1>5, <1>6, <2>1
  <2> QED
    BY <1>1, <1>2, <2>2, <2>3 DEF RemainsRight, Pointer
<1>7. CASE Pointer(i)
  <2>1. r.type = "64" /\ program \in Dynamic /\ r.type \notin SubTypes /\ r.type \in PointerTypes
    BY <1>0, <1>7 DEF Pointer, SubTypes, PointerTypes
  <2>2. r.at = i
    BY <1>0, <1>1, <2>1, SlotOf
  <2>3. Plus(64, Datum(insn[r.at]), r.val) = r.val
    <3>1. Field(i) = {}
      BY <1>0, <1>1, <2>1 DEF ReasonInv, LinkInv, Clear
    <3>2. insn[r.at] \in Slots
      BY <1>1 DEF LinkInv
    <3>3. Datum(insn[r.at]) \in SUBSET (0..63)
      BY <3>2, DatumRange
    <3>4. FieldOf("64") = 0..63
      BY DEF FieldOf, Width
    <3>5. Datum(insn[r.at]) = {}
      BY <1>0, <2>1, <3>1, <3>3, <3>4 DEF Field
    <3>6. Plus(64, r.val, {}) = r.val
      BY PlusNone
    <3> QED
      BY <3>5, <3>6, PlusCommutes
  <2>4. PICK q : q = Entry(r)
    OBVIOUS
  <2>5. qrel' = Append(qrel, q)
    BY <1>1, <2>1, <2>3, <2>4 DEF QrelAfter, Entry
  <2>6. q.at = i
    BY <2>2, <2>4 DEF Entry
  <2>7. qrel' \in Seq(Remaining)
    BY <1>0, <1>1, QrelKeeps
  <2>8. /\ Len(qrel') = Len(qrel) + 1 /\ qrel'[Len(qrel) + 1] = q
        /\ \A k \in 1..Len(qrel) : qrel'[k] = qrel[k]
    BY <1>3, <2>5
  <2>9. PICK n \in Nat : n = Len(qrel)
    BY <1>3
  <2>10. \A k : k \in 1..Len(qrel') <=> k \in 1..n \/ k = n + 1
    BY <2>8, <2>9
  <2>11. ASSUME NEW k \in 1..Len(qrel')
         PROVE  \E j \in 1..applied' : Pointer(j)' /\ qrel'[k] = Entry(relocs'[j])
    <3>1. CASE k = n + 1
      BY <1>0, <1>1, <1>5, <1>7, <2>4, <2>8, <2>9, <3>1 DEF Pointer
    <3>2. CASE k \in 1..n
      <4>1. PICK j \in 1..applied : Pointer(j) /\ qrel[k] = Entry(relocs[j])
        BY <1>4, <2>9, <3>2
      <4> QED
        BY <1>1, <1>5, <2>8, <2>9, <3>2, <4>1 DEF Pointer
    <3> QED
      BY <2>10, <3>1, <3>2
  <2>12. ASSUME NEW j \in 1..applied', Pointer(j)
         PROVE  \E k \in 1..Len(qrel') : qrel'[k].at = j
    <3>1. CASE j = i
      BY <2>6, <2>8, <2>9, <2>10, <3>1
    <3>2. CASE j \in 1..applied
      <4>1. PICK k \in 1..Len(qrel) : qrel[k].at = j
        BY <1>4, <2>12, <3>2
      <4> QED
        BY <2>8, <2>9, <2>10, <4>1
    <3> QED
      BY <1>5, <3>1, <3>2
  <2> QED
    BY <1>1, <1>2, <2>11, <2>12 DEF RemainsRight, Pointer
<1> QED
  BY <1>6, <1>7

\* The PLT stays as it is.
LEMMA PltKept ==
    ASSUME UNCHANGED <<plt, got>>, PltRight
    PROVE  PltRight'
BY DEF PltRight, PltWords, PltFits, GotAddr, PltAddr

-----------------------------------------------------------------------------
(* The actions, and the invariant on the relocations that are done *)

LEMMA RelocateReach ==
    ASSUME NoGap, LinkInv, ReasonInv, ReachInv, Relocate
    PROVE  ReachInv'
<1>0. PICK i \in Nat : i = applied + 1
  BY DEF LinkInv
<1>1. /\ i \in 1..Len(relocs) /\ Len(relocs) \in Nat
      /\ UNCHANGED <<relocs, plt, got, loaded, program>>
  BY <1>0, RelocateStep
<1>2. PltRight'
  BY <1>1, PltKept DEF ReachInv
<1>3. CASE ~Fits(relocs[i], Addr(i))
  <2>1. UNCHANGED <<insn, applied, qrel>>
    BY <1>0, <1>3, RelocateStep
  <2>2. \A k \in 1..applied' : Done(k)'
    <3>1. \A k \in 1..applied : Done(k)
      BY DEF ReachInv
    <3> QED
      BY <1>1, <2>1, <3>1, DoneKept
  <2>3. AddDone' /\ RemainsRight'
    BY <1>1, <2>1 DEF ReachInv, AddDone, RemainsRight, Field, Pointer
  <2> QED
    BY <1>2, <2>2, <2>3 DEF ReachInv
<1>4. CASE Fits(relocs[i], Addr(i))
  <2>1. /\ applied' = i
        /\ \A j \in 1..Len(relocs) : j # relocs[i].at => insn'[j] = insn[j]
    BY <1>0, <1>4, RelocateStep
  <2>2. Done(i)' /\ AddDone' /\ RemainsRight'
    BY <1>0, <1>4, NowDone, NowRemains
  <2>3. \A h \in 1..applied : h \in 1..applied'
    BY <1>0, <2>1 DEF LinkInv
  <2>4. ASSUME NEW k \in 1..applied PROVE Done(k)'
    <3>0. k \in 1..Len(relocs) /\ k < i /\ Done(k)
      BY <1>0, <1>1 DEF LinkInv, ReachInv
    <3>1. CASE relocs[k].type \in AddTypes
      <4>1. relocs[k].type \notin JumpTypes \cup HiTypes \cup LoTypes \cup PointerTypes
                                  \cup SubTypes
        BY <3>1, Kinds DEF DataTypes
      <4>2. relocs[k].type \notin {"BRANCH", "JAL", "RVC_BRANCH", "RVC_JUMP", "CALL",
                                   "PCREL_LO12_I", "PCREL_LO12_S"}
        BY <4>1 DEF JumpTypes, LoTypes
      <4>3. PICK v : v = insn'[relocs[k].at]
        OBVIOUS
      <4> QED
        BY <1>1, <4>1, <4>2, <4>3, DoneNow
    <3>2. CASE relocs[k].type \notin AddTypes
      <4>1. relocs[k].at # relocs[i].at
        <5>1. relocs[k].at \in {k, k - 1}
          BY <3>0, SlotOf
        <5>2. relocs[i].at = i \/ (relocs[i].at = i - 1 /\ relocs[i - 1].type \in AddTypes)
          BY <1>1, SlotOf
        <5>3. k = i - 1 => relocs[i].at # i - 1
          BY <3>2, <5>2
        <5> QED
          BY <3>0, <5>1, <5>2, <5>3
      <4>2. insn'[relocs[k].at] = insn[relocs[k].at]
        BY <2>1, <3>0, <4>1, SameField
      <4> QED
        BY <1>1, <2>3, <3>0, <4>2, DoneKept
    <3> QED
      BY <3>1, <3>2
  <2>5. \A k \in 1..applied' : Done(k)'
    <3>1. \A k \in 1..applied' : k \in 1..applied \/ k = i
      BY <1>0, <2>1 DEF LinkInv
    <3> QED
      BY <2>2, <2>4, <3>1
  <2> QED
    BY <1>2, <2>2, <2>5 DEF ReachInv
<1> QED
  BY <1>3, <1>4

LEMMA LoadReach ==
    ASSUME LinkInv, ReasonInv, ReachInv, Load
    PROVE  ReachInv'
<1>1. PICK n \in Nat : n = loaded + 1
  BY DEF LinkInv
<1>2. PICK q : q = qrel[n]
  OBVIOUS
<1>3. PICK sum : sum = Plus(64, q.addend, IF q.type = "RELATIVE" THEN Base ELSE Elsewhere)
  OBVIOUS
<1>4. /\ applied = Len(relocs) /\ n \in 1..Len(qrel)
      /\ insn' = [insn EXCEPT ![q.at] = Halves(sum)] /\ loaded' = n
      /\ UNCHANGED <<relocs, applied, plt, got, qrel, program>>
  BY <1>1, <1>2, <1>3 DEF Load, LinkInv
<1>5. PICK j \in 1..applied : Pointer(j) /\ q = Entry(relocs[j])
  BY <1>2, <1>4 DEF ReachInv, RemainsRight
<1>6. /\ relocs[j].type = "64" /\ program \in Dynamic /\ relocs[j].at = j /\ q.at = j
      /\ j \in 1..Len(relocs)
  <2>1. relocs[j].type = "64" /\ program \in Dynamic /\ j \in 1..Len(relocs)
    BY <1>4, <1>5 DEF Pointer
  <2>2. relocs[j].at = j
    BY <2>1, SlotOf DEF SubTypes
  <2> QED
    BY <1>5, <2>1, <2>2 DEF Entry
<1>7. sum = Final(relocs[j]) /\ sum \in SUBSET (0..63)
  <2>1. q.addend \in SUBSET (0..63)
    <3>1. q \in Remaining
      BY <1>2, <1>4 DEF LinkInv
    <3> QED
      BY <3>1 DEF Remaining
  <2>2. sum \in SUBSET (0..63)
    <3>1. PICK b : b = IF q.type = "RELATIVE" THEN Base ELSE Elsewhere
      OBVIOUS
    <3>2. b \in SUBSET (0..63)
      BY <3>1, WordAssumption
    <3>3. Plus(64, q.addend, b) \in SUBSET (0..63)
      BY <2>1, <3>2, SumRange
    <3> QED
      BY <1>3, <3>1, <3>3
  <2>3. sum = Final(relocs[j])
    BY <1>3, <1>5 DEF Entry, Final
  <2> QED
    BY <2>2, <2>3
<1>8. /\ Datum(insn'[j]) = Final(relocs[j])
      /\ \A k \in 1..Len(relocs) : k # j => insn'[k] = insn[k]
  <2>1. DOMAIN insn = 1..Len(relocs)
    BY DEF LinkInv
  <2>2. Datum(Halves(sum)) = sum
    BY <1>7, HalvesDatum
  <2>3. insn'[j] = Halves(sum)
    BY <1>4, <1>6, <2>1
  <2> QED
    BY <1>4, <1>6, <1>7, <2>1, <2>2, <2>3
<1>9. ASSUME NEW k \in 1..applied PROVE Done(k)'
  <2>0. Done(k) /\ k \in 1..Len(relocs)
    BY <1>4 DEF ReachInv
  <2>1. CASE relocs[k].at = j
    <3>1. relocs[k].type = "64" /\ k = j
      <4>1. relocs[k].type \notin SubTypes
        <5>1. SUFFICES ASSUME relocs[k].type \in SubTypes PROVE FALSE
          OBVIOUS
        <5>2. relocs[j].type \in AddTypes
          BY <2>0, <2>1, <5>1, SlotOf
        <5> QED
          BY <1>6, <5>2 DEF AddTypes
      <4> QED
        BY <1>6, <2>0, <2>1, <4>1, SlotOf
    <3>2. relocs[k].type \notin JumpTypes \cup HiTypes \cup LoTypes \cup SubTypes
      BY <3>1 DEF JumpTypes, HiTypes, LoTypes, SubTypes
    <3>3. relocs[k].type \notin {"BRANCH", "JAL", "RVC_BRANCH", "RVC_JUMP", "CALL",
                                 "PCREL_LO12_I", "PCREL_LO12_S"}
      BY <3>1
    <3>4. PICK v : v = insn'[relocs[k].at]
      OBVIOUS
    <3> QED
      BY <1>4, <1>6, <3>2, <3>3, <3>4, DoneNow
  <2>2. CASE relocs[k].at # j
    <3>1. insn'[relocs[k].at] = insn[relocs[k].at]
      BY <1>8, <2>0, <2>2, SameField
    <3> QED
      BY <1>4, <2>0, <3>1, DoneKept
  <2> QED
    BY <2>1, <2>2
<1>10. AddDone'
  <2>1. SUFFICES ASSUME applied > 0, relocs[applied].type \in AddTypes PROVE AddDone'
    BY <1>4 DEF AddDone
  <2>2. PICK k : k = applied
    OBVIOUS
  <2>3. k \in 1..Len(relocs) /\ relocs[k].type \in AddTypes
    BY <1>4, <2>1, <2>2 DEF LinkInv
  <2>4. relocs[k].at = k /\ k # j
    BY <1>6, <2>3, SlotOf, Kinds DEF AddTypes
  <2>5. insn'[k] = insn[k]
    BY <1>8, <2>3, <2>4
  <2> QED
    BY <1>4, <2>1, <2>2, <2>4, <2>5 DEF ReachInv, AddDone, Field, FieldOf
<1>11. RemainsRight'
  <2>1. ASSUME NEW k \in 1..n PROVE Datum(insn'[qrel[k].at]) = Final(relocs[qrel[k].at])
    <3>0. k \in 1..Len(qrel)
      BY <1>4
    <3>1. CASE qrel[k].at = j
      BY <1>8, <3>1
    <3>2. CASE qrel[k].at # j
      <4>1. k # n
        BY <1>2, <1>6, <3>2
      <4>2. k \in 1..loaded
        BY <1>1, <4>1 DEF LinkInv
      <4>3. Datum(insn[qrel[k].at]) = Final(relocs[qrel[k].at])
        BY <4>2 DEF ReachInv, RemainsRight
      <4>4. qrel[k].at \in 1..Len(relocs)
        BY <3>0 DEF LinkInv
      <4> QED
        BY <1>8, <3>2, <4>3, <4>4
    <3> QED
      BY <3>1, <3>2
  <2> QED
    BY <1>4, <2>1 DEF ReachInv, RemainsRight, Pointer
<1>12. PltRight'
  BY <1>4, PltKept DEF ReachInv
<1> QED
  BY <1>4, <1>9, <1>10, <1>11, <1>12 DEF ReachInv

LEMMA RestReach ==
    ASSUME LinkInv, ReachInv,
           EmitJump \/ EmitAccess \/ EmitForeign \/ EmitPointer \/ EmitDifference
               \/ RelocatePlt \/ UNCHANGED vars
    PROVE  ReachInv'
<1>1. CASE EmitJump \/ EmitAccess \/ EmitForeign \/ EmitPointer \/ EmitDifference
  <2>1. /\ applied = 0 /\ plt = <<>>
        /\ UNCHANGED <<applied, plt, got, qrel, loaded, program>>
    BY <1>1 DEF EmitJump, EmitAccess, EmitForeign, EmitPointer, EmitDifference
  <2>2. Len(qrel) = 0 /\ loaded = 0
    <3>1. \A k \in 1..Len(qrel) : \E i \in 1..applied : TRUE
      BY DEF ReachInv, RemainsRight
    <3>2. 1..applied = {}
      BY <2>1
    <3>3. Len(qrel) \in Nat /\ loaded \in 0..Len(qrel)
      BY DEF LinkInv
    <3> QED
      BY <3>1, <3>2, <3>3
  <2> QED
    BY <2>1, <2>2 DEF ReachInv, AddDone, RemainsRight, PltRight
<1>2. CASE RelocatePlt
  <2>1. UNCHANGED <<relocs, insn, applied, got, qrel, loaded, program>>
    BY <1>2 DEF RelocatePlt
  <2>2. \A k \in 1..applied' : Done(k)'
    <3>1. \A k \in 1..applied : Done(k)
      BY DEF ReachInv
    <3> QED
      BY <2>1, <3>1, DoneKept
  <2>3. AddDone' /\ RemainsRight'
    BY <2>1 DEF ReachInv, AddDone, RemainsRight, Field, Pointer
  <2>4. PltRight'
    <3>1. \A k : PltWords(k)' = PltWords(k) /\ (PltFits(k)' <=> PltFits(k))
      BY <2>1 DEF PltWords, PltFits, GotAddr, PltAddr
    <3>2. CASE \A k \in 0..PltEntries : PltFits(k)
      <4>1. plt' = [k \in 1..PltEntries + 1 |-> PltWords(k - 1)]
        BY <1>2, <3>2 DEF RelocatePlt
      <4> QED
        BY <3>1, <3>2, <4>1 DEF PltRight
    <3>3. CASE ~\A k \in 0..PltEntries : PltFits(k)
      BY <1>2, <3>3 DEF RelocatePlt, PltRight
    <3> QED
      BY <3>2, <3>3
  <2> QED
    BY <2>2, <2>3, <2>4 DEF ReachInv
<1>3. CASE UNCHANGED vars
  <2>1. UNCHANGED <<relocs, insn, applied, plt, got, qrel, loaded, program>>
    BY <1>3 DEF vars
  <2>2. \A k \in 1..applied' : Done(k)'
    <3>1. \A k \in 1..applied : Done(k)
      BY DEF ReachInv
    <3> QED
      BY <2>1, <3>1, DoneKept
  <2>3. AddDone' /\ RemainsRight'
    BY <2>1 DEF ReachInv, AddDone, RemainsRight, Field, Pointer
  <2>4. PltRight'
    BY <2>1, PltKept DEF ReachInv
  <2> QED
    BY <2>2, <2>3, <2>4 DEF ReachInv
<1> QED
  BY <1>1, <1>2, <1>3

LEMMA InitReach == Init => ReachInv
<1> SUFFICES ASSUME Init PROVE ReachInv
  OBVIOUS
<1>1. applied = 0 /\ qrel = <<>> /\ loaded = 0 /\ plt = <<>>
  BY DEF Init
<1> QED
  BY <1>1 DEF ReachInv, AddDone, RemainsRight, PltRight

LEMMA NextReach == NoGap /\ LinkInv /\ ReasonInv /\ ReachInv /\ [Next]_vars => ReachInv'
<1> SUFFICES ASSUME NoGap, LinkInv, ReasonInv, ReachInv, [Next]_vars PROVE ReachInv'
  OBVIOUS
<1>1. CASE Relocate       BY <1>1, RelocateReach
<1>2. CASE Load           BY <1>2, LoadReach
<1>3. CASE EmitJump \/ EmitAccess \/ EmitForeign \/ EmitPointer \/ EmitDifference
               \/ RelocatePlt \/ UNCHANGED vars
  BY <1>3, RestReach
<1> QED BY <1>1, <1>2, <1>3 DEF Next

\* Each relocation that is effective has reached what was wanted of it.
LEMMA EffectReaches ==
    ASSUME LinkInv, ReasonInv, ReachInv, NEW i \in Effective
    PROVE  Reached(i) = Wanted(i)
<1>0. PICK r : r = relocs[i]
  OBVIOUS
<1>1. /\ i \in 1..applied /\ i \in 1..Len(relocs)
      /\ r.type \notin HiTypes \cup AddTypes
      /\ r.type = "64" /\ program \in Dynamic => applied = Len(relocs) /\ loaded = Len(qrel)
  BY <1>0 DEF Effective, LinkInv
<1>2. Done(i) /\ r.type \in AllTypes
  <2>1. r \in Relocations
    BY <1>0, <1>1 DEF LinkInv
  <2> QED
    BY <1>1, <2>1 DEF ReachInv, Relocations
<1>3. /\ r.type \notin SubTypes => r.at = i
      /\ r.type \in SubTypes =>
             /\ i > 1 /\ r.at = i - 1 /\ relocs[i - 1].type \in AddTypes
             /\ Width(relocs[i - 1].type) = Width(r.type)
  BY <1>0, <1>1, SlotOf
<1>4. /\ Plus(64, Addr(i), Off(relocs[i], Addr(i))) = relocs[i].val
      /\ Plus(64, Plus(64, Addr(i), HiPart(i)), LoPart(i)) = relocs[i].val
  BY <1>1, HalvesLead
<1>5. CASE r.type \in JumpTypes
  <2>1. r.type \notin HiTypes \cup LoTypes \cup DataTypes
    BY <1>5, Kinds
  <2>2. r.type \notin SubTypes \cup PointerTypes /\ r.at = i
    BY <1>3, <2>1 DEF DataTypes
  <2>3. Wanted(i) = relocs[i].val
    BY <1>0, <2>1, <2>2 DEF Wanted
  <2>4. CASE r.type = "BRANCH"
    <3>1. ImmB(insn[i][1]) = Off(relocs[i], Addr(i))
      BY <1>0, <1>2, <2>2, <2>4 DEF Done
    <3>2. Reached(i) = Plus(64, Addr(i), ImmB(insn[i][1]))
      BY <1>0, <2>1, <2>4 DEF Reached
    <3> QED
      BY <1>4, <2>3, <3>1, <3>2
  <2>5. CASE r.type = "JAL"
    <3>1. ImmJ(insn[i][1]) = Off(relocs[i], Addr(i))
      BY <1>0, <1>2, <2>2, <2>5 DEF Done
    <3>2. Reached(i) = Plus(64, Addr(i), ImmJ(insn[i][1]))
      BY <1>0, <2>1, <2>5 DEF Reached
    <3> QED
      BY <1>4, <2>3, <3>1, <3>2
  <2>6. CASE r.type = "RVC_BRANCH"
    <3>1. ImmCB(insn[i][1]) = Off(relocs[i], Addr(i))
      BY <1>0, <1>2, <2>2, <2>6 DEF Done
    <3>2. Reached(i) = Plus(64, Addr(i), ImmCB(insn[i][1]))
      BY <1>0, <2>1, <2>6 DEF Reached
    <3> QED
      BY <1>4, <2>3, <3>1, <3>2
  <2>7. CASE r.type = "RVC_JUMP"
    <3>1. ImmCJ(insn[i][1]) = Off(relocs[i], Addr(i))
      BY <1>0, <1>2, <2>2, <2>7 DEF Done
    <3>2. Reached(i) = Plus(64, Addr(i), ImmCJ(insn[i][1]))
      BY <1>0, <2>1, <2>7 DEF Reached
    <3> QED
      BY <1>4, <2>3, <3>1, <3>2
  <2>8. CASE r.type = "CALL"
    <3>1. ImmU(insn[i][1]) = HiPart(i) /\ ImmI(insn[i][2]) = LoPart(i)
      BY <1>0, <1>2, <2>2, <2>8 DEF Done
    <3>2. Reached(i) = Plus(64, Plus(64, Addr(i), ImmU(insn[i][1])), ImmI(insn[i][2]))
      BY <1>0, <2>1, <2>8 DEF Reached
    <3> QED
      BY <1>4, <2>3, <3>1, <3>2
  <2> QED
    BY <1>5, <2>4, <2>5, <2>6, <2>7, <2>8 DEF JumpTypes
<1>6. CASE r.type \in LoTypes
  <2>1. r.type \notin JumpTypes \cup HiTypes \cup DataTypes
    BY <1>6, Kinds
  <2>2. r.type \notin SubTypes \cup PointerTypes /\ r.at = i
    BY <1>3, <2>1 DEF DataTypes
  <2>3. PICK h : h = HiOf(i)
    OBVIOUS
  <2>4. /\ h \in 1..applied /\ h \in 1..Len(relocs) /\ relocs[h].type \in HiTypes
        /\ relocs[h].at = h
    <3>1. h \in 1..applied
      BY <1>0, <1>2, <1>6, <2>3 DEF Done
    <3>2. h \in 1..Len(relocs) /\ relocs[h].type \in HiTypes
      BY <1>0, <1>1, <1>6, <2>3, HiIs
    <3>3. relocs[h].type \notin SubTypes
      BY <3>2, Kinds DEF DataTypes
    <3> QED
      BY <3>1, <3>2, <3>3, SlotOf
  <2>5. ImmU(insn[h][1]) = HiPart(h)
    <3>1. Done(h)
      BY <2>4 DEF ReachInv
    <3> QED
      BY <2>4, <3>1 DEF Done
  <2>6. Plus(64, Plus(64, Addr(h), HiPart(h)), LoPart(h)) = relocs[h].val
    BY <2>4, HalvesLead
  <2>7. Wanted(i) = relocs[h].val
    BY <1>0, <1>6, <2>2, <2>3 DEF Wanted
  <2>8. CASE r.type = "PCREL_LO12_I"
    <3>1. ImmI(insn[i][1]) = LoPart(h)
      BY <1>0, <1>2, <2>2, <2>3, <2>8 DEF Done
    <3>2. Reached(i) = Plus(64, Plus(64, Addr(h), ImmU(insn[h][1])), ImmI(insn[i][1]))
      BY <1>0, <2>1, <2>3, <2>8 DEF Reached
    <3> QED
      BY <2>5, <2>6, <2>7, <3>1, <3>2
  <2>9. CASE r.type = "PCREL_LO12_S"
    <3>1. ImmS(insn[i][1]) = LoPart(h)
      BY <1>0, <1>2, <2>2, <2>3, <2>9 DEF Done
    <3>2. Reached(i) = Plus(64, Plus(64, Addr(h), ImmU(insn[h][1])), ImmS(insn[i][1]))
      BY <1>0, <2>1, <2>3, <2>9 DEF Reached
    <3> QED
      BY <2>5, <2>6, <2>7, <3>1, <3>2
  <2> QED
    BY <1>6, <2>8, <2>9 DEF LoTypes
<1>7. CASE r.type \in DataTypes
  <2>1. r.type \notin JumpTypes \cup HiTypes \cup LoTypes
    BY <1>7, Kinds
  <2>2. r.type \notin {"BRANCH", "JAL", "RVC_BRANCH", "RVC_JUMP", "CALL", "PCREL_LO12_I",
                       "PCREL_LO12_S"}
    BY <2>1 DEF JumpTypes, LoTypes
  <2>3. Reached(i) = Field(i)
    BY <1>0, <1>7, <2>2 DEF Reached, Field, FieldOf
  <2>4. CASE r.type \in SubTypes
    <3>1. r.type \notin PointerTypes
      BY <2>4, Kinds
    <3>2. Field(i) = Minus(64, relocs[i - 1].val, r.val) \cap FieldOf(r.type)
      BY <1>0, <1>2, <2>4 DEF Done
    <3>3. Wanted(i) = Minus(64, relocs[i - 1].val, r.val) \cap FieldOf(r.type)
      BY <1>0, <2>1, <2>4, <3>1 DEF Wanted, FieldOf
    <3> QED
      BY <2>3, <3>2, <3>3
  <2>5. CASE r.type \in PointerTypes /\ program \notin Dynamic
    <3>1. r.type \notin SubTypes
      BY <2>5, Kinds
    <3>2. Field(i) = r.val \cap FieldOf(r.type)
      BY <1>0, <1>2, <2>5 DEF Done
    <3>3. Wanted(i) = FieldOf(r.type) \cap r.val
      BY <1>0, <2>1, <2>5, <3>1 DEF Wanted, FieldOf
    <3> QED
      BY <2>3, <3>2, <3>3
  <2>6. CASE r.type \in PointerTypes /\ program \in Dynamic
    <3>1. r.type \notin SubTypes /\ r.type = "64" /\ r.at = i
      <4>1. r.type \in Types[program]
        BY <1>0, <1>1 DEF ReasonInv, Written, Meant
      <4>2. r.type \notin SubTypes
        BY <2>6, Kinds
      <4> QED
        BY <1>3, <2>6, <4>1, <4>2, DynamicAssumption
    <3>2. PICK k \in 1..Len(qrel) : qrel[k].at = i
      BY <1>0, <1>1, <2>6, <3>1 DEF ReachInv, RemainsRight, Pointer
    <3>3. k \in 1..loaded
      BY <1>1, <2>6, <3>1
    <3>4. Datum(insn[i]) = Final(r)
      BY <1>0, <3>2, <3>3 DEF ReachInv, RemainsRight
    <3>5. Field(i) = Final(r) \cap FieldOf(r.type)
      BY <1>0, <3>1, <3>4 DEF Field
    <3>6. Final(r) = IF r.dyn THEN Plus(64, Elsewhere, r.addend) ELSE Plus(64, Base, r.val)
      BY PlusCommutes DEF Final
    <3>7. Wanted(i) = FieldOf(r.type) \cap
              IF r.dyn THEN Plus(64, Elsewhere, r.addend) ELSE Plus(64, Base, r.val)
      BY <1>0, <2>1, <2>6, <3>1 DEF Wanted, FieldOf
    <3> QED
      BY <2>3, <3>5, <3>6, <3>7
  <2> QED
    BY <1>1, <1>7, <2>4, <2>5, <2>6 DEF DataTypes
<1> QED
  BY <1>1, <1>2, <1>5, <1>6, <1>7 DEF AllTypes

\* An entry of the PLT finds its slot of the GOT.
LEMMA PltReaches ==
    ASSUME NoGap, LinkInv, ReasonInv, ReachInv, NEW k \in DOMAIN plt
    PROVE  Plus(64, Plus(64, PltAddr(k - 1), ImmU(plt[k][1])), ImmI(plt[k][2])) = GotAddr(k - 1)
<1>1. /\ plt = [e \in 1..PltEntries + 1 |-> PltWords(e - 1)]
      /\ \A e \in 0..PltEntries : PltFits(e)
  BY DEF ReachInv, PltRight
<1>2. PICK e : e = k - 1
  OBVIOUS
<1>3. k \in 1..PltEntries + 1 /\ e \in 0..PltEntries /\ plt[k] = PltWords(e)
  BY <1>1, <1>2, BoundAssumption
<1>4. PICK g : g = GotAddr(e)
  OBVIOUS
<1>5. PICK p : p = PltAddr(e)
  OBVIOUS
<1>6. PICK off : off = Minus(64, g, p)
  OBVIOUS
<1>7. g \in SUBSET (0..63) /\ p \in SUBSET (0..63)
  <2>1. \A n : Bits(n) \in SUBSET (0..63)
    BY DEF Bits
  <2>2. got \in SUBSET (0..63) /\ Plt \in SUBSET (0..63)
    BY WordAssumption DEF ReasonInv, LinkInv
  <2>3. GotAddr(e) \in SUBSET (0..63)
    BY <2>1, <2>2, SumRange DEF GotAddr
  <2>4. PltAddr(e) \in SUBSET (0..63)
    <3>1. PICK n : n = IF e = 0 THEN 0 ELSE 16 + 16 * e
      OBVIOUS
    <3>2. Plus(64, Plt, Bits(n)) \in SUBSET (0..63)
      BY <2>1, <2>2, SumRange
    <3> QED
      BY <3>1, <3>2 DEF PltAddr
  <2> QED
    BY <1>4, <1>5, <2>3, <2>4
<1>8. PICK page : page = PageOfUnsigned(off)
  OBVIOUS
<1>9. plt[k][1] = Hi20({}, page) /\ plt[k][2] = Lo12_I({}, off)
  BY <1>3, <1>4, <1>5, <1>6, <1>8 DEF PltWords
<1>10. PageFits(page) /\ 19 \notin page
  <2>1. PageFits(page)
    BY <1>1, <1>3, <1>4, <1>5, <1>6, <1>8 DEF PltFits
  <2>2. program \in Programs /\ got \in Gots[program]
    BY DEF LinkInv, ReasonInv
  <2>3. g = Plus(64, got, Bits(8 * e))
    BY <1>4 DEF GotAddr
  <2> QED
    BY <1>3, <1>5, <1>6, <1>8, <2>1, <2>2, <2>3 DEF NoGap
<1>11. off \in SUBSET (0..63)
  <2>1. 64 \in Nat /\ g \in WordsOf(64) /\ p \in WordsOf(64)
    BY <1>7 DEF WordsOf
  <2>2. Minus(64, g, p) \in WordsOf(64)
    BY <2>1, MinusIs
  <2> QED
    BY <1>6, <2>2 DEF WordsOf
<1>12. ImmU(plt[k][1]) = Plus(64, off, {11}) \ (0..11)
  BY <1>8, <1>9, <1>10, <1>11, UnsignedPageReads DEF Round
<1>13. ImmI(plt[k][2]) = Sext(64, off, 12)
  BY <1>9, LowerReads
<1>14. Plus(64, Plus(64, p, Plus(64, off, {11}) \ (0..11)), Sext(64, off, 12)) = g
  <2>1. g \in SUBSET (0..63) /\ p \in SUBSET (0..63) /\ off = Minus(64, g, p)
    BY <1>6, <1>7
  <2> QED
    BY <2>1, OffsetLeads
<1> QED
  BY <1>2, <1>4, <1>5, <1>12, <1>13, <1>14

\* What is relocated reaches its symbol: a jump goes to it, an access by two halves is of
\* it, a datum has its address, the loader's pointers too, and an entry of the PLT finds
\* its slot of the GOT, as long as no distance is one that the range checks let pass and
\* the immediates cannot hold.
THEOREM TargetsReached ==
    ASSUME NoGap
    PROVE  Spec => []ReachesTarget
<1>1. LinkInv /\ ReasonInv /\ ReachInv => ReachesTarget
  BY EffectReaches, PltReaches DEF ReachesTarget
<1>2. NoGap
  OBVIOUS
<1>3. LinkInv /\ ReasonInv /\ ReachInv /\ [Next]_vars => ReachInv'
  BY <1>2, NextReach
<1> QED BY <1>1, <1>3, LinkCorrect, ReasonCorrect, InitReach, PTL DEF Spec
=============================================================================
