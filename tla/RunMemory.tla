----------------------------- MODULE RunMemory ------------------------------
(***************************************************************************)
(* Code that runs in memory (tccrun.c): tcc_relocate lays the sections of  *)
(* a TCCState out twice, once from address 0 for the size, and again where *)
(* malloc found room, copies them there and sets the access of the pages;  *)
(* tcc_delete gives the pages back.  Several states share the heap.        *)
(*                                                                         *)
(* Addresses count some unit of bytes.  `sections' are those that are      *)
(* allocated, in the order of the three rounds of tcc_relocate_ex: code,   *)
(* read-only data, data.  The heap belongs to libc; malloc may find room   *)
(* anywhere.                                                               *)
(***************************************************************************)
EXTENDS Integers, Sequences

CONSTANTS
    Tccs,           \* the TCCStates
    Layouts,        \* the sections that a state may have
    PageSize,
    Alignments,     \* powers of two
    MallocAlign,    \* what malloc aligns to
    HeapEnd         \* the heap is 1..HeapEnd - 1

Sections == [flags : {"rx", "ro", "rw"}, length : Nat, align : Alignments]

ASSUME AlignmentsAssumption ==
    /\ Alignments \subseteq Nat \ {0}
    /\ PageSize \in Alignments \ {1}
    /\ \A a, b \in Alignments : a <= b => b % a = 0
\* There is always a data section (tccelf.c:68).
ASSUME LayoutsAssumption ==
    /\ Layouts \subseteq Seq(Sections)
    /\ \A secs \in Layouts : secs # <<>> /\ secs[Len(secs)].flags = "rw"
ASSUME HeapAssumption == HeapEnd \in Nat /\ MallocAlign \in Nat \ {0}

VARIABLES
    sections,       \* of each state
    progress,       \* how far its tcc_relocate has come
    pos,            \* how many sections this pass has done
    offset, max_align,
    size, base,     \* the memory of the state, 0 before there is one
    sh_addr,
    sized,          \* what offset was behind each section in the first pass; the code
                    \* does not keep it, and no action reads it
    runtime_mem,    \* whether tcc_relocate itself calls malloc, and tcc_delete free
    prot            \* the access of each page

runVars == <<sections, progress, pos, offset, max_align, size, base, sh_addr, sized,
             runtime_mem, prot>>

Pages == 0..(HeapEnd + PageSize - 1) \div PageSize

\* -x & (a - 1), what is missing to the next multiple of a.
Pad(x, a) == (-x) % a

\* The first section of a round begins a page.
Begins(secs, n) == n = 1 \/ secs[n - 1].flags # secs[n].flags
AlignAtSection(secs, n) == secs[n].align    \* mutant: no page is begun
AlignAt(secs, n) ==
    IF Begins(secs, n) /\ secs[n].align < PageSize THEN PageSize ELSE secs[n].align

RunInit ==
    /\ sections \in [Tccs -> Layouts]
    /\ progress = [s \in Tccs |-> "new"]
    /\ pos = [s \in Tccs |-> 0]
    /\ offset = [s \in Tccs |-> 0] /\ max_align = [s \in Tccs |-> 0]
    /\ size = [s \in Tccs |-> 0] /\ base = [s \in Tccs |-> 0]
    /\ sh_addr = [s \in Tccs |-> [n \in 1..Len(sections[s]) |-> 0]]
    /\ sized = [s \in Tccs |-> [n \in 0..Len(sections[s]) |-> 0]]
    /\ runtime_mem = [s \in Tccs |-> FALSE]
    /\ prot = [p \in Pages |-> "rw"]

Begin(s, st, b) ==
    /\ progress' = [progress EXCEPT ![s] = st]
    /\ base' = [base EXCEPT ![s] = b]
    /\ pos' = [pos EXCEPT ![s] = 0]
    /\ offset' = [offset EXCEPT ![s] = 0] /\ max_align' = [max_align EXCEPT ![s] = 0]

\* tcc_relocate(s, TCC_RELOCATE_AUTO), or with NULL; the first pass is from address 0.
TccRelocate(s) ==
    /\ progress[s] = "new"
    /\ Begin(s, "size", 0)
    /\ \E auto \in BOOLEAN : runtime_mem' = [runtime_mem EXCEPT ![s] = auto]
    /\ UNCHANGED <<sections, size, sh_addr, sized, prot>>

\* Either pass gives the next section its place.
Place(s) ==
    LET n == pos[s] + 1
        a == AlignAt(sections[s], n)
        at == offset[s] + Pad(base[s] + offset[s], a)
        behind == at + sections[s][n].length
    IN  /\ progress[s] \in {"size", "place"}
        /\ pos[s] < Len(sections[s])
        /\ pos' = [pos EXCEPT ![s] = n]
        /\ offset' = [offset EXCEPT ![s] = behind]
        /\ max_align' = [max_align EXCEPT ![s] = IF @ < a - 1 THEN a - 1 ELSE @]
        /\ sh_addr' = [sh_addr EXCEPT ![s][n] = IF base[s] = 0 THEN 0 ELSE base[s] + at]
        /\ sized' = IF progress[s] = "size" THEN [sized EXCEPT ![s][n] = behind] ELSE sized
        /\ UNCHANGED <<sections, progress, size, base, runtime_mem, prot>>

\* Wherever the memory will be, the first section may be max_align off.
RequiredFromZero(s) == offset[s]    \* mutant: enough at address 0
Required(s) == offset[s] + max_align[s]

\* The first pass ends with the symbols, of which one may be undefined; an error before it has
\* no other effect.
Sized(s) ==
    /\ progress[s] = "size" /\ pos[s] = Len(sections[s])
    /\ \/ /\ progress' = [progress EXCEPT ![s] = "failed"]
          /\ UNCHANGED size
       \/ /\ progress' = [progress EXCEPT ![s] = "malloc"]
          /\ size' = [size EXCEPT ![s] = Required(s)]
    /\ UNCHANGED <<sections, pos, offset, max_align, base, sh_addr, sized, runtime_mem, prot>>

Block(s) == base[s]..base[s] + size[s] - 1

\* tcc_relocate finds room, or its caller does, who then calls tcc_relocate again with it.
Malloc(s) ==
    /\ progress[s] = "malloc"
    /\ \E m \in 1..HeapEnd - size[s] :
           /\ m % MallocAlign = 0
           /\ \A r \in Tccs : base[r] # 0 => m + size[s] <= base[r] \/ base[r] + size[r] <= m
           /\ Begin(s, "place", m)
    /\ UNCHANGED <<sections, size, sh_addr, sized, runtime_mem, prot>>

\* relocate_sections works on what the sections hold, then they are copied.
Placed(s) ==
    /\ progress[s] = "place" /\ pos[s] = Len(sections[s])
    /\ progress' = [progress EXCEPT ![s] = "copy"]
    /\ pos' = [pos EXCEPT ![s] = 0]
    /\ UNCHANGED <<sections, offset, max_align, size, base, sh_addr, sized, runtime_mem, prot>>

\* The pages from a down to the end of n bytes up.
PagesOf(a, n) == a \div PageSize..(a + n + PageSize - 1) \div PageSize - 1
set_pages_executable(mode, a, n) ==
    prot' = [p \in Pages |-> IF p \in PagesOf(a, n) THEN mode ELSE prot[p]]

\* A round copies its sections and sets the access from the first one to the end of the last.
CopyRound(s) == \E first, last \in 1..Len(sections[s]) :
    LET n == sh_addr[s][last] - sh_addr[s][first] + sections[s][last].length
    IN  /\ progress[s] = "copy" /\ first = pos[s] + 1
        /\ first <= last
        /\ \A m \in first..last : sections[s][m].flags = sections[s][first].flags
        /\ last < Len(sections[s]) => Begins(sections[s], last + 1)
        /\ IF n = 0 THEN UNCHANGED prot
           ELSE set_pages_executable(sections[s][first].flags, sh_addr[s][first], n)
        /\ pos' = [pos EXCEPT ![s] = last]
        /\ progress' = [progress EXCEPT ![s] = IF last = Len(sections[s]) THEN "ready" ELSE "copy"]
        /\ UNCHANGED <<sections, offset, max_align, size, base, sh_addr, sized, runtime_mem>>

\* tcc_delete: tcc_run_free makes the memory writable again, for free; what the caller of
\* tcc_relocate gave stays his, and as it is.
Delete(s) ==
    /\ progress[s] \in {"ready", "failed"}
    /\ progress' = [progress EXCEPT ![s] = "deleted"]
    /\ IF base[s] # 0 /\ runtime_mem[s]
       THEN set_pages_executable("rw", base[s], size[s]) /\ base' = [base EXCEPT ![s] = 0]
       ELSE UNCHANGED <<prot, base>>
    /\ UNCHANGED <<sections, pos, offset, max_align, size, sh_addr, sized, runtime_mem>>

RunNext == \E s \in Tccs :
    \/ TccRelocate(s) \/ Place(s) \/ Sized(s) \/ Malloc(s)
    \/ Placed(s) \/ CopyRound(s) \/ Delete(s)

RunSpec == RunInit /\ [][RunNext]_runVars

-----------------------------------------------------------------------------
HasPlace(s) == progress[s] \in {"copy", "ready"}

\* The memory is as large as the first pass said, but lies elsewhere: still every section is
\* inside it, aligned, and behind the one before (tccrun.c:349, offset + max_align).
SectionsFit == \A s \in Tccs : HasPlace(s) => \A n \in 1..Len(sections[s]) :
    /\ base[s] <= sh_addr[s][n]
    /\ sh_addr[s][n] + sections[s][n].length <= base[s] + size[s]
    /\ sh_addr[s][n] % AlignAt(sections[s], n) = 0
    /\ n > 1 => sh_addr[s][n - 1] + sections[s][n - 1].length <= sh_addr[s][n]

\* What copying needs of a page, or has made of it, where section n of s has a byte in it.
PageAccess(s, n) == IF progress[s] = "ready" \/ n <= pos[s] THEN sections[s][n].flags ELSE "rw"

\* The pages of a copied section have its access, those of one that is still to be copied can
\* be written; and no page is protected that anyone else, or malloc, has bytes in
\* (tccrun.c:386 rounds to pages on both sides).
PagesRight ==
    /\ \A s \in Tccs : HasPlace(s) => \A n \in 1..Len(sections[s]) :
           sections[s][n].length # 0 =>
               \A p \in PagesOf(sh_addr[s][n], sections[s][n].length) : prot[p] = PageAccess(s, n)
    /\ \A p \in Pages : prot[p] # "rw" =>
           \E s \in Tccs : base[s] # 0 /\ p * PageSize..(p + 1) * PageSize - 1 \subseteq Block(s)

=============================================================================
