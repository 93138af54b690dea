----------------------------- MODULE SymbolRules -----------------------------
(* What a link has to make of the symbols of its files: a declarative          *)
(* reference, after the rules of the ELF specification that the comments of    *)
(* set_elf_sym and relocate_syms (tccelf.c) repeat.  It looks at all the files *)
(* at once; the linker of ElfSymbols sees one symbol after the other.          *)
(*                                                                             *)
(* An occurrence is what one file says of one global name: its binding, its    *)
(* visibility, where it is defined ("undef" if it is only used) and the value  *)
(* that identifies the definition.                                             *)
EXTENDS Integers, Sequences, FiniteSets

Of(seen, n) == {i \in DOMAIN seen : seen[i].name = n}
Uses(seen, n) == {i \in Of(seen, n) : seen[i].sec = "undef"}
Defs(seen, n) == Of(seen, n) \ Uses(seen, n)
Strong(seen, n) == {i \in Defs(seen, n) : seen[i].bind = "global"}

(* A definition with contents, as against one that is only reserved: "data     *)
(* symbol gets precedence over common/bss".                                    *)
Real(seen, n) == {i \in Strong(seen, n) : seen[i].sec = "data"}

Earliest(S) == CHOOSE i \in S : \A j \in S : i <= j

(* "global overrides weak", then contents before reserved space, then the      *)
(* first one found.                                                            *)
Winner(seen, n) ==
    LET best == IF Real(seen, n) # {} THEN Real(seen, n)
                ELSE IF Strong(seen, n) # {} THEN Strong(seen, n)
                ELSE Defs(seen, n)
    IN  seen[Earliest(best)]

(* "propagate the most constraining visibility"                                *)
MostConstraining(seen, n) ==
    IF \E i \in Of(seen, n) : seen[i].vis = "hidden" THEN "hidden" ELSE "default"

DefinedTwice(seen, n) == Cardinality(Real(seen, n)) > 1

(* "only weak symbols are accepted to be undefined"                            *)
Undefined(seen, n) ==
    /\ Defs(seen, n) = {}
    /\ \E i \in Uses(seen, n) : seen[i].bind = "global"

------------------------------------------------------------------------------
(* Three kinds of input for which set_elf_sym gives one result or another,     *)
(* after the order of the files.                                               *)

(* A hidden definition next to another strong one: ignored, without an error,  *)
(* even if the other one is a common symbol, unless it comes first.            *)
HiddenAgain(seen, n) ==
    /\ Cardinality(Strong(seen, n)) > 1
    /\ \E i \in Strong(seen, n) : seen[i].vis = "hidden"

(* A use that asks for a visibility: forgotten by the next definition.         *)
VisibleUse(seen, n) == \E i \in Uses(seen, n) : seen[i].vis # "default"

(* A weak use and a strong one of a name that nothing defines: the last counts.*)
WeakUse(seen, n) ==
    /\ Defs(seen, n) = {}
    /\ Cardinality({seen[i].bind : i \in Uses(seen, n)}) > 1
==============================================================================
