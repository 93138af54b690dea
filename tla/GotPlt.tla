------------------------------- MODULE GotPlt -------------------------------
(***************************************************************************)
(* How the references of a RISC-V program get to symbols that are not      *)
(* there, or are absolute: tccelf.c binds the symbols of an executable to  *)
(* those of shared libraries, gives out entries of the GOT and the PLT in  *)
(* two passes over the relocations, some of which it redirects, resolves   *)
(* the symbols, and leaves the rest to the loader.                         *)
(*                                                                         *)
(* Symbols are numbered; each is [place, bind, type, lib]: "here", "undef" *)
(* or "abs" (not 0); "global", "weak" or "local"; "func", "object" or      *)
(* "notype"; lib is the type with which another object of the running      *)
(* program defines its name, or "none".  An address is <<what, number>>.   *)
(***************************************************************************)
EXTENDS Naturals, Sequences

CONSTANTS Outputs,      \* of "memory", "static", "exe", "pie" and "dll"
          Tables,       \* the tables of symbols: sequences
          MaxRefs,      \* bound: references
          Deviations    \* references the code gets wrong that are made all the same, see Admitted

VARIABLES output,       \* of Outputs
          symbols,      \* symtab
          refs,         \* the relocations, of all sections: type, symbol, entry of the PLT instead (or 0)
          got,          \* the slots: the symbol, and who fills it: "static", "relative" or "dynamic"
          plt,          \* the entries: the slot that each jumps through
          attr,         \* sym_attr: the entry and the slot of each symbol, or 0
          dyn,          \* the type of its symbol in dynsym, by dyn_index, or "none"
          pass, at,     \* of build_got_entries
          stage,        \* what comes next, or "failed"
          words, slots  \* the address that each relocation and each slot gets

gotVars == <<output, symbols, refs, got, plt, attr, dyn, pass, at, stage, words, slots>>

RefTypes == {"CALL_PLT", "GOT_HI20", "PCREL_HI20", "64"}
Dynamic == {"exe", "pie", "dll"}    \* there is a dynsym
Movable == {"pie", "dll"}           \* TCC_OUTPUT_DYN

Null == <<"null", 0>>
Nowhere == <<"nowhere", 0>>
ByLoader(s) == <<"loader", s>>

Symbols == [place : {"here", "undef", "abs"}, bind : {"global", "weak", "local"},
            type : {"func", "object", "notype"}, lib : {"none", "func", "object", "notype"}]

\* What is not defined is not local, and is not used as a function where a library has an object.
Agrees(y) == y.place = "undef" =>
                 /\ y.bind # "local"
                 /\ y.lib \in {"func", "object"} => y.type \in {y.lib, "notype"}

ASSUME OutputsAssumption == Outputs \subseteq {"memory", "static", "exe", "pie", "dll"}
ASSUME TablesAssumption ==
    \A table \in Tables : table \in [DOMAIN table -> Symbols] /\ \A s \in DOMAIN table : Agrees(table[s])

-----------------------------------------------------------------------------
(* Which references a program makes. *)

Missing(s) == symbols[s].place = "undef" /\ symbols[s].lib = "none"

Admitted(s, type) ==
    LET y == symbols[s]
        data == type \in {"64", "PCREL_HI20"}
        called == \E i \in DOMAIN refs : refs[i].sym = s /\ refs[i].type = "CALL_PLT"
    IN  \* Code that can be moved does not measure the distance to what may be elsewhere.
        /\ type = "PCREL_HI20" /\ output \in Movable => y.place = "here"
        /\ type = "CALL_PLT" => y.type # "object" /\ y.lib # "object"
        /\ "weak by its PLT" \in Deviations \/
           ~(output \in Dynamic /\ Missing(s) /\ y.bind = "weak" /\ y.type = "func" /\ data /\ called)
        /\ "untyped" \in Deviations \/
           ~(output = "exe" /\ y.lib = "notype" /\ data /\ ~(y.type = "func" /\ called))
        /\ "PLT of a static program" \in Deviations \/
           ~(output = "static" /\ y.place = "abs" /\ type = "CALL_PLT")
        /\ "local absolute" \in Deviations \/
           ~(output \in Dynamic /\ y.place = "abs" /\ y.bind = "local")

Refer ==
    /\ stage = "refer" /\ Len(refs) < MaxRefs
    /\ \E s \in DOMAIN symbols, type \in RefTypes :
          /\ Admitted(s, type)
          /\ refs' = Append(refs, [type |-> type, sym |-> s, via |-> 0])
    /\ UNCHANGED <<output, symbols, got, plt, attr, dyn, pass, at, stage, words, slots>>

-----------------------------------------------------------------------------
(* bind_exe_dynsyms *)

\* A function of a library gets a dynamic symbol, an object a copy in this program.  An
\* undefined symbol is in the table because something refers to it.
bind_exe_dynsyms ==
    /\ stage = "refer"
    /\ \A s \in DOMAIN symbols :
          symbols[s].place = "undef" => \E i \in DOMAIN refs : refs[i].sym = s
    /\ LET Bound(s, t) == output = "exe" /\ symbols[s].place = "undef" /\ symbols[s].lib = t
       IN  /\ symbols' = [s \in DOMAIN symbols |->
                  IF Bound(s, "object")
                  THEN [symbols[s] EXCEPT !.place = "here", !.bind = "global", !.type = "object"]
                  ELSE symbols[s]]
           /\ dyn' = [s \in DOMAIN symbols |-> IF Bound(s, "func") THEN "func" ELSE "none"]
           /\ stage' = IF \E s \in DOMAIN symbols : Bound(s, "none") /\ symbols[s].bind # "weak"
                       THEN "failed" ELSE "build"
    /\ UNCHANGED <<output, refs, got, plt, attr, pass, at, words, slots>>

-----------------------------------------------------------------------------
(* build_got_entries *)

\* The entry that a reference needs: "none", a "slot" of the GOT, or a "jump" through one.
Needed(r) ==
    LET y == symbols[r.sym]
        function == dyn[r.sym] = "func" \/ (dyn[r.sym] = "notype" /\ y.type = "func")
    IN  IF r.type = "GOT_HI20" THEN "slot"
        ELSE IF r.via # 0 \/ y.place = "here" THEN "none"
        ELSE IF y.place = "undef" /\ output \in Dynamic /\ function THEN "jump"
        ELSE IF r.type = "CALL_PLT" THEN "jump" ELSE "slot"

\* Mutant: whoever has a slot needs no other.
HasEither(need, s) == attr[s].plt # 0 \/ attr[s].got # 0

HasEntry(need, s) == IF need = "jump" THEN attr[s].plt # 0 ELSE attr[s].got # 0

FilledBy(s) ==
    IF output \notin Dynamic THEN "static"
    ELSE IF symbols[s].bind = "local" THEN "relative" ELSE "dynamic"

put_got_entry(need, s) ==
    IF HasEntry(need, s) THEN UNCHANGED <<got, plt, attr, dyn>>
    ELSE /\ got' = Append(got, [sym |-> s, by |-> FilledBy(s)])
         /\ dyn' = IF FilledBy(s) = "dynamic" /\ dyn[s] = "none"
                   THEN [dyn EXCEPT ![s] = symbols[s].type] ELSE dyn
         /\ IF need = "jump"
            THEN /\ plt' = Append(plt, Len(got) + 1)
                 /\ attr' = [attr EXCEPT ![s].plt = Len(plt) + 1]
            ELSE /\ attr' = [attr EXCEPT ![s].got = Len(got) + 1]
                 /\ UNCHANGED plt

\* One relocation, in the pass for the PLT (0) or in that for the GOT (1).
Visit ==
    /\ stage = "build" /\ at < Len(refs)
    /\ LET r == refs[at + 1]
           need == Needed(r)
       IN  IF need = (IF pass = 0 THEN "jump" ELSE "slot")
           THEN /\ put_got_entry(need, r.sym)
                /\ refs' = IF need = "jump" THEN [refs EXCEPT ![at + 1].via = attr'[r.sym].plt]
                           ELSE refs
           ELSE UNCHANGED <<got, plt, attr, dyn, refs>>
    /\ at' = at + 1
    /\ UNCHANGED <<output, symbols, pass, stage, words, slots>>

NextPass ==
    /\ stage = "build" /\ at = Len(refs)
    /\ at' = 0
    /\ IF pass = 0 THEN pass' = 1 /\ UNCHANGED stage ELSE stage' = "export" /\ UNCHANGED pass
    /\ UNCHANGED <<output, symbols, refs, got, plt, attr, dyn, words, slots>>

-----------------------------------------------------------------------------
(* The rest of elf_output_file, and of tcc_relocate_ex. *)

\* A library exports every symbol, and imports those that are undefined.
export_global_syms ==
    /\ stage = "export"
    /\ dyn' = [s \in DOMAIN dyn |->
                  IF output = "dll" /\ symbols[s].bind # "local" /\ dyn[s] = "none"
                  THEN symbols[s].type ELSE dyn[s]]
    /\ stage' = "resolve"
    /\ UNCHANGED <<output, symbols, refs, got, plt, attr, pass, at, words, slots>>

\* relocate_syms: dlsym finds the symbols of a program in memory.
Unresolved(s) ==
    /\ symbols[s].place = "undef"
    /\ CASE output = "memory" -> symbols[s].lib = "none"
         [] output = "static" -> TRUE
         [] OTHER             -> dyn[s] = "none"

ResolveSymbols ==
    /\ stage = "resolve"
    /\ stage' = IF \E s \in DOMAIN symbols : Unresolved(s) /\ symbols[s].bind # "weak"
                THEN "failed" ELSE "relocate"
    /\ UNCHANGED <<output, symbols, refs, got, plt, attr, dyn, pass, at, words, slots>>

\* st_value, after that.
Value(s) ==
    LET y == symbols[s]
    IN  IF y.place # "undef" THEN <<y.place, s>>
        ELSE IF output = "memory" /\ ~Unresolved(s) THEN <<"lib", s>> ELSE Null

\* relocate: what a relocation refers to.
Related(r) ==
    IF r.via # 0 THEN <<"plt", r.via>>
    ELSE IF r.type = "GOT_HI20" THEN <<"got", attr[r.sym].got>>
    ELSE IF r.type = "64" /\ output \in Movable /\ dyn[r.sym] # "none" THEN ByLoader(r.sym)
    ELSE Value(r.sym)

\* relocate_sections, and fill_local_got_entries, which looks for the slot by the symbol.
relocate_sections ==
    /\ stage = "relocate"
    /\ words' = [i \in DOMAIN refs |-> Related(refs[i])]
    /\ slots' = [k \in DOMAIN got |-> IF got[k].by = "dynamic" THEN ByLoader(got[k].sym)
                                      ELSE Value(got[k].sym)]
    /\ stage' = IF \E k \in DOMAIN got : got[k].by = "relative" /\ attr[got[k].sym].got # k
                THEN "failed" ELSE "load"
    /\ UNCHANGED <<output, symbols, refs, got, plt, attr, dyn, pass, at>>

\* The dynamic loader looks the symbols of dynsym up, here first.
Found(s) ==
    LET y == symbols[s]
    IN  IF y.place # "undef" THEN <<y.place, s>>
        ELSE IF y.lib # "none" THEN <<"lib", s>> ELSE Null

LoadWith(address) == IF address[1] = "loader" THEN Found(address[2]) ELSE address

Load ==
    /\ stage = "load"
    /\ words' = [i \in DOMAIN words |-> LoadWith(words[i])]
    /\ slots' = [k \in DOMAIN slots |-> LoadWith(slots[k])]
    /\ stage' = IF \E s \in DOMAIN symbols : dyn[s] # "none" /\ Missing(s) /\ symbols[s].bind # "weak"
                THEN "failed" ELSE "run"
    /\ UNCHANGED <<output, symbols, refs, got, plt, attr, dyn, pass, at>>

GotInit ==
    /\ output \in Outputs
    /\ symbols \in Tables
    /\ output = "static" => \A s \in DOMAIN symbols : symbols[s].lib = "none"
    /\ refs = <<>> /\ got = <<>> /\ plt = <<>>
    /\ attr = [s \in DOMAIN symbols |-> [plt |-> 0, got |-> 0]]
    /\ dyn = [s \in DOMAIN symbols |-> "none"]
    /\ pass = 0 /\ at = 0 /\ stage = "refer"
    /\ words = <<>> /\ slots = <<>>

GotNext ==
    \/ Refer \/ bind_exe_dynsyms \/ Visit \/ NextPass
    \/ export_global_syms \/ ResolveSymbols \/ relocate_sections \/ Load

GotSpec == GotInit /\ [][GotNext]_gotVars

-----------------------------------------------------------------------------
(* The property *)

\* What a slot of the GOT holds; the first ones are not of symbols.
Held(k) == IF k = 0 THEN Nowhere ELSE slots[k]

\* Where an entry of the PLT leads: relocate_plt is not called for a static program.
Through(address) ==
    IF address[1] # "plt" THEN address
    ELSE IF output = "static" THEN Nowhere ELSE Held(plt[address[2]])

\* The address that the program finds by reference i.
Address(i) == IF words[i][1] = "got" THEN Held(words[i][2]) ELSE words[i]

\* In the running program every reference is to what its symbol is: the definition here, the
\* copy here, the absolute address, or the definition in a library.  A call, and the address of
\* a function, may go through the PLT; a weak symbol that nobody defines has the address null,
\* also while it is called elsewhere (tccelf.c:1096).  Linking and loading fail only if a
\* symbol is defined nowhere and is not weak, and then one of them does.
ReferencesRight ==
    /\ stage = "run" => \A i \in DOMAIN refs :
          LET s == refs[i].sym
              want == Found(s)
          IN  IF want = Null THEN refs[i].type = "CALL_PLT" \/ Address(i) = Null
              ELSE /\ Through(Address(i)) = want
                   /\ symbols[s].type = "object" => Address(i) = want
    /\ stage \in {"run", "failed"} =>
          (stage = "failed" <=> \E s \in DOMAIN symbols : Missing(s) /\ symbols[s].bind # "weak")
=============================================================================
