---------------------------- MODULE ImageProofs -----------------------------
(* What a program finds when it runs.  Its references lead to their symbols, *)
(* or the link fails: for any tables of symbols, any kinds of output and any *)
(* number of references.  And what is loaded into memory fits there: for any *)
(* sections, any powers of two, any number of states and wherever malloc     *)
(* finds room.                                                               *)
EXTENDS GotPlt, RunMemory, TLAPS

-----------------------------------------------------------------------------
(* The GOT and the PLT *)

Stages == {"refer", "build", "export", "resolve", "relocate", "load", "run", "failed"}

References == [type : RefTypes, sym : DOMAIN symbols, via : Nat]
Slots == [sym : DOMAIN symbols, by : {"static", "relative", "dynamic"}]

TypeInv ==
    /\ output \in Outputs
    /\ symbols \in [DOMAIN symbols -> Symbols]
    /\ refs \in Seq(References)
    /\ got \in Seq(Slots)
    /\ plt \in Seq(Nat)
    /\ attr \in [DOMAIN symbols -> [plt : Nat, got : Nat]]
    /\ dyn \in [DOMAIN symbols -> {"func", "object", "notype", "none"}]
    /\ pass \in {0, 1} /\ at \in Nat /\ at <= Len(refs)
    /\ stage \in Stages
    /\ stage \in {"export", "resolve", "relocate", "load", "run"} => pass = 1

\* The table: a static program has no libraries.
TableInv == \A s \in DOMAIN symbols :
    Agrees(symbols[s]) /\ (output = "static" => symbols[s].lib = "none")

IsData(r) == r.type \in {"64", "PCREL_HI20"}
Calls(j, s) == refs[j].type = "CALL_PLT" /\ refs[j].sym = s

\* What Admitted says of the references made, each by those before it.
RefsInv == \A i \in DOMAIN refs :
    LET r == refs[i]
        y == symbols[r.sym]
        called == \E j \in 1..(i - 1) : Calls(j, r.sym)
    IN  /\ r.type = "PCREL_HI20" /\ output \in Movable => y.place = "here"
        /\ r.type = "CALL_PLT" => y.type # "object" /\ y.lib # "object"
        /\ output \in Dynamic /\ Missing(r.sym) /\ y.bind = "weak" /\ y.type = "func" /\ IsData(r) => ~called
        /\ output = "exe" /\ y.lib = "notype" /\ IsData(r) => y.type = "func" /\ called
        /\ output = "static" /\ y.place = "abs" => r.type # "CALL_PLT"
        /\ output \in Dynamic /\ y.place = "abs" => y.bind # "local"

\* Before bind_exe_dynsyms nothing is given out.
FreshInv == stage = "refer" =>
    /\ pass = 0 /\ at = 0 /\ got = <<>> /\ plt = <<>>
    /\ \A s \in DOMAIN symbols : dyn[s] = "none" /\ attr[s].plt = 0 /\ attr[s].got = 0
    /\ \A i \in DOMAIN refs : refs[i].via = 0

\* What it leaves behind.
BoundInv == stage # "refer" => \A s \in DOMAIN symbols : symbols[s].place = "undef" =>
    /\ \E i \in DOMAIN refs : refs[i].sym = s
    /\ output = "exe" =>
          /\ symbols[s].lib # "object"
          /\ symbols[s].lib = "func" => dyn[s] = "func"
          /\ symbols[s].lib = "none" => symbols[s].bind = "weak" \/ stage = "failed"

DynInv == \A s \in DOMAIN symbols : dyn[s] # "none" =>
    \/ dyn[s] = symbols[s].type
    \/ dyn[s] = "func" /\ symbols[s].lib = "func" /\ symbols[s].place = "undef"

\* The slots are filled for the symbol that they were given to, and the entries lead there.
EntriesInv ==
    /\ \A k \in DOMAIN got :
          /\ got[k].by = FilledBy(got[k].sym)
          /\ got[k].by = "dynamic" => dyn[got[k].sym] # "none"
          /\ got[k].by = "relative" => attr[got[k].sym].got = k
    /\ \A s \in DOMAIN symbols :
          /\ attr[s].got # 0 => attr[s].got \in DOMAIN got /\ got[attr[s].got].sym = s
          /\ attr[s].plt # 0 => /\ attr[s].plt \in DOMAIN plt
                                /\ plt[attr[s].plt] \in DOMAIN got
                                /\ got[plt[attr[s].plt]].sym = s

\* A function that nobody defines is taken for one once a call has been seen.
CalledInv == pass = 0 /\ output \in Dynamic => \A s \in DOMAIN symbols :
    Missing(s) /\ dyn[s] = "func" => \E j \in 1..at : Calls(j, s)

\* The references that are redirected.
ViaInv == \A i \in DOMAIN refs : refs[i].via # 0 =>
    LET r == refs[i]
        y == symbols[r.sym]
    IN  /\ r.via = attr[r.sym].plt
        /\ r.type # "GOT_HI20" /\ y.place # "here" /\ y.type # "object"
        /\ output \notin Dynamic \/ (Missing(r.sym) /\ y.bind = "weak") => r.type = "CALL_PLT"

\* What pass 0 has done for the references up to at, and pass 1.
JumpInv == \A i \in DOMAIN refs : pass = 1 \/ i <= at =>
    LET y == symbols[refs[i].sym]
    IN  /\ refs[i].type = "CALL_PLT" /\ y.place # "here" => refs[i].via # 0
        /\ output = "exe" /\ y.place = "undef" /\ y.lib # "none" /\ refs[i].type # "GOT_HI20" =>
              refs[i].via # 0

Built(i) == stage \in {"export", "resolve", "relocate", "load", "run"} \/ (stage = "build" /\ pass = 1 /\ i <= at)

SlotInv == \A i \in DOMAIN refs : Built(i) =>
    LET s == refs[i].sym
    IN  /\ refs[i].type = "GOT_HI20" => attr[s].got # 0
        /\ output \in Dynamic /\ symbols[s].place = "undef" => dyn[s] # "none"

\* Where the link or the loading ends.
EndInv ==
    /\ stage \in {"relocate", "load", "run"} => \A s \in DOMAIN symbols : Unresolved(s) => symbols[s].bind = "weak"
    /\ stage = "load" =>
          /\ words = [i \in DOMAIN refs |-> Related(refs[i])]
          /\ slots = [k \in DOMAIN got |-> IF got[k].by = "dynamic" THEN ByLoader(got[k].sym)
                                           ELSE Value(got[k].sym)]
    /\ stage = "run" =>
          /\ words = [i \in DOMAIN refs |-> LoadWith(Related(refs[i]))]
          /\ slots = [k \in DOMAIN got |-> LoadWith(IF got[k].by = "dynamic" THEN ByLoader(got[k].sym)
                                                    ELSE Value(got[k].sym))]
          /\ \A s \in DOMAIN symbols : dyn[s] # "none" /\ Missing(s) => symbols[s].bind = "weak"
    /\ stage = "failed" => \E s \in DOMAIN symbols : Missing(s) /\ symbols[s].bind # "weak"

TableRefsInv == TableInv /\ RefsInv /\ FreshInv /\ BoundInv /\ DynInv
BuildInv == EntriesInv /\ CalledInv /\ ViaInv /\ JumpInv /\ SlotInv
GotInv == TypeInv /\ TableRefsInv /\ BuildInv /\ EndInv

-----------------------------------------------------------------------------
(* The references and their symbols *)

\* The types of what is read.
LEMMA Reads ==
    ASSUME TypeInv
    PROVE  /\ Len(refs) \in Nat /\ DOMAIN refs = 1..Len(refs)
           /\ \A i \in 1..Len(refs) :
                 refs[i].sym \in DOMAIN symbols /\ refs[i].type \in RefTypes /\ refs[i].via \in Nat
           /\ Len(got) \in Nat /\ DOMAIN got = 1..Len(got)
           /\ \A k \in 1..Len(got) : got[k].sym \in DOMAIN symbols
           /\ Len(plt) \in Nat /\ DOMAIN plt = 1..Len(plt)
           /\ \A k \in 1..Len(plt) : plt[k] \in Nat
           /\ \A s \in DOMAIN symbols : symbols[s] \in Symbols /\ attr[s].plt \in Nat /\ attr[s].got \in Nat
           /\ at \in Nat /\ at <= Len(refs) /\ pass \in {0, 1}
<1>1. refs \in Seq(References) /\ got \in Seq(Slots) /\ plt \in Seq(Nat)
  BY DEF TypeInv
<1>2. Len(refs) \in Nat /\ DOMAIN refs = 1..Len(refs) /\ \A i \in 1..Len(refs) : refs[i] \in References
  BY <1>1
<1>3. Len(got) \in Nat /\ DOMAIN got = 1..Len(got) /\ \A k \in 1..Len(got) : got[k] \in Slots
  BY <1>1
<1>4. Len(plt) \in Nat /\ DOMAIN plt = 1..Len(plt) /\ \A k \in 1..Len(plt) : plt[k] \in Nat
  BY <1>1
<1>5. \A r \in References : r.sym \in DOMAIN symbols /\ r.type \in RefTypes /\ r.via \in Nat
  BY DEF References
<1>6. \A g \in Slots : g.sym \in DOMAIN symbols
  BY DEF Slots
<1> QED
  BY <1>2, <1>3, <1>4, <1>5, <1>6 DEF TypeInv

LEMMA InitHolds == GotInit => GotInv
<1> SUFFICES ASSUME GotInit PROVE GotInv
  OBVIOUS
<1>1. TypeInv
  BY TablesAssumption DEF TypeInv, Stages, GotInit
<1>2. TableInv /\ DynInv /\ BoundInv
  BY TablesAssumption DEF TableInv, BoundInv, DynInv, GotInit
<1>3. RefsInv /\ FreshInv
  BY DEF RefsInv, FreshInv, GotInit
<1>4. BuildInv
  BY DEF BuildInv, EntriesInv, CalledInv, ViaInv, JumpInv, SlotInv, GotInit
<1>5. EndInv
  BY DEF EndInv, GotInit
<1> QED
  BY <1>1, <1>2, <1>3, <1>4, <1>5 DEF GotInv, TableRefsInv

LEMMA ReferHolds ==
    ASSUME Deviations = {}, GotInv, Refer
    PROVE  GotInv'
<1>1. PICK s \in DOMAIN symbols, type \in RefTypes :
          Admitted(s, type) /\ refs' = Append(refs, [type |-> type, sym |-> s, via |-> 0])
  BY DEF Refer
<1>2. /\ stage = "refer"
      /\ UNCHANGED <<output, symbols, got, plt, attr, dyn, pass, at, stage, words, slots>>
  BY DEF Refer
<1>3. /\ refs \in Seq(References) /\ References' = References /\ Slots' = Slots
      /\ Len(refs) \in Nat /\ DOMAIN refs = 1..Len(refs)
      /\ [type |-> type, sym |-> s, via |-> 0] \in References
  BY <1>2 DEF GotInv, TypeInv, References, Slots
<1>4. /\ refs' \in Seq(References')
      /\ DOMAIN refs' = 1..(Len(refs) + 1) /\ Len(refs') = Len(refs) + 1
      /\ \A i \in 1..Len(refs) : refs'[i] = refs[i]
      /\ refs'[Len(refs) + 1] = [type |-> type, sym |-> s, via |-> 0]
  BY <1>1, <1>3
<1>5. TypeInv'
  BY <1>2, <1>3, <1>4 DEF GotInv, TypeInv
<1>6. RefsInv'
  <2> SUFFICES ASSUME NEW i \in 1..(Len(refs) + 1)
               PROVE  RefsInv!(i)'
    BY <1>4 DEF RefsInv
  <2>1. CASE i \in 1..Len(refs)
    <3>1. RefsInv!(i)
      BY <2>1, <1>3 DEF RefsInv, GotInv, TableRefsInv
    <3>2. \A j \in 1..(i - 1) : refs'[j] = refs[j]
      BY <2>1, <1>3, <1>4
    <3> QED
      BY <2>1, <3>1, <3>2, <1>2, <1>4 DEF Missing, IsData, Calls
  <2>2. CASE i = Len(refs) + 1
    <3>1. \A j \in 1..(i - 1) : refs'[j] = refs[j]
      BY <2>2, <1>3, <1>4
    <3>2. i - 1 = Len(refs)
      BY <2>2, <1>3
    <3> QED
      BY <2>2, <3>1, <3>2, <1>1, <1>2, <1>3, <1>4 DEF Admitted, Missing, IsData, Calls
  <2> QED
    BY <2>1, <2>2, <1>3
<1>7. FreshInv'
  BY <1>2, <1>3, <1>4 DEF FreshInv, GotInv, TableRefsInv
<1>8. TableInv' /\ BoundInv' /\ DynInv'
  BY <1>2 DEF TableInv, BoundInv, DynInv, Agrees, GotInv, TableRefsInv
<1>9. BuildInv'
  <2>1. at = 0 /\ pass = 0 /\ \A i \in DOMAIN refs' : refs'[i].via = 0
    BY <1>2, <1>3, <1>4 DEF FreshInv, GotInv, TableRefsInv
  <2>2. EntriesInv' /\ CalledInv'
    BY <1>2, <2>1 DEF GotInv, TableRefsInv, FreshInv, BuildInv, EntriesInv, CalledInv
  <2>3. ViaInv' /\ JumpInv' /\ SlotInv'
    BY <1>2, <1>3, <1>4, <2>1 DEF ViaInv, JumpInv, SlotInv, Built
  <2> QED
    BY <2>2, <2>3 DEF BuildInv
<1>10. EndInv'
  BY <1>2 DEF EndInv
<1> QED
  BY <1>5, <1>6, <1>7, <1>8, <1>9, <1>10 DEF GotInv, TableRefsInv

LEMMA BindHolds ==
    ASSUME GotInv, bind_exe_dynsyms
    PROVE  GotInv'
<1> DEFINE Bound(s, t) == output = "exe" /\ symbols[s].place = "undef" /\ symbols[s].lib = t
<1>1. /\ stage = "refer"
      /\ \A s \in DOMAIN symbols : symbols[s].place = "undef" => \E i \in DOMAIN refs : refs[i].sym = s
      /\ symbols' = [s \in DOMAIN symbols |->
              IF Bound(s, "object")
              THEN [symbols[s] EXCEPT !.place = "here", !.bind = "global", !.type = "object"]
              ELSE symbols[s]]
      /\ dyn' = [s \in DOMAIN symbols |-> IF Bound(s, "func") THEN "func" ELSE "none"]
      /\ stage' = IF \E s \in DOMAIN symbols : Bound(s, "none") /\ symbols[s].bind # "weak"
                  THEN "failed" ELSE "build"
      /\ UNCHANGED <<output, refs, got, plt, attr, pass, at, words, slots>>
  BY DEF bind_exe_dynsyms
<1>2. TypeInv /\ TableInv /\ RefsInv /\ FreshInv /\ DynInv
  BY DEF GotInv, TableRefsInv
<1>3. \A s \in DOMAIN symbols : symbols[s] \in Symbols
  BY <1>2 DEF TypeInv
<1>4. DOMAIN symbols' = DOMAIN symbols /\ \A s \in DOMAIN symbols :
         /\ symbols'[s] \in Symbols
         /\ \/ symbols'[s] = symbols[s] /\ ~Bound(s, "object")
            \/ /\ Bound(s, "object")
               /\ symbols'[s].place = "here" /\ symbols'[s].type = "object"
               /\ symbols'[s].bind = "global" /\ symbols'[s].lib = "object"
         /\ dyn'[s] = IF Bound(s, "func") THEN "func" ELSE "none"
  <2> DEFINE Copied(y) == [y EXCEPT !.place = "here", !.bind = "global", !.type = "object"]
  <2>1. \A y \in Symbols :
           /\ Copied(y) \in Symbols /\ Copied(y).place = "here" /\ Copied(y).bind = "global"
           /\ Copied(y).type = "object" /\ Copied(y).lib = y.lib
    BY DEF Symbols
  <2>2. symbols' = [s \in DOMAIN symbols |-> IF Bound(s, "object") THEN Copied(symbols[s]) ELSE symbols[s]]
    BY <1>1
  <2>3. \A s \in DOMAIN symbols : dyn'[s] = IF Bound(s, "func") THEN "func" ELSE "none"
    BY <1>1
  <2> HIDE DEF Copied, Bound
  <2>4. DOMAIN symbols' = DOMAIN symbols
        /\ \A s \in DOMAIN symbols : symbols'[s] = IF Bound(s, "object") THEN Copied(symbols[s]) ELSE symbols[s]
    BY <2>2
  <2>5. \A s \in DOMAIN symbols : Bound(s, "object") => symbols[s].lib = "object"
    BY DEF Bound
  <2> QED
    BY <2>1, <2>3, <2>4, <2>5, <1>3
<1> HIDE DEF Bound
<1>5. /\ DOMAIN refs = 1..Len(refs) /\ Len(refs) \in Nat
      /\ \A i \in DOMAIN refs : refs[i].sym \in DOMAIN symbols
  BY <1>2, Reads
<1>6. TypeInv'
  <2>1. symbols' \in [DOMAIN symbols' -> Symbols]
    BY <1>1, <1>4
  <2>2. dyn' \in [DOMAIN symbols' -> {"func", "object", "notype", "none"}]
    BY <1>1, <1>4
  <2>3. References' = References /\ Slots' = Slots
    BY <1>4 DEF References, Slots
  <2>4. stage' \in {"build", "failed"}
    BY <1>1
  <2> QED
    BY <1>1, <1>2, <1>4, <2>1, <2>2, <2>3, <2>4 DEF TypeInv, Stages
<1>7. TableInv'
  <2> SUFFICES ASSUME NEW s \in DOMAIN symbols
               PROVE  TableInv!(s)'
    BY <1>4 DEF TableInv
  <2>1. TableInv!(s)
    BY <1>2 DEF TableInv
  <2>2. CASE symbols'[s] = symbols[s]
    BY <2>1, <2>2, <1>1 DEF Agrees
  <2>3. CASE Bound(s, "object")
    BY <2>3, <1>1, <1>4 DEF Agrees, Bound
  <2> QED
    BY <2>2, <2>3, <1>4
<1>8. RefsInv'
  <2> SUFFICES ASSUME NEW i \in DOMAIN refs
               PROVE  RefsInv!(i)'
    BY <1>1 DEF RefsInv
  <2>1. RefsInv!(i)
    BY <1>2 DEF RefsInv
  <2>2. refs'[i] = refs[i] /\ refs[i].sym \in DOMAIN symbols /\ output' = output
    BY <1>1, <1>5
  <2>3. \A j : Calls(j, refs[i].sym)' = Calls(j, refs[i].sym)
    BY <1>1 DEF Calls
  <2>4. CASE symbols'[refs[i].sym] = symbols[refs[i].sym]
    BY <2>1, <2>2, <2>4, <1>1 DEF Missing, IsData, Calls
  <2>5. CASE Bound(refs[i].sym, "object")
    BY <2>1, <2>2, <2>5, <1>1, <1>4 DEF Missing, Bound
  <2> QED
    BY <2>2, <2>4, <2>5, <1>4
<1>9. FreshInv' /\ DynInv'
  BY <1>1, <1>4 DEF FreshInv, DynInv, Bound
<1>10. BoundInv'
  <2> SUFFICES ASSUME NEW s \in DOMAIN symbols, symbols'[s].place = "undef"
               PROVE  BoundInv!2!(s)!2'
    BY <1>4 DEF BoundInv
  <2>1. symbols'[s] = symbols[s] /\ ~Bound(s, "object") /\ symbols[s].place = "undef"
    BY <1>4
  <2> QED
    BY <2>1, <1>1, <1>4 DEF Bound
<1>11. BuildInv'
  <2>1. /\ at = 0 /\ pass = 0 /\ got = <<>> /\ \A s \in DOMAIN symbols : attr[s].plt = 0 /\ attr[s].got = 0
        /\ \A i \in DOMAIN refs : refs[i].via = 0
    BY <1>1, <1>2 DEF FreshInv
  <2>2. CalledInv'
    BY <1>1, <1>4 DEF CalledInv, Missing, Bound
  <2>3. EntriesInv'
    <3>1. \A k : k \notin DOMAIN got
      BY <1>2, <2>1, Reads
    <3> QED
      BY <1>1, <1>4, <2>1, <3>1 DEF EntriesInv
  <2>4. ViaInv'
    BY <1>1, <2>1 DEF ViaInv
  <2>5. JumpInv' /\ SlotInv'
    <3>1. pass' = 0 /\ at' = 0 /\ DOMAIN refs' = 1..Len(refs) /\ stage' \in {"build", "failed"}
      BY <1>1, <1>5, <2>1
    <3> QED
      BY <1>5, <3>1 DEF JumpInv, SlotInv, Built
  <2> QED
    BY <2>2, <2>3, <2>4, <2>5 DEF BuildInv
<1>12. EndInv'
  <2>1. ASSUME stage' = "failed"
        PROVE  \E s \in DOMAIN symbols' : Missing(s)' /\ symbols'[s].bind # "weak"
    <3>1. PICK s \in DOMAIN symbols : Bound(s, "none") /\ symbols[s].bind # "weak"
      BY <1>1, <2>1
    <3>2. symbols'[s] = symbols[s]
      BY <3>1, <1>4 DEF Bound
    <3> QED
      BY <3>1, <3>2, <1>4 DEF Missing, Bound
  <2>2. stage' \in {"failed", "build"}
    BY <1>1
  <2> QED
    BY <2>1, <2>2 DEF EndInv
<1> QED
  BY <1>6, <1>7, <1>8, <1>9, <1>10, <1>11, <1>12 DEF GotInv, TableRefsInv

-----------------------------------------------------------------------------
(* The entries *)

\* Who has an entry that the loader fills has a dynamic symbol.
LEMMA EntryIsDynamic ==
    ASSUME TypeInv, EntriesInv, NEW s \in DOMAIN symbols,
           attr[s].got # 0 \/ attr[s].plt # 0,
           output \in Dynamic, symbols[s].bind # "local"
    PROVE  dyn[s] # "none"
<1>1. PICK k \in DOMAIN got : got[k].sym = s
  BY DEF EntriesInv
<1> QED
  BY <1>1 DEF EntriesInv, FilledBy

\* The references of a program that reach Visit in pass 0 are redirected only if they are calls,
\* or need what a call needs.
LEMMA NeededFacts ==
    ASSUME TypeInv, TableInv, RefsInv, DynInv, CalledInv, JumpInv, EntriesInv,
           NEW i \in DOMAIN refs, i = at + 1, refs[i].via = 0
    PROVE  LET r == refs[i]
               s == r.sym
               y == symbols[s]
           IN  /\ Needed(r) = "jump" => r.type # "GOT_HI20" /\ y.place # "here" /\ y.type # "object"
               /\ Needed(r) = "jump" /\ output \in Dynamic => y.bind # "local"
               /\ Needed(r) = "jump" /\ output \notin Dynamic => r.type = "CALL_PLT"
               /\ Needed(r) = "jump" /\ pass = 0 /\ Missing(s) /\ y.bind = "weak" /\ output \in Dynamic =>
                     r.type = "CALL_PLT"
               /\ Needed(r) = "jump" /\ r.type # "CALL_PLT" => dyn[s] = "func"
<1> DEFINE r == refs[i]
           s == r.sym
           y == symbols[s]
<1>1. /\ s \in DOMAIN symbols /\ y \in Symbols /\ r.type \in RefTypes /\ i \in 1..Len(refs)
      /\ at \in Nat /\ Len(refs) \in Nat
  BY Reads
<1>2. RefsInv!(i)
  BY DEF RefsInv
<1>3. Agrees(y)
  BY <1>1 DEF TableInv
<1>4. dyn[s] # "none" => dyn[s] = y.type \/ (dyn[s] = "func" /\ y.lib = "func" /\ y.place = "undef")
  BY <1>1 DEF DynInv
<1>5. y.place \in {"here", "undef", "abs"} /\ y.type \in {"func", "object", "notype"}
  BY <1>1 DEF Symbols
<1> HIDE DEF r, s, y
<1>6. CASE Needed(r) = "jump"
  <2>1. r.type # "GOT_HI20" /\ y.place # "here"
    BY <1>6 DEF Needed, r, s, y
  <2>2. r.type = "CALL_PLT" \/ (y.place = "undef" /\ output \in Dynamic /\ dyn[s] = "func")
    BY <1>6, <1>4 DEF Needed, r, s, y
  <2>3. y.type # "object"
    BY <2>2, <1>2, <1>3, <1>4 DEF Agrees, r, s, y
  <2>4. output \in Dynamic => y.bind # "local"
    BY <2>1, <1>2, <1>3, <1>5 DEF Agrees, r, s, y
  <2>5. ASSUME pass = 0, Missing(s), y.bind = "weak", output \in Dynamic, r.type # "CALL_PLT"
        PROVE  FALSE
    <3>1. y.place = "undef" /\ y.lib = "none" /\ dyn[s] = "func"
      BY <2>2, <2>5 DEF Missing, y
    <3>2. y.type = "func"
      BY <3>1, <1>4
    <3>3. PICK j \in 1..at : Calls(j, s)
      BY <3>1, <2>5, <1>1 DEF CalledInv
    <3>4. at = i - 1
      BY <1>1
    <3>5. IsData(r)
      BY <2>1, <2>5, <1>1 DEF IsData, RefTypes
    <3> QED
      BY <3>2, <3>3, <3>4, <3>5, <2>5, <1>2 DEF r, s, y
  <2>6. output \notin Dynamic => r.type = "CALL_PLT"
    BY <2>2
  <2> QED
    BY <2>1, <2>2, <2>3, <2>4, <2>5, <2>6 DEF r, s, y
<1> QED
  BY <1>6 DEF r, s, y

\* put_got_entry gives the symbol the entry, and takes none away.
LEMMA PutEntry ==
    ASSUME TypeInv, EntriesInv, DynInv, NEW s \in DOMAIN symbols, NEW need \in {"jump", "slot"},
           need = "jump" /\ output \in Dynamic => symbols[s].bind # "local",
           put_got_entry(need, s), UNCHANGED <<output, symbols>>
    PROVE  /\ got' \in Seq(Slots) /\ plt' \in Seq(Nat)
           /\ attr' \in [DOMAIN symbols -> [plt : Nat, got : Nat]]
           /\ dyn' \in [DOMAIN symbols -> {"func", "object", "notype", "none"}]
           /\ EntriesInv' /\ DynInv'
           /\ IF need = "jump" THEN attr'[s].plt # 0 ELSE attr'[s].got # 0
           /\ \A t \in DOMAIN symbols :
                 /\ attr[t].plt # 0 => attr'[t].plt = attr[t].plt
                 /\ attr[t].got # 0 => attr'[t].got = attr[t].got
                 /\ dyn'[t] = dyn[t] \/ (t = s /\ dyn[t] = "none" /\ dyn'[t] = symbols[t].type)
<1>1. CASE HasEntry(need, s)
  <2>1. UNCHANGED <<got, plt, attr, dyn>>
    BY <1>1 DEF put_got_entry
  <2>2. EntriesInv' /\ DynInv'
    BY <2>1 DEF EntriesInv, DynInv, FilledBy
  <2> QED
    BY <1>1, <2>1, <2>2 DEF TypeInv, HasEntry
<1>2. CASE ~HasEntry(need, s)
  <2> DEFINE new == [sym |-> s, by |-> FilledBy(s)]
  <2>1. /\ got' = Append(got, new)
        /\ dyn' = IF FilledBy(s) = "dynamic" /\ dyn[s] = "none"
                  THEN [dyn EXCEPT ![s] = symbols[s].type] ELSE dyn
    BY <1>2 DEF put_got_entry
  <2>2. new \in Slots
    BY DEF Slots, FilledBy
  <2>3. /\ Len(got) \in Nat /\ DOMAIN got = 1..Len(got) /\ Len(plt) \in Nat /\ DOMAIN plt = 1..Len(plt)
        /\ got \in Seq(Slots) /\ plt \in Seq(Nat)
        /\ attr \in [DOMAIN symbols -> [plt : Nat, got : Nat]]
        /\ dyn \in [DOMAIN symbols -> {"func", "object", "notype", "none"}]
    BY Reads DEF TypeInv
  <2> HIDE DEF new
  <2>4. /\ got' \in Seq(Slots) /\ DOMAIN got' = 1..(Len(got) + 1)
        /\ \A k \in DOMAIN got : got'[k] = got[k]
        /\ got'[Len(got) + 1] = new
    BY <2>1, <2>2, <2>3
  <2>5. symbols[s].type \in {"func", "object", "notype"}
    BY Reads DEF Symbols
  <2>6. /\ dyn' \in [DOMAIN symbols -> {"func", "object", "notype", "none"}]
        /\ \A t \in DOMAIN symbols :
              dyn'[t] = dyn[t] \/ (t = s /\ dyn[t] = "none" /\ dyn'[t] = symbols[t].type)
        /\ FilledBy(s) = "dynamic" => dyn'[s] # "none"
    BY <2>1, <2>3, <2>5
  <2>7. DynInv'
    BY <2>6 DEF DynInv
  <2>8. CASE need = "jump"
    <3>1. plt' = Append(plt, Len(got) + 1) /\ attr' = [attr EXCEPT ![s].plt = Len(plt) + 1]
      BY <1>2, <2>8 DEF put_got_entry
    <3>2. /\ plt' \in Seq(Nat) /\ DOMAIN plt' = 1..(Len(plt) + 1)
          /\ \A k \in DOMAIN plt : plt'[k] = plt[k]
          /\ plt'[Len(plt) + 1] = Len(got) + 1
      BY <3>1, <2>3
    <3>3. /\ attr' \in [DOMAIN symbols -> [plt : Nat, got : Nat]]
          /\ attr'[s].plt = Len(plt) + 1 /\ attr'[s].got = attr[s].got
          /\ \A t \in DOMAIN symbols : t # s => attr'[t] = attr[t]
      <4> DEFINE entry == [attr[s] EXCEPT !.plt = Len(plt) + 1]
      <4>1. attr[s] \in [plt : Nat, got : Nat] /\ Len(plt) + 1 \in Nat
        BY <2>3
      <4>2. entry \in [plt : Nat, got : Nat] /\ entry.plt = Len(plt) + 1 /\ entry.got = attr[s].got
        BY <4>1
      <4>3. attr' = [attr EXCEPT ![s] = entry]
        BY <3>1
      <4> HIDE DEF entry
      <4> QED
        BY <4>2, <4>3, <2>3
    <3>4. attr[s].plt = 0
      BY <1>2, <2>8 DEF HasEntry
    <3>5. FilledBy(s) # "relative"
      BY <2>8 DEF FilledBy
    <3>6. ASSUME NEW k \in DOMAIN got'
          PROVE  EntriesInv!1!(k)'
      <4>1. CASE k \in DOMAIN got
        <5>1. got'[k] = got[k] /\ got[k].sym \in DOMAIN symbols
          BY <4>1, <2>4, Reads
        <5> QED
          BY <4>1, <5>1, <2>6, <3>3 DEF EntriesInv, FilledBy
      <4>2. CASE k = Len(got) + 1
        BY <4>2, <2>4, <2>6, <3>5 DEF new, FilledBy
      <4> QED
        BY <4>1, <4>2, <2>3, <2>4
    <3>7. ASSUME NEW t \in DOMAIN symbols
          PROVE  EntriesInv!2!(t)'
      <4>1. CASE t = s
        <5>1. attr'[s].plt \in DOMAIN plt' /\ plt'[attr'[s].plt] = Len(got) + 1
          BY <3>2, <3>3, <2>3
        <5>2. Len(got) + 1 \in DOMAIN got' /\ got'[Len(got) + 1].sym = s
          BY <2>3, <2>4 DEF new
        <5>3. attr'[s].got # 0 => attr'[s].got \in DOMAIN got' /\ got'[attr'[s].got].sym = s
          BY <3>3, <2>3, <2>4 DEF EntriesInv
        <5> QED
          BY <4>1, <5>1, <5>2, <5>3
      <4>2. CASE t # s
        BY <4>2, <3>2, <3>3, <2>3, <2>4 DEF EntriesInv
      <4> QED
        BY <4>1, <4>2
    <3>8. EntriesInv'
      BY <3>6, <3>7 DEF EntriesInv
    <3> QED
      BY <2>3, <2>4, <2>6, <2>7, <2>8, <3>2, <3>3, <3>4, <3>8
  <2>9. CASE need = "slot"
    <3>1. UNCHANGED plt /\ attr' = [attr EXCEPT ![s].got = Len(got) + 1]
      BY <1>2, <2>9 DEF put_got_entry
    <3>2. /\ attr' \in [DOMAIN symbols -> [plt : Nat, got : Nat]]
          /\ attr'[s].got = Len(got) + 1 /\ attr'[s].plt = attr[s].plt
          /\ \A t \in DOMAIN symbols : t # s => attr'[t] = attr[t]
      <4> DEFINE entry == [attr[s] EXCEPT !.got = Len(got) + 1]
      <4>1. attr[s] \in [plt : Nat, got : Nat] /\ Len(got) + 1 \in Nat
        BY <2>3
      <4>2. entry \in [plt : Nat, got : Nat] /\ entry.got = Len(got) + 1 /\ entry.plt = attr[s].plt
        BY <4>1
      <4>3. attr' = [attr EXCEPT ![s] = entry]
        BY <3>1
      <4> HIDE DEF entry
      <4> QED
        BY <4>2, <4>3, <2>3
    <3>3. attr[s].got = 0
      BY <1>2, <2>9 DEF HasEntry
    <3>4. ASSUME NEW k \in DOMAIN got'
          PROVE  EntriesInv!1!(k)'
      <4>1. CASE k \in DOMAIN got
        <5>1. got'[k] = got[k] /\ got[k].sym \in DOMAIN symbols
          BY <4>1, <2>4, Reads
        <5>2. EntriesInv!1!(k)
          BY <4>1 DEF EntriesInv
        <5>3. k # 0
          BY <4>1, <2>3
        <5>4. got[k].by = "relative" => got[k].sym # s
          BY <5>2, <5>3, <3>3
        <5> QED
          BY <5>1, <5>2, <5>4, <2>6, <3>2 DEF FilledBy
      <4>2. CASE k = Len(got) + 1
        BY <4>2, <2>4, <2>6, <3>2 DEF new, FilledBy
      <4> QED
        BY <4>1, <4>2, <2>3, <2>4
    <3>5. ASSUME NEW t \in DOMAIN symbols
          PROVE  EntriesInv!2!(t)'
      <4>1. CASE t = s
        <5>1. attr'[s].got \in DOMAIN got' /\ got'[attr'[s].got].sym = s
          BY <2>3, <2>4, <3>2 DEF new
        <5> QED
          BY <4>1, <5>1, <2>3, <2>4, <3>1, <3>2 DEF EntriesInv
      <4>2. CASE t # s
        BY <4>2, <3>1, <3>2, <2>3, <2>4 DEF EntriesInv
      <4> QED
        BY <4>1, <4>2
    <3>6. EntriesInv'
      BY <3>4, <3>5 DEF EntriesInv
    <3> QED
      BY <2>3, <2>4, <2>6, <2>7, <2>9, <3>1, <3>2, <3>3, <3>6
  <2> QED
    BY <2>8, <2>9
<1> QED
  BY <1>1, <1>2

\* A visit: only the entries of the symbol, and where the reference leads, change.
LEMMA VisitHolds ==
    ASSUME GotInv, Visit
    PROVE  GotInv'
<1> DEFINE r == refs[at + 1]
           s == r.sym
           need == Needed(r)
           serves == need = IF pass = 0 THEN "jump" ELSE "slot"
<1>1. /\ stage = "build" /\ at < Len(refs) /\ at' = at + 1
      /\ UNCHANGED <<output, symbols, pass, stage, words, slots>>
      /\ IF serves
         THEN /\ put_got_entry(need, s)
              /\ refs' = IF need = "jump" THEN [refs EXCEPT ![at + 1].via = attr'[s].plt] ELSE refs
         ELSE UNCHANGED <<got, plt, attr, dyn, refs>>
  BY DEF Visit
<1>2. TypeInv /\ TableInv /\ RefsInv /\ BoundInv /\ DynInv /\ EntriesInv /\ CalledInv /\ ViaInv /\ JumpInv /\ SlotInv
  BY DEF GotInv, TableRefsInv, BuildInv
<1>3. /\ Len(refs) \in Nat /\ DOMAIN refs = 1..Len(refs) /\ at \in Nat /\ pass \in {0, 1}
      /\ at + 1 \in DOMAIN refs /\ refs \in Seq(References)
      /\ s \in DOMAIN symbols /\ r \in References /\ need \in {"none", "jump", "slot"}
      /\ \A i \in DOMAIN refs : refs[i].sym \in DOMAIN symbols
  <2>1. TypeInv
    BY <1>2
  <2>2. refs \in Seq(References) /\ need \in {"none", "jump", "slot"}
    BY <2>1 DEF TypeInv, Needed
  <2>3. /\ Len(refs) \in Nat /\ DOMAIN refs = 1..Len(refs) /\ at \in Nat /\ pass \in {0, 1}
        /\ \A i \in DOMAIN refs : refs[i].sym \in DOMAIN symbols
    BY <2>1, Reads
  <2>4. at + 1 \in DOMAIN refs
    BY <2>3, <1>1
  <2>5. r \in References
    BY <2>2, <2>3, <2>4
  <2> QED
    BY <2>2, <2>3, <2>4, <2>5
<1>4. refs[at + 1].via # 0 => need # "jump"
  BY <1>2, <1>3 DEF Needed, ViaInv
<1>5. refs[at + 1].via = 0 /\ need = "jump" =>
         /\ r.type # "GOT_HI20" /\ symbols[s].place # "here" /\ symbols[s].type # "object"
         /\ output \in Dynamic => symbols[s].bind # "local"
         /\ output \notin Dynamic => r.type = "CALL_PLT"
         /\ pass = 0 /\ Missing(s) /\ symbols[s].bind = "weak" /\ output \in Dynamic => r.type = "CALL_PLT"
         /\ r.type # "CALL_PLT" => dyn[s] = "func"
  BY <1>2, <1>3, NeededFacts
<1>6. /\ got' \in Seq(Slots) /\ plt' \in Seq(Nat)
      /\ attr' \in [DOMAIN symbols -> [plt : Nat, got : Nat]]
      /\ dyn' \in [DOMAIN symbols -> {"func", "object", "notype", "none"}]
      /\ EntriesInv' /\ DynInv'
      /\ serves /\ need = "jump" => attr'[s].plt # 0
      /\ serves /\ need = "slot" => attr'[s].got # 0
      /\ \A t \in DOMAIN symbols :
            /\ attr[t].plt # 0 => attr'[t].plt = attr[t].plt
            /\ attr[t].got # 0 => attr'[t].got = attr[t].got
            /\ dyn'[t] = dyn[t] \/ (t = s /\ dyn[t] = "none" /\ dyn'[t] = symbols[t].type /\ serves)
  <2> HIDE DEF r, s, need
  <2>1. CASE serves
    <3>1. need = "jump" /\ output \in Dynamic => symbols[s].bind # "local"
      BY <1>4, <1>5 DEF r
    <3>2. put_got_entry(need, s) /\ need \in {"jump", "slot"}
      BY <1>1, <2>1
    <3> QED
      BY <2>1, <3>1, <3>2, <1>1, <1>2, <1>3, PutEntry
  <2>2. CASE ~serves
    <3>1. UNCHANGED <<got, plt, attr, dyn>>
      BY <1>1, <2>2
    <3>2. EntriesInv' /\ DynInv'
      BY <3>1, <1>1, <1>2 DEF EntriesInv, DynInv, FilledBy
    <3> QED
      BY <3>1, <3>2, <2>2, <1>2 DEF TypeInv
  <2> QED
    BY <2>1, <2>2
<1>7. /\ refs' \in Seq(References) /\ DOMAIN refs' = DOMAIN refs /\ Len(refs') = Len(refs)
      /\ \A i \in DOMAIN refs :
            /\ refs'[i].sym = refs[i].sym /\ refs'[i].type = refs[i].type
            /\ \/ refs'[i] = refs[i] /\ ~(i = at + 1 /\ serves /\ need = "jump")
               \/ i = at + 1 /\ serves /\ need = "jump" /\ refs'[i].via = attr'[s].plt
  <2>1. CASE serves /\ need = "jump"
    <3> DEFINE redirected == [r EXCEPT !.via = attr'[s].plt]
    <3>1. attr'[s].plt \in Nat
      BY <1>3, <1>6
    <3>2. redirected \in References /\ redirected.via = attr'[s].plt /\ redirected.sym = s /\ redirected.type = r.type
      BY <1>3, <3>1 DEF References
    <3>3. refs' = [refs EXCEPT ![at + 1] = redirected]
      BY <1>1, <2>1
    <3> HIDE DEF redirected, r, s, need
    <3>4. refs' \in Seq(References) /\ DOMAIN refs' = DOMAIN refs /\ Len(refs') = Len(refs)
          /\ refs'[at + 1] = redirected /\ \A i \in DOMAIN refs : i # at + 1 => refs'[i] = refs[i]
      BY <1>3, <3>2, <3>3
    <3> QED
      BY <3>2, <3>4, <2>1 DEF r, s
  <2>2. CASE ~(serves /\ need = "jump")
    BY <1>1, <1>3, <2>2
  <2> QED
    BY <2>1, <2>2
<1> HIDE DEF r, s, need
<1>8. TypeInv'
  <2>1. References' = References /\ Slots' = Slots
    BY <1>1 DEF References, Slots
  <2>2. at' \in Nat /\ at' <= Len(refs')
    BY <1>1, <1>3, <1>7
  <2>3. symbols' \in [DOMAIN symbols' -> Symbols] /\ output' \in Outputs /\ pass' \in {0, 1} /\ stage' = "build"
    BY <1>1, <1>2 DEF TypeInv
  <2>4. /\ refs' \in Seq(References') /\ got' \in Seq(Slots') /\ plt' \in Seq(Nat)
        /\ attr' \in [DOMAIN symbols' -> [plt : Nat, got : Nat]]
        /\ dyn' \in [DOMAIN symbols' -> {"func", "object", "notype", "none"}]
    BY <2>1, <1>1, <1>6, <1>7
  <2> QED
    BY <2>2, <2>3, <2>4 DEF TypeInv, Stages
<1>9. TableInv' /\ FreshInv'
  BY <1>1, <1>2 DEF TableInv, FreshInv, Agrees
<1>10. RefsInv'
  <2> SUFFICES ASSUME NEW i \in DOMAIN refs
               PROVE  RefsInv!(i)'
    BY <1>7 DEF RefsInv
  <2>1. RefsInv!(i)
    BY <1>2 DEF RefsInv
  <2>2. \A j \in 1..(i - 1) : \A t : Calls(j, t)' = Calls(j, t)
    BY <1>3, <1>7 DEF Calls
  <2> QED
    BY <2>1, <2>2, <1>1, <1>7 DEF Missing, IsData
<1>11. BoundInv'
  <2> SUFFICES ASSUME NEW t \in DOMAIN symbols, symbols[t].place = "undef"
               PROVE  BoundInv!2!(t)!2'
    BY <1>1 DEF BoundInv
  <2>1. BoundInv!2!(t)!2
    BY <1>1, <1>2 DEF BoundInv
  <2>2. \E i \in DOMAIN refs' : refs'[i].sym = t
    BY <2>1, <1>7
  <2>3. dyn[t] = "func" => dyn'[t] = "func"
    BY <1>6
  <2> QED
    BY <2>1, <2>2, <2>3, <1>1
<1>12. CalledInv'
  <2> SUFFICES ASSUME pass = 0, output \in Dynamic, NEW t \in DOMAIN symbols, Missing(t), dyn'[t] = "func"
               PROVE  \E j \in 1..(at + 1) : Calls(j, t)'
    BY <1>1 DEF CalledInv, Missing
  <2>1. CASE dyn[t] = "func"
    <3>1. PICK j \in 1..at : Calls(j, t)
      BY <2>1, <1>2 DEF CalledInv
    <3> QED
      BY <3>1, <1>3, <1>7 DEF Calls
  <2>2. CASE dyn[t] # "func"
    <3>1. t = s /\ serves /\ need = "jump"
      BY <2>2, <1>3, <1>6
    <3>2. r.type = "CALL_PLT"
      BY <3>1, <2>2, <1>4, <1>5
    <3> QED
      BY <3>1, <3>2, <1>3, <1>7 DEF Calls, r, s
  <2> QED
    BY <2>1, <2>2
<1>13. ViaInv'
  <2> SUFFICES ASSUME NEW i \in DOMAIN refs, refs'[i].via # 0
               PROVE  ViaInv!(i)!2'
    BY <1>7 DEF ViaInv
  <2>1. CASE refs'[i] = refs[i]
    <3>1. ViaInv!(i)!2
      BY <2>1, <1>2 DEF ViaInv
    <3>2. attr'[refs[i].sym].plt = attr[refs[i].sym].plt
      BY <3>1, <2>1, <1>3, <1>6
    <3> QED
      BY <2>1, <3>1, <3>2, <1>1 DEF Missing
  <2>2. CASE i = at + 1 /\ serves /\ need = "jump" /\ refs'[i].via = attr'[s].plt
    <3>1. pass = 0
      BY <2>2, <1>3
    <3> QED
      BY <2>2, <3>1, <1>1, <1>4, <1>5, <1>7 DEF Missing, r, s
  <2> QED
    BY <2>1, <2>2, <1>7
<1>14. \A i \in DOMAIN refs : refs[i].via # 0 => refs'[i].via # 0
  BY <1>6, <1>7, <1>4 DEF r
<1>15. JumpInv'
  <2> SUFFICES ASSUME NEW i \in DOMAIN refs, pass = 1 \/ i <= at + 1
               PROVE  JumpInv!(i)!2'
    BY <1>1, <1>7 DEF JumpInv
  <2>1. CASE pass = 1 \/ i <= at
    <3>1. JumpInv!(i)!2
      BY <2>1, <1>2 DEF JumpInv
    <3> QED
      BY <3>1, <1>1, <1>7, <1>14
  <2>2. CASE pass = 0 /\ i = at + 1
    <3> DEFINE y == symbols[s]
    <3>1. y \in Symbols /\ RefsInv!(i) /\ Agrees(y)
      BY <2>2, <1>2, <1>3, Reads DEF RefsInv, TableInv
    <3>2. need = "jump" => refs'[i].via # 0
      BY <2>2, <1>6, <1>7
    <3>3. ASSUME r.type = "CALL_PLT", y.place # "here"
          PROVE  refs'[i].via # 0
      <4>1. r.via = 0 => need = "jump"
        BY <3>3 DEF need, Needed, s, r
      <4> QED
        BY <4>1, <3>2, <1>14, <2>2 DEF r
    <3>4. ASSUME output = "exe", y.place = "undef", y.lib # "none", r.type # "GOT_HI20"
          PROVE  refs'[i].via # 0
      <4>1. BoundInv!2!(s)!2!2!2
        BY <3>4, <1>1, <1>2, <1>3 DEF BoundInv
      <4>2. CASE y.lib = "func"
        <5>1. dyn[s] = "func"
          BY <4>1, <4>2
        <5>2. r.via = 0 => need = "jump"
          BY <3>4, <5>1 DEF need, Needed, s, r, Dynamic
        <5> QED
          BY <5>2, <3>2, <1>14, <2>2 DEF r
      <4>3. CASE y.lib = "notype" /\ r.type # "CALL_PLT"
        <5>1. IsData(r)
          BY <3>4, <4>3, <1>3 DEF References, RefTypes, IsData
        <5>2. y.type = "func"
          BY <3>1, <3>4, <4>3, <5>1, <2>2 DEF r, s
        <5>3. PICK j \in 1..(i - 1) : Calls(j, s)
          BY <3>1, <3>4, <4>3, <5>1, <2>2 DEF r, s
        <5>4. j \in DOMAIN refs /\ j <= at
          BY <5>3, <2>2, <1>3
        <5>5. refs[j].via # 0
          BY <5>3, <5>4, <3>4, <1>2 DEF Calls, JumpInv
        <5>6. attr[s].plt # 0
          BY <5>3, <5>4, <5>5, <1>2 DEF ViaInv, Calls
        <5>7. dyn[s] # "none"
          BY <5>6, <3>1, <3>4, <1>2, <1>3, EntryIsDynamic DEF Agrees, Dynamic
        <5>8. dyn[s] = "func"
          BY <5>2, <5>7, <1>2, <1>3 DEF DynInv
        <5>9. r.via = 0 => need = "jump"
          BY <3>4, <5>8 DEF need, Needed, s, r, Dynamic
        <5> QED
          BY <5>9, <3>2, <1>14, <2>2 DEF r
      <4>4. y.lib \in {"none", "func", "object", "notype"}
        BY <3>1 DEF Symbols
      <4> QED
        BY <4>1, <4>2, <4>3, <4>4, <3>3, <3>4
    <3> QED
      BY <3>3, <3>4, <2>2, <1>1, <1>7 DEF r, s
  <2> QED
    BY <2>1, <2>2, <1>3
<1>16. SlotInv'
  <2> SUFFICES ASSUME NEW i \in DOMAIN refs, pass = 1, i <= at + 1
               PROVE  SlotInv!(i)!2'
    BY <1>1, <1>7 DEF SlotInv, Built
  <2> DEFINE t == refs[i].sym
  <2>1. t \in DOMAIN symbols
    BY <1>3
  <2>2. CASE i <= at
    <3>1. SlotInv!(i)!2
      BY <2>2, <1>1, <1>2 DEF SlotInv, Built
    <3>2. /\ attr[t].got # 0 => attr'[t].got # 0
          /\ dyn[t] # "none" => dyn'[t] # "none"
      BY <2>1, <1>6
    <3> QED
      BY <3>1, <3>2, <1>1, <1>7
  <2>3. CASE i = at + 1
    <3>1. t = s /\ r = refs[i]
      BY <2>3 DEF s, r
    <3>2. need = "slot" => attr'[s].got # 0
      BY <1>6
    <3>3. r.type = "GOT_HI20" => need = "slot"
      BY DEF need, Needed
    <3>4. ASSUME output \in Dynamic, symbols[s].place = "undef"
          PROVE  dyn'[s] # "none"
      <4>1. symbols[s].bind # "local"
        BY <3>4, <1>2, <1>3 DEF TableInv, Agrees
      <4>2. CASE attr'[s].got # 0 \/ attr'[s].plt # 0
        <5>1. \E k \in DOMAIN got' : got'[k].sym = s
          BY <4>2, <1>1, <1>3, <1>6 DEF EntriesInv
        <5> QED
          BY <5>1, <4>1, <3>4, <1>1, <1>6 DEF EntriesInv, FilledBy
      <4>3. CASE dyn[s] # "none"
        BY <4>3, <1>3, <1>6
      <4>4. CASE need # "slot" /\ dyn[s] = "none"
        <5>1. r.via # 0 \/ r.type = "CALL_PLT"
          BY <3>4, <4>4 DEF need, Needed, s
        <5>2. r.via # 0
          BY <5>1, <3>1, <3>4, <1>2 DEF JumpInv
        <5>3. attr[s].plt # 0
          BY <5>2, <3>1, <1>2 DEF ViaInv
        <5> QED
          BY <5>3, <4>2, <1>3, <1>6
      <4> QED
        BY <4>2, <4>3, <4>4, <3>2
    <3> QED
      BY <3>1, <3>2, <3>3, <3>4, <1>1, <1>7
  <2> QED
    BY <2>2, <2>3, <1>3
<1>17. EndInv'
  BY <1>1 DEF EndInv
<1> QED
  BY <1>6, <1>8, <1>9, <1>10, <1>11, <1>12, <1>13, <1>15, <1>16, <1>17 DEF GotInv, TableRefsInv, BuildInv

-----------------------------------------------------------------------------
(* The end of the link, and of the loading *)

LEMMA NextPassHolds ==
    ASSUME GotInv, NextPass
    PROVE  GotInv'
<1>1. /\ stage = "build" /\ at = Len(refs) /\ at' = 0
      /\ \/ pass = 0 /\ pass' = 1 /\ stage' = "build"
         \/ pass # 0 /\ pass' = pass /\ stage' = "export"
      /\ UNCHANGED <<output, symbols, refs, got, plt, attr, dyn, words, slots>>
  BY DEF NextPass
<1>2. TypeInv /\ TableInv /\ RefsInv /\ BoundInv /\ DynInv /\ EntriesInv /\ CalledInv /\ ViaInv /\ JumpInv /\ SlotInv
  BY DEF GotInv, TableRefsInv, BuildInv
<1>3. DOMAIN refs = 1..Len(refs) /\ Len(refs) \in Nat /\ pass \in {0, 1}
  BY <1>2, Reads
<1>4. TypeInv'
  <2>1. References' = References /\ Slots' = Slots
    BY <1>1 DEF References, Slots
  <2> QED
    BY <2>1, <1>1, <1>2, <1>3 DEF TypeInv, Stages
<1>5. TableInv' /\ FreshInv' /\ DynInv'
  BY <1>1, <1>2 DEF TableInv, FreshInv, DynInv, Agrees
<1>6. RefsInv'
  BY <1>1, <1>2 DEF RefsInv, Missing, IsData, Calls
<1>7. BoundInv'
  BY <1>1, <1>2 DEF BoundInv
<1>8. EntriesInv' /\ CalledInv'
  BY <1>1, <1>2, <1>3 DEF EntriesInv, CalledInv, FilledBy
<1>9. ViaInv'
  BY <1>1, <1>2 DEF ViaInv, Missing
<1>10. JumpInv'
  BY <1>1, <1>2, <1>3 DEF JumpInv
<1>11. SlotInv'
  BY <1>1, <1>2, <1>3 DEF SlotInv, Built
<1>12. EndInv'
  BY <1>1 DEF EndInv
<1> QED
  BY <1>4, <1>5, <1>6, <1>7, <1>8, <1>9, <1>10, <1>11, <1>12 DEF GotInv, TableRefsInv, BuildInv

LEMMA ExportHolds ==
    ASSUME GotInv, export_global_syms
    PROVE  GotInv'
<1>1. /\ stage = "export" /\ stage' = "resolve"
      /\ dyn' = [s \in DOMAIN dyn |->
                    IF output = "dll" /\ symbols[s].bind # "local" /\ dyn[s] = "none"
                    THEN symbols[s].type ELSE dyn[s]]
      /\ UNCHANGED <<output, symbols, refs, got, plt, attr, pass, at, words, slots>>
  BY DEF export_global_syms
<1>2. TypeInv /\ TableInv /\ RefsInv /\ BoundInv /\ DynInv /\ EntriesInv /\ ViaInv /\ JumpInv /\ SlotInv
  BY DEF GotInv, TableRefsInv, BuildInv
<1>3. /\ pass = 1 /\ DOMAIN refs = 1..Len(refs) /\ DOMAIN got = 1..Len(got)
      /\ \A i \in DOMAIN refs : refs[i].sym \in DOMAIN symbols
      /\ \A k \in DOMAIN got : got[k].sym \in DOMAIN symbols
  BY <1>1, <1>2, Reads DEF TypeInv
<1>4. dyn' \in [DOMAIN symbols -> {"func", "object", "notype", "none"}]
      /\ \A s \in DOMAIN symbols :
            dyn'[s] = dyn[s] \/ (output = "dll" /\ dyn[s] = "none" /\ dyn'[s] = symbols[s].type)
  <2>1. \A s \in DOMAIN symbols : symbols[s].type \in {"func", "object", "notype"}
    BY <1>2, Reads DEF Symbols
  <2>2. dyn \in [DOMAIN symbols -> {"func", "object", "notype", "none"}]
    BY <1>2 DEF TypeInv
  <2> QED
    BY <2>1, <2>2, <1>1
<1>5. TypeInv'
  <2>1. References' = References /\ Slots' = Slots
    BY <1>1 DEF References, Slots
  <2> QED
    BY <2>1, <1>1, <1>2, <1>3, <1>4 DEF TypeInv, Stages
<1>6. TableInv' /\ FreshInv' /\ DynInv'
  BY <1>1, <1>2, <1>4 DEF TableInv, FreshInv, DynInv, Agrees
<1>7. RefsInv'
  BY <1>1, <1>2 DEF RefsInv, Missing, IsData, Calls
<1>8. BoundInv'
  BY <1>1, <1>2, <1>4 DEF BoundInv
<1>9. EntriesInv'
  BY <1>1, <1>2, <1>3, <1>4 DEF EntriesInv, FilledBy
<1>10. CalledInv'
  BY <1>1, <1>3 DEF CalledInv
<1>11. ViaInv'
  BY <1>1, <1>2 DEF ViaInv, Missing
<1>12. JumpInv'
  BY <1>1, <1>2 DEF JumpInv
<1>13. SlotInv'
  <2>1. \A i \in DOMAIN refs : Built(i)
    BY <1>1 DEF Built
  <2> QED
    BY <2>1, <1>1, <1>2, <1>3, <1>4 DEF SlotInv
<1>14. EndInv'
  BY <1>1 DEF EndInv
<1> QED
  BY <1>5, <1>6, <1>7, <1>8, <1>9, <1>10, <1>11, <1>12, <1>13, <1>14 DEF GotInv, TableRefsInv, BuildInv

\* The steps after it change nothing but the addresses and the stage.
LEMMA LaterHolds ==
    ASSUME GotInv, pass = 1, stage # "refer", stage' \in {"relocate", "load", "run", "failed"},
           stage \in {"resolve", "relocate", "load"}, EndInv',
           UNCHANGED <<output, symbols, refs, got, plt, attr, dyn, pass, at>>
    PROVE  GotInv'
<1>1. TypeInv /\ TableInv /\ RefsInv /\ BoundInv /\ DynInv /\ EntriesInv /\ ViaInv /\ JumpInv /\ SlotInv
  BY DEF GotInv, TableRefsInv, BuildInv
<1>2. TypeInv'
  <2>1. References' = References /\ Slots' = Slots
    BY DEF References, Slots
  <2> QED
    BY <2>1, <1>1 DEF TypeInv, Stages
<1>3. TableInv' /\ FreshInv' /\ DynInv'
  BY <1>1 DEF TableInv, FreshInv, DynInv, Agrees
<1>4. RefsInv'
  BY <1>1 DEF RefsInv, Missing, IsData, Calls
<1>5. BoundInv'
  BY <1>1 DEF BoundInv
<1>6. EntriesInv' /\ CalledInv'
  BY <1>1 DEF EntriesInv, CalledInv, FilledBy
<1>7. ViaInv' /\ JumpInv'
  BY <1>1 DEF ViaInv, JumpInv, Missing
<1>8. SlotInv'
  BY <1>1 DEF SlotInv, Built
<1> QED
  BY <1>2, <1>3, <1>4, <1>5, <1>6, <1>7, <1>8 DEF GotInv, TableRefsInv, BuildInv

\* After build_got_entries what is undefined here is known to the loader, if there is one.
LEMMA UndefinedIsDynamic ==
    ASSUME GotInv, stage \in {"resolve", "relocate", "load", "run"},
           NEW s \in DOMAIN symbols, symbols[s].place = "undef", output \in Dynamic
    PROVE  dyn[s] # "none"
<1>1. PICK i \in DOMAIN refs : refs[i].sym = s
  BY DEF GotInv, TableRefsInv, BoundInv
<1> QED
  BY <1>1 DEF GotInv, BuildInv, SlotInv, Built

LEMMA ResolveHolds ==
    ASSUME GotInv, ResolveSymbols
    PROVE  GotInv'
<1>1. /\ stage = "resolve"
      /\ stage' = IF \E s \in DOMAIN symbols : Unresolved(s) /\ symbols[s].bind # "weak"
                  THEN "failed" ELSE "relocate"
      /\ UNCHANGED <<output, symbols, refs, got, plt, attr, dyn, pass, at, words, slots>>
  BY DEF ResolveSymbols
<1>2. ASSUME NEW s \in DOMAIN symbols, Unresolved(s)
      PROVE  Missing(s)
  <2>1. symbols[s].place = "undef" /\ output \in {"memory", "static", "exe", "pie", "dll"}
    BY <1>2, OutputsAssumption DEF Unresolved, GotInv, TypeInv
  <2>2. output \notin Dynamic
    BY <1>1, <1>2, <2>1, UndefinedIsDynamic DEF Unresolved, Dynamic
  <2>3. output = "static" => symbols[s].lib = "none"
    BY DEF GotInv, TableRefsInv, TableInv
  <2> QED
    BY <1>2, <2>1, <2>2, <2>3 DEF Missing, Unresolved, Dynamic
<1>3. EndInv'
  <2>1. \A s \in DOMAIN symbols : Unresolved(s)' = Unresolved(s) /\ Missing(s)' = Missing(s)
    BY <1>1 DEF Unresolved, Missing
  <2> QED
    BY <1>1, <1>2, <2>1 DEF EndInv
<1>4. pass = 1
  BY <1>1 DEF GotInv, TypeInv
<1> QED
  BY <1>1, <1>3, <1>4, LaterHolds

\* fill_local_got_entries finds the slot: the link does not fail here.
LEMMA RelocateHolds ==
    ASSUME GotInv, relocate_sections
    PROVE  GotInv'
<1>1. /\ stage = "relocate"
      /\ words' = [i \in DOMAIN refs |-> Related(refs[i])]
      /\ slots' = [k \in DOMAIN got |-> IF got[k].by = "dynamic" THEN ByLoader(got[k].sym)
                                        ELSE Value(got[k].sym)]
      /\ stage' = IF \E k \in DOMAIN got : got[k].by = "relative" /\ attr[got[k].sym].got # k
                  THEN "failed" ELSE "load"
      /\ UNCHANGED <<output, symbols, refs, got, plt, attr, dyn, pass, at>>
  BY DEF relocate_sections
<1>2. stage' = "load"
  BY <1>1 DEF GotInv, BuildInv, EntriesInv
<1>3. /\ \A s : Unresolved(s)' = Unresolved(s) /\ Missing(s)' = Missing(s) /\ Value(s)' = Value(s)
      /\ \A r : Related(r)' = Related(r)
  BY <1>1 DEF Unresolved, Missing, Value, Related
<1>4. EndInv'
  BY <1>1, <1>2, <1>3 DEF EndInv, GotInv
<1>5. pass = 1
  BY <1>1 DEF GotInv, TypeInv
<1> QED
  BY <1>1, <1>2, <1>4, <1>5, LaterHolds

LEMMA LoadHolds ==
    ASSUME GotInv, Load
    PROVE  GotInv'
<1>1. /\ stage = "load"
      /\ words' = [i \in DOMAIN words |-> LoadWith(words[i])]
      /\ slots' = [k \in DOMAIN slots |-> LoadWith(slots[k])]
      /\ stage' = IF \E s \in DOMAIN symbols : dyn[s] # "none" /\ Missing(s) /\ symbols[s].bind # "weak"
                  THEN "failed" ELSE "run"
      /\ UNCHANGED <<output, symbols, refs, got, plt, attr, dyn, pass, at>>
  BY DEF Load
<1>2. /\ \A s : Unresolved(s)' = Unresolved(s) /\ Missing(s)' = Missing(s) /\ Value(s)' = Value(s)
      /\ \A r : Related(r)' = Related(r)
      /\ \A a : LoadWith(a)' = LoadWith(a)
  BY <1>1 DEF Unresolved, Missing, Value, Related, LoadWith, Found
<1>3. EndInv
  BY DEF GotInv
<1>4. EndInv'
  BY <1>1, <1>2, <1>3 DEF EndInv
<1>5. pass = 1
  BY <1>1 DEF GotInv, TypeInv
<1> QED
  BY <1>1, <1>4, <1>5, LaterHolds

-----------------------------------------------------------------------------
(* What the invariant means for the running program *)

\* What a slot holds once the program runs.
LEMMA SlotsFilled ==
    ASSUME GotInv, stage = "run", NEW k \in DOMAIN got
    PROVE  Held(k) = Found(got[k].sym)
<1> DEFINE s == got[k].sym
<1>1. s \in DOMAIN symbols /\ k # 0 /\ DOMAIN got = 1..Len(got) /\ symbols[s] \in Symbols
  BY Reads DEF GotInv
<1>2. slots[k] = LoadWith(IF got[k].by = "dynamic" THEN ByLoader(s) ELSE Value(s))
  BY DEF GotInv, EndInv
<1>3. got[k].by = FilledBy(s)
  BY DEF GotInv, BuildInv, EntriesInv
<1>4. CASE got[k].by = "dynamic"
  BY <1>1, <1>2, <1>4 DEF LoadWith, ByLoader, Held
<1>5. CASE got[k].by # "dynamic"
  <2>1. Value(s) = Found(s)
    <3>1. output \in {"memory", "static", "exe", "pie", "dll"}
      BY OutputsAssumption DEF GotInv, TypeInv
    <3>2. Agrees(symbols[s]) /\ (output = "static" => symbols[s].lib = "none")
      BY <1>1 DEF GotInv, TableRefsInv, TableInv
    <3>3. symbols[s].place = "undef" => output \in {"memory", "static"}
      BY <1>3, <1>5, <3>1, <3>2 DEF FilledBy, Agrees, Dynamic
    <3> QED
      BY <3>2, <3>3 DEF Value, Found, Unresolved, Null
  <2>2. Value(s)[1] # "loader"
    BY <1>1, <2>1 DEF Found, Null, Symbols
  <2> QED
    BY <1>1, <1>2, <1>5, <2>1, <2>2 DEF LoadWith, Held
<1> QED
  BY <1>4, <1>5

\* A reference of the running program.
LEMMA ReferenceRight ==
    ASSUME GotInv, stage = "run", NEW i \in DOMAIN refs
    PROVE  ReferencesRight!1!2!(i)
<1> DEFINE r == refs[i]
           s == r.sym
           y == symbols[s]
           want == Found(s)
<1>1. /\ TypeInv /\ TableInv /\ RefsInv /\ BoundInv /\ DynInv /\ EntriesInv /\ ViaInv /\ JumpInv /\ SlotInv
      /\ EndInv
  BY DEF GotInv, TableRefsInv, BuildInv
<1>2. /\ s \in DOMAIN symbols /\ y \in Symbols /\ r.type \in RefTypes /\ r.via \in Nat
      /\ DOMAIN plt = 1..Len(plt) /\ DOMAIN got = 1..Len(got) /\ pass = 1
  BY <1>1, Reads DEF TypeInv
<1>3. words[i] = LoadWith(Related(r))
  BY <1>1 DEF EndInv
<1>4. output \in {"memory", "static", "exe", "pie", "dll"}
  BY <1>1, OutputsAssumption DEF TypeInv
<1>5. y.place \in {"here", "undef", "abs"} /\ y.lib \in {"none", "func", "object", "notype"}
  BY <1>2 DEF Symbols
<1>6. want[1] \in {"here", "abs", "lib", "null"} /\ (want = Null <=> y.place = "undef" /\ y.lib = "none")
  BY <1>5 DEF Found, Null
<1>7. Agrees(y) /\ RefsInv!(i) /\ JumpInv!(i)!2 /\ SlotInv!(i)!2 /\ (output = "static" => y.lib = "none")
  BY <1>1, <1>2 DEF RefsInv, JumpInv, SlotInv, Built, TableInv
<1> SUFFICES IF want = Null THEN r.type = "CALL_PLT" \/ Address(i) = Null
             ELSE Through(Address(i)) = want /\ (y.type = "object" => Address(i) = want)
  OBVIOUS
<1> HIDE DEF want
\* It goes through the PLT,
<1>8. CASE r.via # 0
  <2>1. /\ r.via = attr[s].plt
        /\ r.type # "GOT_HI20" /\ y.place # "here" /\ y.type # "object"
        /\ output \notin Dynamic \/ (Missing(s) /\ y.bind = "weak") => r.type = "CALL_PLT"
    BY <1>1, <1>8 DEF ViaInv
  <2>2. words[i] = <<"plt", r.via>> /\ Address(i) = <<"plt", r.via>>
    BY <1>3, <1>8 DEF Related, LoadWith, Address
  <2>3. /\ attr[s].plt \in DOMAIN plt /\ plt[attr[s].plt] \in DOMAIN got
        /\ got[plt[attr[s].plt]].sym = s
    BY <1>1, <1>2, <1>8, <2>1 DEF EntriesInv
  <2>4. Held(plt[r.via]) = want
    BY <2>1, <2>3, SlotsFilled DEF want
  <2>5. CASE want = Null
    <3>1. Missing(s)
      BY <1>6, <2>5 DEF Missing, y
    <3>2. output \in Dynamic => y.bind = "weak"
      <4> SUFFICES ASSUME output \in Dynamic PROVE y.bind = "weak"
        OBVIOUS
      <4>1. dyn[s] # "none"
        BY <1>2, <3>1, UndefinedIsDynamic DEF Missing
      <4> QED
        BY <4>1, <1>1, <1>2, <3>1 DEF EndInv
    <3> QED
      BY <2>1, <2>5, <3>1, <3>2
  <2>6. CASE want # Null
    <3>1. output # "static"
      BY <1>5, <1>6, <1>7, <2>1, <2>6 DEF Dynamic
    <3> QED
      BY <2>1, <2>2, <2>4, <2>6, <3>1 DEF Through
  <2> QED
    BY <2>5, <2>6
\* or through its slot,
<1>9. CASE r.via = 0 /\ r.type = "GOT_HI20"
  <2>1. attr[s].got # 0
    BY <1>7, <1>9
  <2>2. attr[s].got \in DOMAIN got /\ got[attr[s].got].sym = s
    BY <1>1, <1>2, <2>1 DEF EntriesInv
  <2>3. words[i] = <<"got", attr[s].got>>
    BY <1>3, <1>9 DEF Related, LoadWith
  <2>4. Address(i) = want
    BY <2>2, <2>3, SlotsFilled DEF Address, want
  <2> QED
    BY <2>4, <1>6 DEF Through
\* or is left to the loader,
<1>10. CASE r.via = 0 /\ r.type # "GOT_HI20" /\ Related(r) = ByLoader(s)
  <2>1. words[i] = want
    BY <1>3, <1>10 DEF LoadWith, ByLoader, want
  <2> QED
    BY <2>1, <1>6 DEF Address, Through
\* or has the value of its symbol.
<1>11. CASE r.via = 0 /\ r.type # "GOT_HI20" /\ Related(r) # ByLoader(s)
  <2>1. Related(r) = Value(s) /\ ~(r.type = "64" /\ output \in Movable /\ dyn[s] # "none")
    BY <1>11 DEF Related
  <2>2. CASE y.place # "undef" \/ output = "memory" \/ y.lib = "none"
    <3>1. Value(s) = want
      BY <1>2, <1>5, <1>7, <2>2 DEF Value, Found, Unresolved, want, Null
    <3>2. words[i] = want
      BY <1>3, <1>6, <2>1, <3>1 DEF LoadWith
    <3> QED
      BY <3>2, <1>6 DEF Address, Through
  <2>3. CASE y.place = "undef" /\ output # "memory" /\ y.lib # "none"
    <3>1. output \in Dynamic
      BY <1>4, <1>7, <2>3 DEF Dynamic
    <3>2. r.type = "64" \/ r.type = "PCREL_HI20"
      BY <1>2, <1>7, <1>11, <2>3 DEF RefTypes
    <3>3. output # "exe"
      BY <1>7, <1>11, <2>3
    <3>4. output \in Movable
      BY <3>1, <3>3 DEF Dynamic, Movable
    <3>5. dyn[s] # "none"
      BY <1>2, <2>3, <3>1, UndefinedIsDynamic
    <3> QED
      BY <2>1, <2>3, <3>2, <3>4, <3>5, <1>7
  <2> QED
    BY <2>2, <2>3
<1> QED
  BY <1>8, <1>9, <1>10, <1>11

\* Linking and loading fail when they have to.
LEMMA FailureRight ==
    ASSUME GotInv, stage \in {"run", "failed"}
    PROVE  stage = "failed" <=> \E s \in DOMAIN symbols : Missing(s) /\ symbols[s].bind # "weak"
<1>1. stage = "failed" => \E s \in DOMAIN symbols : Missing(s) /\ symbols[s].bind # "weak"
  BY DEF GotInv, EndInv
<1>2. ASSUME stage = "run", NEW s \in DOMAIN symbols, Missing(s), symbols[s].bind # "weak"
      PROVE  FALSE
  <2>1. EndInv /\ symbols[s].place = "undef" /\ symbols[s].lib = "none"
    BY <1>2 DEF GotInv, Missing
  <2>2. CASE output \in Dynamic
    BY <1>2, <2>1, <2>2, UndefinedIsDynamic DEF EndInv
  <2>3. CASE output \notin Dynamic
    <3>1. output \in {"memory", "static"}
      BY <2>3, OutputsAssumption DEF GotInv, TypeInv, Dynamic
    <3>2. Unresolved(s)
      BY <3>1, <2>1 DEF Unresolved
    <3> QED
      BY <3>2, <1>2, <2>1 DEF EndInv
  <2> QED
    BY <2>2, <2>3
<1> QED
  BY <1>1, <1>2

\* tccelf.c, bind_exe_dynsyms to relocate_sections: in the running program every reference is to
\* what its symbol is, and the link or the loading fails exactly if a symbol that is not weak is
\* defined nowhere; whatever the symbols, the kind of output, and the number and the order of
\* the references, of those that Admitted admits.
THEOREM EveryReferenceRight ==
    ASSUME Deviations = {}
    PROVE  GotSpec => []ReferencesRight
<1>1. GotInit => GotInv
  BY InitHolds
<1>2. GotInv /\ [GotNext]_gotVars => GotInv'
  <2> SUFFICES ASSUME GotInv, [GotNext]_gotVars
               PROVE  GotInv'
    OBVIOUS
  <2>1. CASE Refer
    BY <2>1, ReferHolds
  <2>2. CASE bind_exe_dynsyms
    BY <2>2, BindHolds
  <2>3. CASE Visit
    BY <2>3, VisitHolds
  <2>4. CASE NextPass
    BY <2>4, NextPassHolds
  <2>5. CASE export_global_syms
    BY <2>5, ExportHolds
  <2>6. CASE ResolveSymbols
    BY <2>6, ResolveHolds
  <2>7. CASE relocate_sections
    BY <2>7, RelocateHolds
  <2>8. CASE Load
    BY <2>8, LoadHolds
  <2>9. CASE UNCHANGED gotVars
    <3>1. TypeInv' /\ TableInv' /\ RefsInv' /\ FreshInv' /\ BoundInv' /\ DynInv'
      BY <2>9 DEF gotVars, GotInv, TableRefsInv, TypeInv, References, Slots, TableInv, RefsInv, FreshInv,
         BoundInv, DynInv, Missing, Calls, IsData, Agrees
    <3>2. BuildInv'
      BY <2>9 DEF gotVars, GotInv, BuildInv, EntriesInv, CalledInv, ViaInv, JumpInv, SlotInv, Built,
         FilledBy, Missing, Calls
    <3>3. EndInv'
      <4>1. /\ \A s : Unresolved(s)' = Unresolved(s) /\ Missing(s)' = Missing(s) /\ Value(s)' = Value(s)
            /\ \A r : Related(r)' = Related(r)
            /\ \A a : LoadWith(a)' = LoadWith(a)
        BY <2>9 DEF gotVars, Unresolved, Missing, Value, Related, LoadWith, Found
      <4> QED
        BY <4>1, <2>9 DEF gotVars, GotInv, EndInv
    <3> QED
      BY <3>1, <3>2, <3>3 DEF GotInv, TableRefsInv
  <2> QED
    BY <2>1, <2>2, <2>3, <2>4, <2>5, <2>6, <2>7, <2>8, <2>9 DEF GotNext
<1>3. GotInv => ReferencesRight
  BY ReferenceRight, FailureRight DEF ReferencesRight
<1> QED
  BY <1>1, <1>2, <1>3, PTL DEF GotSpec

-----------------------------------------------------------------------------
(* The memory of a program that tcc -run loads *)

\* What Pad adds leads to a multiple, and less than a.
LEMMA PadFacts ==
    ASSUME NEW x \in Int, NEW a \in Nat \ {0}
    PROVE  /\ Pad(x, a) \in Nat
           /\ Pad(x, a) < a
           /\ (x + Pad(x, a)) % a = 0
           /\ \E k \in Int : x + Pad(x, a) = k * a
<1>1. /\ (-x) \div a \in Int
      /\ (-x) % a \in Nat /\ (-x) % a < a
      /\ -x = a * ((-x) \div a) + ((-x) % a)
  BY SMT
<1>2. PICK q \in Int : -x = a * q + ((-x) % a)
  BY <1>1
<1>3. x + Pad(x, a) = (-q) * a
  BY <1>1, <1>2, SMT DEF Pad
<1>4. ((-q) * a) % a = 0
  BY SMT
<1>5. -q \in Int
  OBVIOUS
<1> QED
  BY <1>1, <1>3, <1>4, <1>5 DEF Pad

\* A multiple of a is some number times a.
LEMMA Multiple ==
    ASSUME NEW x \in Int, NEW a \in Nat \ {0}, x % a = 0
    PROVE  \E k \in Int : x = k * a
<1>1. x = a * (x \div a) + (x % a) /\ x \div a \in Int
  BY SMT
<1>2. x = (x \div a) * a
  BY <1>1, SMT
<1> QED
  BY <1>1, <1>2

\* Aligned from further on, and from a multiple of a on, the end is not nearer.
LEMMA PadMonotone ==
    ASSUME NEW x \in Int, NEW m \in Int, NEW y \in Int, NEW a \in Nat \ {0},
           m % a = 0, x <= m + y
    PROVE  x + Pad(x, a) <= m + (y + Pad(y, a))
<1>1. PICK i \in Int : x + Pad(x, a) = i * a
  BY PadFacts
<1>2. PICK j \in Int : y + Pad(y, a) = j * a
  BY PadFacts
<1>3. PICK k \in Int : m = k * a
  BY Multiple
<1>4. Pad(x, a) \in Nat /\ Pad(x, a) < a /\ Pad(y, a) \in Nat
  BY PadFacts
<1>5. x <= (k + j) * a
  BY <1>2, <1>3, <1>4, SMT
<1>6. (i - 1) * a < x
  BY <1>1, <1>4, SMT
<1>7. (i - 1) * a < (k + j) * a
  BY <1>5, <1>6, SMT
<1>8. i - 1 < k + j
  BY <1>7, SMT
<1>9. i * a <= (k + j) * a
  BY <1>8, SMT
<1> QED
  BY <1>1, <1>2, <1>3, <1>9, SMT

\* Of a multiple of A the smaller powers of two are divisors as well.
LEMMA Divides ==
    ASSUME NEW m \in Int, NEW A \in Nat \ {0}, NEW a \in Nat \ {0}, A % a = 0, m % A = 0
    PROVE  m % a = 0
<1>1. PICK k \in Int : m = k * A
  BY Multiple
<1>2. PICK j \in Int : A = j * a
  BY Multiple
<1>3. m = (k * j) * a
  BY <1>1, <1>2, SMT
<1>4. k * j \in Int
  BY SMT
<1>5. \A z \in Int : (z * a) % a = 0
  BY SMT
<1> QED
  BY <1>3, <1>4, <1>5

-----------------------------------------------------------------------------
Progress == {"new", "size", "failed", "malloc", "place", "copy", "ready", "deleted"}
N(s) == Len(sections[s])
A(s, n) == AlignAt(sections[s], n)
L(s, n) == sections[s][n].length

Types ==
    /\ sections \in [Tccs -> Layouts]
    /\ progress \in [Tccs -> Progress]
    /\ pos \in [Tccs -> Nat]
    /\ offset \in [Tccs -> Nat] /\ max_align \in [Tccs -> Nat]
    /\ size \in [Tccs -> Nat] /\ base \in [Tccs -> Nat]
    /\ DOMAIN sh_addr = Tccs /\ DOMAIN sized = Tccs
    /\ \A s \in Tccs : /\ pos[s] <= N(s)
                       /\ sh_addr[s] \in [1..N(s) -> Nat]
                       /\ sized[s] \in [0..N(s) -> Nat] /\ sized[s][0] = 0

\* The first pass up to section k: each section begins at the next multiple.
StepsTo(s, k) == \A n \in 1..k :
    sized[s][n] = sized[s][n - 1] + Pad(sized[s][n - 1], A(s, n)) + L(s, n)

\* The largest alignment so far.
SizeInv(s) == progress[s] = "size" =>
    /\ base[s] = 0
    /\ offset[s] = sized[s][pos[s]]
    /\ StepsTo(s, pos[s])
    /\ max_align[s] + 1 \in Alignments \cup {1}
    /\ \A n \in 1..pos[s] : A(s, n) <= max_align[s] + 1

\* The largest alignment of all is what the size has in addition.
Largest(s) == size[s] - sized[s][N(s)] + 1
SizedInv(s) == progress[s] \in {"malloc", "place", "copy", "ready"} =>
    /\ StepsTo(s, N(s))
    /\ Largest(s) \in Nat \ {0}
    /\ \A n \in 1..N(s) : Largest(s) % A(s, n) = 0

FitTo(s, k, end) == \A n \in 1..k :
    /\ base[s] <= sh_addr[s][n]
    /\ sh_addr[s][n] + L(s, n) <= end
    /\ sh_addr[s][n] % A(s, n) = 0
    /\ \A m \in 1..n - 1 : sh_addr[s][m] + L(s, m) <= sh_addr[s][n]

\* The second pass is never further than the first one would be from the next address with
\* the largest alignment.
PlaceInv(s) == progress[s] = "place" =>
    /\ base[s] # 0
    /\ base[s] + offset[s] <= base[s] + Pad(base[s], Largest(s)) + sized[s][pos[s]]
    /\ FitTo(s, pos[s], base[s] + offset[s])

FitInv(s) == HasPlace(s) => FitTo(s, N(s), base[s] + size[s])

RunInv == Types /\ \A s \in Tccs : SizeInv(s) /\ SizedInv(s) /\ PlaceInv(s) /\ FitInv(s)

\* What each section is.
LEMMA SectionTypes ==
    ASSUME Types, NEW s \in Tccs
    PROVE  /\ N(s) \in Nat
           /\ \A n \in 1..N(s) : L(s, n) \in Nat /\ A(s, n) \in Alignments
           /\ \A n \in 1..N(s) : A(s, n) \in Nat \ {0}
<1>1. sections[s] \in Seq(Sections)
  BY LayoutsAssumption DEF Types
<1>2. N(s) \in Nat /\ \A n \in 1..N(s) : sections[s][n] \in Sections
  BY <1>1 DEF N
<1>3. \A n \in 1..N(s) : L(s, n) \in Nat /\ A(s, n) \in Alignments
  BY <1>2, AlignmentsAssumption DEF L, A, AlignAt, Sections
<1> QED
  BY <1>2, <1>3, AlignmentsAssumption

\* The invariant of one state.
StateInv(s) == SizeInv(s) /\ SizedInv(s) /\ PlaceInv(s) /\ FitInv(s)

LEMMA InitInv == RunInit => RunInv
<1> SUFFICES ASSUME RunInit PROVE RunInv
  OBVIOUS
<1>1. Types
  <2>1. \A s \in Tccs : N(s) \in Nat
    <3> TAKE s \in Tccs
    <3>1. sections[s] \in Seq(Sections)
      BY LayoutsAssumption DEF RunInit
    <3> QED
      BY <3>1 DEF N
  <2>2. \A s \in Tccs : sh_addr[s] \in [1..N(s) -> Nat]
    <3> TAKE s \in Tccs
    <3>1. sh_addr[s] = [n \in 1..N(s) |-> 0]
      BY DEF RunInit, N
    <3> QED
      BY <3>1
  <2>3. \A s \in Tccs : sized[s] \in [0..N(s) -> Nat] /\ sized[s][0] = 0
    <3> TAKE s \in Tccs
    <3>1. sized[s] = [n \in 0..N(s) |-> 0]
      BY DEF RunInit, N
    <3> QED
      BY <2>1, <3>1
  <2>4. \A s \in Tccs : pos[s] <= N(s)
    <3> TAKE s \in Tccs
    <3>1. pos[s] = 0
      BY DEF RunInit
    <3>2. N(s) \in Nat
      BY <2>1
    <3> QED
      BY <3>1, <3>2
  <2>5. DOMAIN sh_addr = Tccs
    BY DEF RunInit
  <2>6. DOMAIN sized = Tccs
    BY DEF RunInit
  <2>7. progress \in [Tccs -> Progress]
    BY DEF RunInit, Progress
  <2>8. /\ pos \in [Tccs -> Nat]
        /\ offset \in [Tccs -> Nat] /\ max_align \in [Tccs -> Nat]
        /\ size \in [Tccs -> Nat] /\ base \in [Tccs -> Nat]
    BY DEF RunInit
  <2> QED
    BY <2>2, <2>3, <2>4, <2>5, <2>6, <2>7, <2>8 DEF RunInit, Types
<1>2. \A s \in Tccs : progress[s] = "new"
  BY DEF RunInit
<1> QED
  BY <1>1, <1>2 DEF RunInv, SizeInv, SizedInv, PlaceInv, FitInv, HasPlace

\* An action of another state leaves the invariant of this one.
LEMMA OthersKept ==
    ASSUME NEW t \in Tccs, StateInv(t), sections' = sections,
           progress'[t] = progress[t], pos'[t] = pos[t], offset'[t] = offset[t],
           max_align'[t] = max_align[t], size'[t] = size[t], base'[t] = base[t],
           sh_addr'[t] = sh_addr[t], sized'[t] = sized[t]
    PROVE  StateInv(t)'
<1>1. SizeInv(t)'
  BY DEF StateInv, SizeInv, StepsTo, A, L, N
<1>2. SizedInv(t)'
  BY DEF StateInv, SizedInv, StepsTo, Largest, A, L, N
<1>3. PlaceInv(t)'
  BY DEF StateInv, PlaceInv, FitTo, Largest, A, L, N
<1>4. FitInv(t)'
  BY DEF StateInv, FitInv, FitTo, HasPlace, A, L, N
<1> QED
  BY <1>1, <1>2, <1>3, <1>4 DEF StateInv

LEMMA RelocateInv ==
    ASSUME Types, NEW s \in Tccs, StateInv(s), TccRelocate(s)
    PROVE  Types' /\ StateInv(s)'
<1>1. Types'
  BY DEF Types, TccRelocate, Begin, Progress, N
<1>2. /\ progress'[s] = "size" /\ pos'[s] = 0 /\ base'[s] = 0
      /\ offset'[s] = 0 /\ max_align'[s] = 0 /\ sized'[s] = sized[s]
  BY DEF Types, TccRelocate, Begin
<1>3. SizeInv(s)'
  BY <1>2 DEF SizeInv, StepsTo, Types
<1> QED
  BY <1>1, <1>2, <1>3 DEF StateInv, SizedInv, PlaceInv, FitInv, HasPlace

\* The first pass: the size grows by what the next section takes, and max_align is the
\* largest alignment again.
LEMMA PlaceSizeInv ==
    ASSUME Types, NEW s \in Tccs, StateInv(s), Place(s), progress[s] = "size"
    PROVE  SizeInv(s)'
<1> DEFINE n == pos[s] + 1
           a == A(s, n)
<1>1. n \in 1..N(s) /\ n - 1 = pos[s] /\ N(s) \in Nat
  <2>1. pos[s] < N(s)
    BY DEF Place, N
  <2>2. N(s) \in Nat /\ pos[s] \in Nat
    BY SectionTypes DEF Types
  <2> QED
    BY <2>1, <2>2
<1>2. a \in Alignments /\ a \in Nat \ {0} /\ L(s, n) \in Nat
  BY <1>1, SectionTypes
<1>3. /\ base[s] = 0 /\ offset[s] = sized[s][pos[s]] /\ offset[s] \in Nat
      /\ StepsTo(s, pos[s])
      /\ max_align[s] + 1 \in Alignments \cup {1} /\ max_align[s] \in Nat
      /\ \A m \in 1..pos[s] : A(s, m) <= max_align[s] + 1
  BY DEF StateInv, SizeInv, Types
<1> DEFINE behind == offset[s] + Pad(offset[s], a) + L(s, n)
<1>4. /\ sections' = sections /\ progress'[s] = "size" /\ base'[s] = 0 /\ pos'[s] = n
      /\ offset'[s] = behind
      /\ max_align'[s] = IF max_align[s] < a - 1 THEN a - 1 ELSE max_align[s]
      /\ sized'[s] = [sized[s] EXCEPT ![n] = behind]
  <2>1. /\ sections' = sections /\ progress' = progress /\ base' = base
        /\ pos' = [pos EXCEPT ![s] = n]
        /\ offset' = [offset EXCEPT ![s] = offset[s] + Pad(base[s] + offset[s], a) + L(s, n)]
        /\ max_align' = [max_align EXCEPT ![s] = IF @ < a - 1 THEN a - 1 ELSE @]
        /\ sized' = [sized EXCEPT ![s][n] =
                         offset[s] + Pad(base[s] + offset[s], a) + L(s, n)]
    BY DEF Place, A, L
  <2>2. base[s] + offset[s] = offset[s]
    BY <1>3
  <2>3. sections' = sections /\ progress'[s] = "size" /\ base'[s] = 0 /\ pos'[s] = n
    BY <1>3, <2>1 DEF Types
  <2>4. offset'[s] = offset[s] + Pad(base[s] + offset[s], a) + L(s, n)
    BY <2>1 DEF Types
  <2>5. max_align'[s] = IF max_align[s] < a - 1 THEN a - 1 ELSE max_align[s]
    BY <2>1 DEF Types
  <2>6. sized'[s] = [sized[s] EXCEPT ![n] =
                         offset[s] + Pad(base[s] + offset[s], a) + L(s, n)]
    BY <2>1 DEF Types
  <2> QED
    BY <2>2, <2>3, <2>4, <2>5, <2>6
<1>5. sized'[s][n] = behind /\ \A m \in 0..pos[s] : sized'[s][m] = sized[s][m]
  BY <1>1, <1>4 DEF Types
<1>6. StepsTo(s, pos[s])'
  <2> SUFFICES ASSUME NEW m \in 1..pos'[s]
               PROVE  sized'[s][m] = sized'[s][m - 1] + Pad(sized'[s][m - 1], A(s, m)) + L(s, m)
    BY <1>4 DEF StepsTo, A, L
  <2>1. CASE m = n
    BY <2>1, <1>1, <1>3, <1>5
  <2>2. CASE m # n
    <3>1. m \in 1..pos[s] /\ m \in 0..pos[s] /\ m - 1 \in 0..pos[s]
      BY <2>2, <1>1, <1>4
    <3> QED
      BY <3>1, <1>3, <1>5 DEF StepsTo
  <2> QED
    BY <2>1, <2>2
<1>7. max_align'[s] + 1 \in Alignments \cup {1}
  BY <1>2, <1>3, <1>4
<1>8. \A m \in 1..n : A(s, m) <= max_align'[s] + 1
  <2> TAKE m \in 1..n
  <2>1. A(s, m) \in Nat
    BY <1>1, SectionTypes
  <2>2. CASE m = n
    BY <2>2, <1>2, <1>3, <1>4
  <2>3. CASE m # n
    <3>1. m \in 1..pos[s]
      BY <2>3, <1>1
    <3> QED
      BY <3>1, <2>1, <1>2, <1>3, <1>4
  <2> QED
    BY <2>2, <2>3
<1>9. offset'[s] = sized'[s][pos'[s]]
  BY <1>4, <1>5
<1>10. (\A m \in 1..pos[s] : A(s, m) <= max_align[s] + 1)'
  BY <1>4, <1>8 DEF A
<1> QED
  BY <1>4, <1>6, <1>7, <1>9, <1>10 DEF SizeInv

\* The second pass: the next section may need less padding than in the first one, never so
\* much more that it gets ahead.
LEMMA PlacePlaceInv ==
    ASSUME Types, NEW s \in Tccs, StateInv(s), Place(s), progress[s] = "place"
    PROVE  PlaceInv(s)' /\ SizedInv(s)'
<1> DEFINE n == pos[s] + 1
           a == A(s, n)
           top == base[s] + Pad(base[s], Largest(s))
           there == offset[s] + Pad(base[s] + offset[s], a)
<1>1. n \in 1..N(s) /\ n - 1 = pos[s] /\ N(s) \in Nat /\ pos[s] \in 0..N(s)
  <2>1. pos[s] < N(s)
    BY DEF Place, N
  <2>2. N(s) \in Nat /\ pos[s] \in Nat
    BY SectionTypes DEF Types
  <2> QED
    BY <2>1, <2>2
<1>2. a \in Nat \ {0} /\ L(s, n) \in Nat
  BY <1>1, SectionTypes
<1>3. /\ base[s] # 0 /\ base[s] \in Nat /\ offset[s] \in Nat
      /\ base[s] + offset[s] <= top + sized[s][pos[s]]
      /\ FitTo(s, pos[s], base[s] + offset[s])
  BY DEF StateInv, PlaceInv, Types
<1>4. StepsTo(s, N(s)) /\ Largest(s) \in Nat \ {0} /\ Largest(s) % a = 0
  BY <1>1 DEF StateInv, SizedInv
<1>5. /\ sections' = sections /\ progress' = progress /\ base' = base /\ sized' = sized
      /\ size' = size /\ pos'[s] = n /\ offset'[s] = there + L(s, n)
      /\ sh_addr'[s] = [sh_addr[s] EXCEPT ![n] = base[s] + there]
  <2>1. /\ sections' = sections /\ progress' = progress /\ base' = base /\ sized' = sized
        /\ size' = size
        /\ pos' = [pos EXCEPT ![s] = n]
        /\ offset' = [offset EXCEPT ![s] = there + L(s, n)]
        /\ sh_addr' = [sh_addr EXCEPT ![s][n] = base[s] + there]
    BY <1>3 DEF Place, A, L
  <2> QED
    BY <2>1 DEF Types
<1>6. SizedInv(s)'
  BY <1>5 DEF StateInv, SizedInv, StepsTo, Largest, A, L, N
<1>7. /\ Pad(base[s], Largest(s)) \in Nat
      /\ top \in Nat /\ top % a = 0
  <2>1. /\ Pad(base[s], Largest(s)) \in Nat
        /\ (base[s] + Pad(base[s], Largest(s))) % Largest(s) = 0
    <3>1. base[s] \in Int
      BY <1>3
    <3> QED
      BY <3>1, <1>4, PadFacts
  <2>2. top \in Nat
    BY <2>1, <1>3
  <2>3. top % a = 0
    BY <2>1, <2>2, <1>2, <1>4, Divides
  <2> QED
    BY <2>1, <2>2, <2>3
<1>8. /\ Pad(base[s] + offset[s], a) \in Nat /\ there \in Nat
      /\ (base[s] + there) % a = 0
  <2>1. base[s] + offset[s] \in Int
    BY <1>3
  <2>2. /\ Pad(base[s] + offset[s], a) \in Nat
        /\ (base[s] + offset[s] + Pad(base[s] + offset[s], a)) % a = 0
    BY <2>1, <1>2, PadFacts
  <2>3. base[s] + offset[s] + Pad(base[s] + offset[s], a) = base[s] + there
    BY <2>2, <1>3
  <2> QED
    BY <2>2, <2>3, <1>3
<1>9. base[s] + offset'[s] <= top + sized[s][n]
  <2>1. sized[s][pos[s]] \in Nat /\ sized[s][n] \in Nat
    BY <1>1 DEF Types
  <2>2. sized[s][n] = sized[s][pos[s]] + Pad(sized[s][pos[s]], a) + L(s, n)
    BY <1>1, <1>4 DEF StepsTo
  <2>3. base[s] + offset[s] + Pad(base[s] + offset[s], a)
            <= top + (sized[s][pos[s]] + Pad(sized[s][pos[s]], a))
    BY <2>1, <1>2, <1>3, <1>7, PadMonotone
  <2>4. Pad(sized[s][pos[s]], a) \in Nat
    <3>1. PICK x, y : x = sized[s][pos[s]] /\ y = a
      OBVIOUS
    <3>2. x \in Int /\ y \in Nat \ {0}
      BY <2>1, <3>1, <1>2
    <3>3. Pad(x, y) \in Nat
      BY ONLY <3>2, PadFacts
    <3> QED
      BY <3>1, <3>3
  <2> QED
    BY <2>1, <2>2, <2>3, <2>4, <1>2, <1>3, <1>5, <1>7, <1>8
<1>10. FitTo(s, pos[s], base[s] + offset[s])'
  <2> SUFFICES ASSUME NEW m \in 1..n
               PROVE  /\ base[s] <= sh_addr'[s][m]
                      /\ sh_addr'[s][m] + L(s, m) <= base[s] + offset'[s]
                      /\ sh_addr'[s][m] % A(s, m) = 0
                      /\ \A k \in 1..m - 1 : sh_addr'[s][k] + L(s, k) <= sh_addr'[s][m]
    BY <1>5 DEF FitTo, A, L
  <2>1. /\ sh_addr'[s][n] = base[s] + there
        /\ \A k \in 1..pos[s] : sh_addr'[s][k] = sh_addr[s][k] /\ sh_addr[s][k] \in Nat
    <3>1. sh_addr[s] \in [1..N(s) -> Nat]
      BY DEF Types
    <3>2. \A k \in 1..pos[s] : k \in 1..N(s) /\ k # n
      BY <1>1
    <3> HIDE DEF n, there
    <3> QED
      BY <3>1, <3>2, <1>1, <1>5
  <2>2. \A k \in 1..pos[s] : L(s, k) \in Nat
    BY <1>1, SectionTypes
  <2>3. base[s] + offset[s] <= base[s] + there /\ base[s] + there <= base[s] + offset'[s]
    BY <1>2, <1>3, <1>5, <1>8
  <2>4. CASE m = n
    <3>1. ASSUME NEW k \in 1..m - 1
          PROVE  sh_addr'[s][k] + L(s, k) <= sh_addr'[s][m]
      <4>1. k \in 1..pos[s]
        BY <2>4, <1>1
      <4>2. sh_addr[s][k] + L(s, k) <= base[s] + offset[s]
        BY <4>1, <1>3 DEF FitTo
      <4> QED
        BY <4>1, <4>2, <2>1, <2>2, <2>3, <2>4, <1>3, <1>8
    <3> QED
      BY <3>1, <2>1, <2>4, <1>2, <1>3, <1>5, <1>8
  <2>5. CASE m # n
    <3>1. m \in 1..pos[s] /\ \A k \in 1..m - 1 : k \in 1..pos[s]
      BY <2>5, <1>1
    <3>2. /\ base[s] <= sh_addr[s][m]
          /\ sh_addr[s][m] + L(s, m) <= base[s] + offset[s]
          /\ sh_addr[s][m] % A(s, m) = 0
          /\ \A k \in 1..m - 1 : sh_addr[s][k] + L(s, k) <= sh_addr[s][m]
      BY <3>1, <1>3 DEF FitTo
    <3>3. sh_addr[s][m] + L(s, m) <= base[s] + offset'[s]
      BY <3>1, <3>2, <2>1, <2>2, <2>3, <1>2, <1>3, <1>5, <1>8
    <3> QED
      BY <3>1, <3>2, <3>3, <2>1
  <2> QED
    BY <2>4, <2>5
<1>11. PlaceInv(s)'
  <2>1. Largest(s)' = Largest(s)
    BY <1>5 DEF Largest, N
  <2> QED
    BY <2>1, <1>3, <1>5, <1>7, <1>9, <1>10 DEF PlaceInv
<1> QED
  BY <1>6, <1>11

\* The types of what Place changes.
LEMMA PlaceTypes ==
    ASSUME Types, NEW s \in Tccs, Place(s)
    PROVE  Types'
<1> DEFINE n == pos[s] + 1
           a == A(s, n)
           there == offset[s] + Pad(base[s] + offset[s], a)
<1>1. n \in 1..N(s) /\ N(s) \in Nat
  <2>1. N(s) \in Nat
    BY SectionTypes
  <2>2. pos[s] \in Nat /\ pos[s] < N(s)
    BY DEF Types, Place, N
  <2> QED
    BY <2>1, <2>2
<1>2. a \in Nat \ {0} /\ L(s, n) \in Nat
  BY <1>1, SectionTypes
<1>3. base[s] \in Nat /\ offset[s] \in Nat /\ max_align[s] \in Nat
  BY DEF Types
<1>4. there \in Nat
  <2>1. base[s] + offset[s] \in Int
    BY <1>3
  <2>2. Pad(base[s] + offset[s], a) \in Nat
    BY <2>1, <1>2, PadFacts
  <2> QED
    BY <2>2, <1>3
<1>5. /\ sections' = sections /\ progress' = progress /\ base' = base /\ size' = size
      /\ pos' = [pos EXCEPT ![s] = n]
      /\ offset' = [offset EXCEPT ![s] = there + L(s, n)]
      /\ max_align' = [max_align EXCEPT ![s] = IF @ < a - 1 THEN a - 1 ELSE @]
      /\ sh_addr' = [sh_addr EXCEPT ![s][n] = IF base[s] = 0 THEN 0 ELSE base[s] + there]
      /\ sized' = IF progress[s] = "size" THEN [sized EXCEPT ![s][n] = there + L(s, n)] ELSE sized
  BY DEF Place, A, L
<1>6. pos' \in [Tccs -> Nat] /\ \A t \in Tccs : pos'[t] <= N(t)
  BY <1>1, <1>5 DEF Types
<1>7. offset' \in [Tccs -> Nat] /\ max_align' \in [Tccs -> Nat]
  <2>1. there + L(s, n) \in Nat /\ a - 1 \in Nat
    BY <1>2, <1>4
  <2> HIDE DEF n, a, there
  <2>2. offset \in [Tccs -> Nat] /\ max_align \in [Tccs -> Nat]
    BY DEF Types
  <2> QED
    BY <1>5, <2>1, <2>2
<1>8. DOMAIN sh_addr' = Tccs /\ \A t \in Tccs : sh_addr'[t] \in [1..N(t) -> Nat]
  <2>1. (IF base[s] = 0 THEN 0 ELSE base[s] + there) \in Nat
    BY <1>3, <1>4
  <2> QED
    BY <2>1, <1>1, <1>5 DEF Types
<1>9. DOMAIN sized' = Tccs /\ \A t \in Tccs : sized'[t] \in [0..N(t) -> Nat] /\ sized'[t][0] = 0
  <2>1. there + L(s, n) \in Nat /\ n \in 0..N(s) /\ n # 0
    BY <1>1, <1>2, <1>4
  <2> HIDE DEF n, there
  <2>2. CASE sized' = [sized EXCEPT ![s][n] = there + L(s, n)]
    BY <2>1, <2>2 DEF Types
  <2>3. CASE sized' = sized
    BY <2>3 DEF Types
  <2> QED
    BY <1>5, <2>2, <2>3
<1> QED
  BY <1>5, <1>6, <1>7, <1>8, <1>9 DEF Types, N

LEMMA SizedStateInv ==
    ASSUME Types, NEW s \in Tccs, StateInv(s), Sized(s)
    PROVE  Types' /\ StateInv(s)'
<1>1. /\ pos[s] = N(s) /\ N(s) \in Nat
      /\ offset[s] = sized[s][N(s)] /\ offset[s] \in Nat /\ StepsTo(s, N(s))
      /\ max_align[s] \in Nat /\ max_align[s] + 1 \in Alignments \cup {1}
      /\ \A n \in 1..N(s) : A(s, n) <= max_align[s] + 1
  BY SectionTypes DEF Types, Sized, StateInv, SizeInv, N
<1>2. Types'
  <2>1. progress' \in [Tccs -> Progress]
    BY DEF Types, Sized, Progress
  <2>2. size' = size \/ size' = [size EXCEPT ![s] = Required(s)]
    BY DEF Sized
  <2>3. Required(s) \in Nat
    BY <1>1 DEF Required
  <2>4. size' \in [Tccs -> Nat]
    BY <2>2, <2>3 DEF Types
  <2> QED
    BY <2>1, <2>4 DEF Types, Sized, N
<1>3. /\ progress'[s] \in {"failed", "malloc"}
      /\ progress'[s] = "malloc" => size'[s] = offset[s] + max_align[s]
      /\ sections' = sections /\ sized' = sized
  BY DEF Types, Sized, Required
<1>4. SizedInv(s)'
  <2> SUFFICES ASSUME progress'[s] = "malloc"
               PROVE  SizedInv(s)'
    BY <1>3 DEF SizedInv
  <2>1. Largest(s)' = max_align[s] + 1
    BY <1>1, <1>3 DEF Largest, N
  <2>2. \A n \in 1..N(s) : (max_align[s] + 1) % A(s, n) = 0
    <3> TAKE n \in 1..N(s)
    <3>1. A(s, n) \in Alignments /\ A(s, n) \in Nat \ {0} /\ A(s, n) <= max_align[s] + 1
      BY <1>1, SectionTypes
    <3>2. CASE max_align[s] + 1 \in Alignments
      BY <3>1, <3>2, AlignmentsAssumption
    <3>3. CASE max_align[s] + 1 = 1
      <4>1. A(s, n) = 1
        BY <3>1, <3>3
      <4> QED
        BY <4>1, <3>3
    <3> QED
      BY <1>1, <3>2, <3>3
  <2>3. StepsTo(s, N(s))'
    BY <1>1, <1>3 DEF StepsTo, A, L, N
  <2>4. (\A n \in 1..N(s) : Largest(s) % A(s, n) = 0)'
    BY <2>1, <2>2, <1>3 DEF A, N
  <2> QED
    BY <1>1, <2>1, <2>3, <2>4 DEF SizedInv
<1> QED
  BY <1>2, <1>3, <1>4 DEF StateInv, SizeInv, PlaceInv, FitInv, HasPlace

LEMMA MallocInv ==
    ASSUME Types, NEW s \in Tccs, StateInv(s), Malloc(s)
    PROVE  Types' /\ StateInv(s)'
<1>1. PICK m \in 1..HeapEnd - size[s] : Begin(s, "place", m)
  BY DEF Malloc
<1>2. m \in Nat \ {0}
  BY HeapAssumption DEF Types
<1>3. /\ progress' = [progress EXCEPT ![s] = "place"] /\ base' = [base EXCEPT ![s] = m]
      /\ pos' = [pos EXCEPT ![s] = 0] /\ offset' = [offset EXCEPT ![s] = 0]
      /\ max_align' = [max_align EXCEPT ![s] = 0]
      /\ sections' = sections /\ size' = size /\ sh_addr' = sh_addr /\ sized' = sized
  BY <1>1 DEF Malloc, Begin
<1>4. Types'
  <2>1. progress' \in [Tccs -> Progress] /\ base' \in [Tccs -> Nat]
    BY <1>2, <1>3 DEF Types, Progress
  <2>2. pos' \in [Tccs -> Nat] /\ offset' \in [Tccs -> Nat] /\ max_align' \in [Tccs -> Nat]
    BY <1>3 DEF Types
  <2>3. \A t \in Tccs : pos'[t] <= N(t)
    BY <1>3, SectionTypes DEF Types
  <2> QED
    BY <1>3, <2>1, <2>2, <2>3 DEF Types, N
<1>5. SizedInv(s)'
  BY <1>3 DEF Malloc, StateInv, SizedInv, StepsTo, Largest, A, L, N
<1>6. PlaceInv(s)'
  <2>1. progress[s] = "malloc" /\ Largest(s) \in Nat \ {0} /\ sized[s][0] = 0
    BY DEF Malloc, StateInv, SizedInv, Types
  <2>2. Pad(m, Largest(s)) \in Nat
    BY <2>1, <1>2, PadFacts
  <2>3. Largest(s)' = Largest(s)
    BY <1>3 DEF Largest, N
  <2>4. base'[s] = m /\ offset'[s] = 0 /\ pos'[s] = 0
    BY <1>3 DEF Types
  <2>5. FitTo(s, pos[s], base[s] + offset[s])'
    BY <2>4 DEF FitTo
  <2> QED
    BY <2>1, <2>2, <2>3, <2>4, <2>5, <1>2, <1>3 DEF PlaceInv
<1>7. progress'[s] = "place"
  BY <1>3 DEF Types
<1> QED
  BY <1>4, <1>5, <1>6, <1>7 DEF StateInv, SizeInv, FitInv, HasPlace

\* At the end of the second pass: what the first address with the largest alignment is off
\* is what the size has in addition.
LEMMA PlacedInv ==
    ASSUME Types, NEW s \in Tccs, StateInv(s), Placed(s)
    PROVE  Types' /\ StateInv(s)'
<1>1. /\ progress[s] = "place" /\ pos[s] = N(s) /\ N(s) \in Nat
      /\ progress' = [progress EXCEPT ![s] = "copy"] /\ pos' = [pos EXCEPT ![s] = 0]
      /\ sections' = sections /\ size' = size /\ base' = base /\ offset' = offset
      /\ max_align' = max_align /\ sh_addr' = sh_addr /\ sized' = sized
  BY SectionTypes DEF Placed, N
<1>2. Types'
  <2>1. progress' \in [Tccs -> Progress] /\ pos' \in [Tccs -> Nat]
    BY <1>1 DEF Types, Progress
  <2>2. \A t \in Tccs : pos'[t] <= N(t)
    BY <1>1, SectionTypes DEF Types
  <2> QED
    BY <1>1, <2>1, <2>2 DEF Types, N
<1>3. /\ base[s] \in Nat /\ offset[s] \in Nat /\ size[s] \in Nat /\ sized[s][N(s)] \in Nat
      /\ Largest(s) \in Nat \ {0}
      /\ base[s] + offset[s] <= base[s] + Pad(base[s], Largest(s)) + sized[s][N(s)]
      /\ FitTo(s, N(s), base[s] + offset[s])
  BY <1>1 DEF Types, StateInv, SizedInv, PlaceInv
<1>4. base[s] + offset[s] <= base[s] + size[s]
  <2>1. Pad(base[s], Largest(s)) \in Nat /\ Pad(base[s], Largest(s)) < Largest(s)
    <3>1. base[s] \in Int
      BY <1>3
    <3> QED
      BY <3>1, <1>3, PadFacts
  <2>2. Largest(s) = size[s] - sized[s][N(s)] + 1
    BY DEF Largest
  <2> QED
    BY <2>1, <2>2, <1>3
<1>5. FitTo(s, N(s), base[s] + size[s])
  <2>1. \A n \in 1..N(s) : sh_addr[s][n] \in Nat /\ L(s, n) \in Nat
    BY SectionTypes DEF Types
  <2> QED
    BY <2>1, <1>3, <1>4 DEF FitTo
<1>6. FitInv(s)'
  BY <1>1, <1>5 DEF FitInv, FitTo, A, L, N
<1>7. SizedInv(s)'
  BY <1>1 DEF StateInv, SizedInv, StepsTo, Largest, A, L, N
<1>8. progress'[s] = "copy"
  BY <1>1 DEF Types
<1> QED
  BY <1>2, <1>6, <1>7, <1>8 DEF StateInv, SizeInv, PlaceInv

LEMMA CopyRoundInv ==
    ASSUME Types, NEW s \in Tccs, StateInv(s), CopyRound(s)
    PROVE  Types' /\ StateInv(s)'
<1>1. PICK last \in 1..N(s) :
          /\ progress[s] = "copy"
          /\ pos' = [pos EXCEPT ![s] = last]
          /\ progress' = [progress EXCEPT ![s] = IF last = N(s) THEN "ready" ELSE "copy"]
          /\ sections' = sections /\ size' = size /\ base' = base /\ offset' = offset
          /\ max_align' = max_align /\ sh_addr' = sh_addr /\ sized' = sized
  BY DEF CopyRound, N
<1>2. N(s) \in Nat
  BY SectionTypes
<1>3. Types'
  <2>1. progress' \in [Tccs -> Progress] /\ pos' \in [Tccs -> Nat]
    BY <1>1, <1>2 DEF Types, Progress
  <2>2. \A t \in Tccs : pos'[t] <= N(t)
    BY <1>1, <1>2 DEF Types
  <2> QED
    BY <1>1, <2>1, <2>2 DEF Types, N
<1>4. progress'[s] \in {"copy", "ready"}
  BY <1>1 DEF Types
<1>5. FitInv(s)'
  BY <1>1, <1>4 DEF StateInv, FitInv, FitTo, HasPlace, A, L, N
<1>6. SizedInv(s)'
  BY <1>1 DEF StateInv, SizedInv, StepsTo, Largest, A, L, N
<1> QED
  BY <1>3, <1>4, <1>5, <1>6 DEF StateInv, SizeInv, PlaceInv

LEMMA DeleteInv ==
    ASSUME Types, NEW s \in Tccs, StateInv(s), Delete(s)
    PROVE  Types' /\ StateInv(s)'
<1>1. Types'
  <2>1. progress' \in [Tccs -> Progress]
    BY DEF Types, Delete, Progress
  <2>2. base' \in [Tccs -> Nat]
    BY DEF Types, Delete
  <2> QED
    BY <2>1, <2>2 DEF Types, Delete, N
<1>2. progress'[s] = "deleted"
  BY DEF Types, Delete
<1> QED
  BY <1>1, <1>2 DEF StateInv, SizeInv, SizedInv, PlaceInv, FitInv, HasPlace

LEMMA PlaceStateInv ==
    ASSUME Types, NEW s \in Tccs, StateInv(s), Place(s)
    PROVE  Types' /\ StateInv(s)'
<1>1. progress[s] \in {"size", "place"} /\ progress' = progress
  BY DEF Place
<1>2. CASE progress[s] = "size"
  BY <1>1, <1>2, PlaceTypes, PlaceSizeInv
     DEF StateInv, SizedInv, PlaceInv, FitInv, HasPlace
<1>3. CASE progress[s] = "place"
  BY <1>1, <1>3, PlaceTypes, PlacePlaceInv DEF StateInv, SizeInv, FitInv, HasPlace
<1> QED
  BY <1>1, <1>2, <1>3

\* One state acts, and the others keep what they have.
LEMMA NextInv == RunInv /\ [RunNext]_runVars => RunInv'
<1> SUFFICES ASSUME RunInv, [RunNext]_runVars
             PROVE  RunInv'
  OBVIOUS
<1>1. Types /\ \A t \in Tccs : StateInv(t)
  BY DEF RunInv, StateInv
<1>2. CASE RunNext
  <2>1. PICK s \in Tccs : \/ TccRelocate(s) \/ Place(s) \/ Sized(s) \/ Malloc(s)
                          \/ Placed(s) \/ CopyRound(s) \/ Delete(s)
    BY <1>2 DEF RunNext
  <2>2. Types' /\ StateInv(s)'
    BY <1>1, <2>1, RelocateInv, PlaceStateInv, SizedStateInv, MallocInv, PlacedInv,
       CopyRoundInv, DeleteInv
  <2>3. ASSUME NEW t \in Tccs, t # s
        PROVE  /\ sections' = sections
               /\ progress'[t] = progress[t] /\ pos'[t] = pos[t] /\ offset'[t] = offset[t]
               /\ max_align'[t] = max_align[t] /\ size'[t] = size[t] /\ base'[t] = base[t]
               /\ sh_addr'[t] = sh_addr[t] /\ sized'[t] = sized[t]
    <3>1. CASE TccRelocate(s)
      BY <1>1, <2>3, <3>1 DEF Types, TccRelocate, Begin
    <3>2. CASE Place(s)
      BY <1>1, <2>3, <3>2 DEF Types, Place
    <3>3. CASE Sized(s)
      BY <1>1, <2>3, <3>3 DEF Types, Sized
    <3>4. CASE Malloc(s)
      BY <1>1, <2>3, <3>4 DEF Types, Malloc, Begin
    <3>5. CASE Placed(s)
      BY <1>1, <2>3, <3>5 DEF Types, Placed
    <3>6. CASE CopyRound(s)
      BY <1>1, <2>3, <3>6 DEF Types, CopyRound
    <3>7. CASE Delete(s)
      BY <1>1, <2>3, <3>7 DEF Types, Delete
    <3> QED
      BY <2>1, <3>1, <3>2, <3>3, <3>4, <3>5, <3>6, <3>7
  <2>4. \A t \in Tccs : StateInv(t)'
    BY <1>1, <2>2, <2>3, OthersKept
  <2> QED
    BY <2>2, <2>4 DEF RunInv, StateInv
<1>3. CASE UNCHANGED runVars
  BY <1>1, <1>3 DEF runVars, RunInv, Types, StateInv, SizeInv, SizedInv, PlaceInv, FitInv,
     HasPlace, StepsTo, FitTo, Largest, A, L, N
<1> QED
  BY <1>2, <1>3

\* Both passes, for any states, sections and heap (tccrun.c:250): in either one the layout
\* is as far as RunInv says.
THEOREM BothPasses == RunSpec => []RunInv
<1> QED
  BY InitInv, NextInv, PTL DEF RunSpec

\* The size that the first pass returns is enough wherever the memory is, for any sections
\* and any powers of two (tccrun.c:349): every section is inside, aligned, and behind the one
\* before.
THEOREM SizeSuffices == RunSpec => []SectionsFit
<1>1. RunInv => SectionsFit
  <2>1. ASSUME NEW s \in Tccs, NEW n \in 1..N(s), n > 1
        PROVE  n - 1 \in 1..n - 1
    BY <2>1
  <2> QED
    BY <2>1 DEF RunInv, FitInv, FitTo, SectionsFit, A, L, N
<1> QED
  BY <1>1, BothPasses, PTL

-----------------------------------------------------------------------------
(* The access of the pages.                                                  *)

\* Multiples are ordered as what they are multiples of.
LEMMA MultiplesOrder ==
    ASSUME NEW i \in Int, NEW j \in Int, NEW a \in Nat \ {0}
    PROVE  /\ i <= j => i * a <= j * a
           /\ i * a < j * a => i < j
           /\ (i + 1) * a = i * a + a
<1>1. i <= j => i * a <= j * a
  BY SMT
<1>2. i * a < j * a => i < j
  BY SMT
<1>3. (i + 1) * a = i * a + a
  BY SMT
<1> QED
  BY <1>1, <1>2, <1>3

LEMMA PageSizeType == PageSize \in Nat /\ PageSize > 1 /\ PageSize \in Nat \ {0}
BY AlignmentsAssumption

\* The quotient is the page an address is in.
LEMMA Quotient ==
    ASSUME NEW x \in Nat
    PROVE  /\ x \div PageSize \in Nat
           /\ (x \div PageSize) * PageSize <= x
           /\ x < (x \div PageSize + 1) * PageSize
<1>1. x = PageSize * (x \div PageSize) + (x % PageSize)
  BY PageSizeType, SMT
<1>2. x \div PageSize \in Nat /\ x % PageSize \in Nat /\ x % PageSize < PageSize
  BY PageSizeType, SMT
<1>3. (x \div PageSize + 1) * PageSize = PageSize * (x \div PageSize) + PageSize
  BY <1>2, PageSizeType, SMT
<1>4. (x \div PageSize) * PageSize = PageSize * (x \div PageSize)
  BY <1>2, PageSizeType, SMT
<1>5. PageSize * (x \div PageSize) \in Nat
  BY <1>2, PageSizeType, SMT
<1> QED
  BY <1>1, <1>2, <1>3, <1>4, <1>5, PageSizeType

\* The first and the next address of a page.
From(p) == p * PageSize
Upto(p) == (p + 1) * PageSize

\* PagesOf are the pages with at least one of the bytes in them.
LEMMA PageBytes ==
    ASSUME NEW a \in Nat, NEW n \in Nat \ {0}, NEW p \in Int
    PROVE  p \in PagesOf(a, n) <=> From(p) < a + n /\ a < Upto(p)
<1> DEFINE q == a \div PageSize
           e == (a + n + PageSize - 1) \div PageSize
<1>1. a + n + PageSize - 1 \in Nat /\ a + n \in Nat
  BY PageSizeType
<1>2. q \in Nat /\ q * PageSize <= a /\ a < (q + 1) * PageSize
  BY Quotient
<1>3. e \in Nat /\ e * PageSize <= a + n + PageSize - 1 /\ a + n + PageSize - 1 < (e + 1) * PageSize
  BY <1>1, Quotient
<1>4. p * PageSize \in Int /\ q * PageSize \in Int /\ e * PageSize \in Int /\ p + 1 \in Int
  BY <1>2, <1>3, PageSizeType, SMT
<1>5. /\ (p + 1) * PageSize = p * PageSize + PageSize
      /\ (q + 1) * PageSize = q * PageSize + PageSize
      /\ (e + 1) * PageSize = e * PageSize + PageSize
  BY <1>2, <1>3, PageSizeType, MultiplesOrder
<1>6. q <= p <=> a < (p + 1) * PageSize
  <2>1. q <= p => q * PageSize <= p * PageSize
    BY <1>2, PageSizeType, MultiplesOrder
  <2>2. q * PageSize < (p + 1) * PageSize => q < p + 1
    BY <1>2, <1>4, PageSizeType, MultiplesOrder
  <2> HIDE DEF q, e
  <2> QED
    BY <2>1, <2>2, <1>2, <1>4, <1>5, PageSizeType
<1>7. p <= e - 1 <=> p * PageSize < a + n
  <2>1. p + 1 <= e => (p + 1) * PageSize <= e * PageSize
    BY <1>3, <1>4, PageSizeType, MultiplesOrder
  <2>2. p * PageSize < e * PageSize => p < e
    BY <1>3, PageSizeType, MultiplesOrder
  <2> HIDE DEF q, e
  <2> QED
    BY <2>1, <2>2, <1>1, <1>3, <1>4, <1>5, PageSizeType
<1>8. p \in PagesOf(a, n) <=> q <= p /\ p <= e - 1
  <2> HIDE DEF q, e
  <2>1. PagesOf(a, n) = q..e - 1
    BY DEF PagesOf, q, e
  <2> QED
    BY <2>1, <1>2, <1>3
<1> QED
  BY <1>6, <1>7, <1>8 DEF From, Upto

\* A page lies on one side of an address at which a page begins.
LEMMA PageSides ==
    ASSUME NEW b \in Int, NEW p \in Int, b % PageSize = 0
    PROVE  b <= From(p) \/ Upto(p) <= b
<1>1. PICK k \in Int : b = k * PageSize
  BY PageSizeType, Multiple
<1>2. CASE k <= p
  BY <1>1, <1>2, PageSizeType, MultiplesOrder DEF From
<1>3. CASE p + 1 <= k
  <2>1. p + 1 \in Int
    OBVIOUS
  <2> QED
    BY <2>1, <1>1, <1>3, PageSizeType, MultiplesOrder DEF Upto
<1> QED
  BY <1>2, <1>3

-----------------------------------------------------------------------------
(* The access of the pages: what is protected is whole pages of one state,   *)
(* for any page size, any sections and any number of states on the heap.     *)

End(s) == base[s] + size[s]

\* What a state has of the heap, and that its rounds begin where a page does.
MemInv(s) ==
    /\ progress[s] \in {"new", "size", "failed", "malloc"} => base[s] = 0
    /\ progress[s] \in {"place", "copy", "ready"} => base[s] # 0
    /\ base[s] # 0 => End(s) <= HeapEnd
    /\ progress[s] = "copy" => pos[s] < N(s) /\ Begins(sections[s], pos[s] + 1)

Apart(s, t) == base[s] # 0 /\ base[t] # 0 => End(s) <= base[t] \/ End(t) <= base[s]

\* The whole page is in the memory of s, which has begun to protect it.
Owns(s, p) == /\ base[s] # 0 /\ progress[s] \in {"copy", "ready", "deleted"}
              /\ base[s] <= From(p) /\ Upto(p) <= End(s)
\* At least a byte of the page is.
Touches(s, p) == base[s] # 0 /\ From(p) < End(s) /\ base[s] < Upto(p)

AccessInv(s) == HasPlace(s) => \A n \in 1..N(s) : L(s, n) # 0 =>
    \A p \in PagesOf(sh_addr[s][n], L(s, n)) : prot[p] = PageAccess(s, n)

HeapInv ==
    /\ prot \in [Pages -> {"rx", "ro", "rw"}]
    /\ \A s \in Tccs : MemInv(s)
    /\ \A s, t \in Tccs : s # t => Apart(s, t)
OwnedInv == \A p \in Pages : prot[p] # "rw" => \E s \in Tccs : Owns(s, p)
PageInv == HeapInv /\ OwnedInv /\ \A s \in Tccs : AccessInv(s)

LEMMA PageTypes ==
    ASSUME NEW p \in Int
    PROVE  From(p) \in Int /\ Upto(p) \in Int /\ From(p) < Upto(p)
<1>1. (p + 1) * PageSize = p * PageSize + PageSize
  BY PageSizeType, MultiplesOrder
<1>2. p * PageSize \in Int
  BY PageSizeType, SMT
<1> QED
  BY <1>1, <1>2, PageSizeType DEF From, Upto

\* The pages of the heap are those of its addresses.
LEMMA HeapPages ==
    ASSUME NEW p \in Int, From(p) < HeapEnd, 0 < Upto(p)
    PROVE  p \in Pages
<1> DEFINE q == (HeapEnd + PageSize - 1) \div PageSize
<1>1. HeapEnd \in Nat /\ HeapEnd + PageSize - 1 \in Nat
  BY HeapAssumption, PageSizeType
<1>2. q \in Nat /\ HeapEnd + PageSize - 1 < (q + 1) * PageSize
  BY <1>1, Quotient
<1>3. (q + 1) * PageSize = q * PageSize + PageSize /\ q * PageSize \in Int
  <2> HIDE DEF q
  <2>1. (q + 1) * PageSize = q * PageSize + PageSize
    BY <1>2, PageSizeType, MultiplesOrder
  <2>2. q * PageSize \in Int
    BY <1>2, PageSizeType, SMT
  <2> QED
    BY <2>1, <2>2
<1>4. p < q
  <2> HIDE DEF q
  <2>1. From(p) < q * PageSize
    <3>1. From(p) \in Int
      BY PageTypes
    <3> QED
      BY <3>1, <1>1, <1>2, <1>3, PageSizeType
  <2> QED
    BY <2>1, <1>2, PageSizeType, MultiplesOrder DEF From
<1>5. 0 <= p
  <2>1. 0 * PageSize = 0 /\ p + 1 \in Int /\ 0 * PageSize < (p + 1) * PageSize
    BY PageSizeType DEF Upto
  <2>2. 0 < p + 1
    BY <2>1, PageSizeType, MultiplesOrder
  <2> QED
    BY <2>2
<1> QED
  BY <1>2, <1>4, <1>5 DEF Pages

\* No page is in the memory of one state and has a byte of another's.
LEMMA OwnerAlone ==
    ASSUME Types, HeapInv, NEW s \in Tccs, NEW t \in Tccs, NEW p \in Int,
           Owns(s, p), Touches(t, p)
    PROVE  s = t
<1>1. /\ base[s] \in Nat /\ size[s] \in Nat /\ base[t] \in Nat /\ size[t] \in Nat
      /\ From(p) \in Int /\ Upto(p) \in Int
  BY PageTypes DEF Types
<1>2. s # t => Apart(s, t)
  BY DEF HeapInv
<1> QED
  BY <1>1, <1>2 DEF Apart, Owns, Touches, End

\* A page with a byte of s is protected only if s did it.
LEMMA TouchedOwned ==
    ASSUME Types, HeapInv, OwnedInv, NEW s \in Tccs, NEW p \in Pages,
           Touches(s, p), prot[p] # "rw"
    PROVE  Owns(s, p)
<1>1. PICK t \in Tccs : Owns(t, p)
  BY DEF OwnedInv
<1>2. p \in Int
  BY DEF Pages
<1> QED
  BY <1>1, <1>2, OwnerAlone

\* A section that has its place lies in the memory of its state, its pages on the heap.
LEMMA SectionPages ==
    ASSUME Types, HeapInv, NEW s \in Tccs, base[s] # 0, FitTo(s, N(s), End(s)),
           NEW n \in 1..N(s), L(s, n) # 0,
           NEW p \in PagesOf(sh_addr[s][n], L(s, n))
    PROVE  /\ p \in Pages /\ p \in Int
           /\ From(p) < sh_addr[s][n] + L(s, n) /\ sh_addr[s][n] < Upto(p)
           /\ Touches(s, p)
<1>1. /\ base[s] \in Nat /\ size[s] \in Nat /\ sh_addr[s][n] \in Nat
      /\ L(s, n) \in Nat \ {0}
  BY SectionTypes DEF Types
<1>2. p \in Int
  <2>1. sh_addr[s][n] \div PageSize \in Int
    BY <1>1, Quotient
  <2> QED
    BY <2>1 DEF PagesOf
<1>3. From(p) < sh_addr[s][n] + L(s, n) /\ sh_addr[s][n] < Upto(p)
  BY <1>1, <1>2, PageBytes
<1>4. base[s] <= sh_addr[s][n] /\ sh_addr[s][n] + L(s, n) <= End(s)
  BY DEF FitTo
<1>5. End(s) <= HeapEnd
  BY DEF HeapInv, MemInv
<1>6. From(p) \in Int /\ Upto(p) \in Int /\ HeapEnd \in Nat
  BY <1>2, PageTypes, HeapAssumption
<1>7. From(p) < HeapEnd /\ 0 < Upto(p)
  BY <1>1, <1>3, <1>4, <1>5, <1>6 DEF End
<1>8. p \in Pages
  BY <1>2, <1>7, HeapPages
<1>9. Touches(s, p)
  BY <1>1, <1>3, <1>4, <1>5, <1>6 DEF End, Touches
<1> QED
  BY <1>2, <1>3, <1>8, <1>9

\* The first section of a round begins a page.
LEMMA BeginsPage ==
    ASSUME Types, NEW s \in Tccs, NEW n \in 1..N(s), Begins(sections[s], n),
           NEW x \in Int, x % A(s, n) = 0
    PROVE  x % PageSize = 0
<1>1. A(s, n) \in Alignments /\ A(s, n) \in Nat \ {0}
  BY SectionTypes
<1>2. PageSize <= A(s, n)
  <2>1. sections[s][n].align \in Nat
    <3>1. sections[s] \in Seq(Sections)
      BY LayoutsAssumption DEF Types
    <3>2. sections[s][n] \in Sections
      BY <3>1 DEF N
    <3> QED
      BY <3>2, AlignmentsAssumption DEF Sections
  <2> QED
    BY <2>1, PageSizeType DEF A, AlignAt
<1>3. A(s, n) % PageSize = 0
  BY <1>1, <1>2, AlignmentsAssumption
<1> QED
  BY <1>1, <1>3, PageSizeType, Divides

\* What the actions of s leave of the others.
Others(s) == \A t \in Tccs : t # s =>
    /\ progress'[t] = progress[t] /\ pos'[t] = pos[t] /\ size'[t] = size[t]
    /\ base'[t] = base[t] /\ sh_addr'[t] = sh_addr[t]

LEMMA InitPages == RunInit => PageInv
<1> SUFFICES ASSUME RunInit PROVE PageInv
  OBVIOUS
<1>1. prot \in [Pages -> {"rx", "ro", "rw"}] /\ \A p \in Pages : prot[p] = "rw"
  BY DEF RunInit
<1>2. \A s \in Tccs : progress[s] = "new" /\ base[s] = 0
  BY DEF RunInit
<1> QED
  BY <1>1, <1>2 DEF PageInv, HeapInv, OwnedInv, MemInv, Apart, AccessInv, HasPlace

\* An action of s before it has anything to copy: no page changes.
LEMMA QuietPages ==
    ASSUME PageInv, NEW s \in Tccs, Others(s), sections' = sections, prot' = prot,
           progress[s] \in {"new", "size", "malloc", "place"},
           progress'[s] \in {"size", "failed", "malloc", "place"},
           MemInv(s)', \A t \in Tccs : t # s => Apart(s, t)' /\ Apart(t, s)'
    PROVE  PageInv'
<1>1. HeapInv'
  <2>1. \A t \in Tccs : t # s => MemInv(t)'
    BY DEF PageInv, HeapInv, MemInv, Others, End, N
  <2>2. \A t, r \in Tccs : t # s /\ r # s /\ t # r => Apart(t, r)'
    BY DEF PageInv, HeapInv, Apart, Others, End
  <2> QED
    BY <2>1, <2>2 DEF PageInv, HeapInv
<1>2. OwnedInv'
  <2> SUFFICES ASSUME NEW p \in Pages, prot[p] # "rw"
               PROVE  \E t \in Tccs : Owns(t, p)'
    BY DEF OwnedInv
  <2>1. PICK t \in Tccs : Owns(t, p)
    BY DEF PageInv, OwnedInv
  <2>2. t # s
    BY <2>1 DEF Owns
  <2> QED
    BY <2>1, <2>2 DEF Owns, Others, End
<1>3. \A t \in Tccs : AccessInv(t)'
  <2>1. ~HasPlace(s)'
    BY DEF HasPlace
  <2>2. \A t \in Tccs : t # s => AccessInv(t)'
    BY DEF PageInv, AccessInv, HasPlace, PageAccess, Others, N, L
  <2> QED
    BY <2>1, <2>2 DEF AccessInv
<1> QED
  BY <1>1, <1>2, <1>3 DEF PageInv

LEMMA RelocatePages ==
    ASSUME Types, PageInv, NEW s \in Tccs, TccRelocate(s)
    PROVE  PageInv'
<1>1. /\ progress[s] = "new" /\ base[s] = 0 /\ progress'[s] = "size" /\ base'[s] = 0
  BY DEF Types, TccRelocate, Begin, PageInv, HeapInv, MemInv
<1>2. Others(s) /\ sections' = sections /\ prot' = prot
  BY DEF Types, TccRelocate, Begin, Others
<1> QED
  BY <1>1, <1>2, QuietPages DEF MemInv, Apart

LEMMA SizedPages ==
    ASSUME Types, PageInv, NEW s \in Tccs, Sized(s)
    PROVE  PageInv'
<1>1. /\ progress[s] = "size" /\ base[s] = 0 /\ progress'[s] \in {"failed", "malloc"}
      /\ base'[s] = 0
  BY DEF Types, Sized, PageInv, HeapInv, MemInv
<1>2. Others(s) /\ sections' = sections /\ prot' = prot
  BY DEF Types, Sized, Others
<1> QED
  BY <1>1, <1>2, QuietPages DEF MemInv, Apart

LEMMA PlacePages ==
    ASSUME Types, PageInv, NEW s \in Tccs, Place(s)
    PROVE  PageInv'
<1>1. /\ progress[s] \in {"size", "place"} /\ progress' = progress /\ base' = base /\ size' = size
      /\ sections' = sections /\ prot' = prot
  BY DEF Place
<1>2. Others(s)
  BY DEF Types, Place, Others
<1>3. MemInv(s)' /\ \A t \in Tccs : t # s => Apart(s, t)' /\ Apart(t, s)'
  BY <1>1 DEF PageInv, HeapInv, MemInv, Apart, End
<1> QED
  BY <1>1, <1>2, <1>3, QuietPages

LEMMA MallocPages ==
    ASSUME Types, PageInv, NEW s \in Tccs, Malloc(s)
    PROVE  PageInv'
<1>1. PICK m \in 1..HeapEnd - size[s] :
          /\ \A r \in Tccs : base[r] # 0 => m + size[s] <= base[r] \/ base[r] + size[r] <= m
          /\ Begin(s, "place", m)
  BY DEF Malloc
<1>2. /\ progress[s] = "malloc" /\ sections' = sections /\ prot' = prot /\ size' = size
      /\ progress'[s] = "place" /\ base'[s] = m /\ Others(s)
  BY <1>1 DEF Types, Malloc, Begin, Others
<1>3. size[s] \in Nat /\ HeapEnd \in Nat
  BY HeapAssumption DEF Types
<1>4. MemInv(s)'
  BY <1>2, <1>3 DEF MemInv, End
<1>5. ASSUME NEW t \in Tccs, t # s
      PROVE  Apart(s, t)' /\ Apart(t, s)'
  BY <1>1, <1>2, <1>5 DEF Apart, End, Others
<1> QED
  BY <1>2, <1>4, <1>5, QuietPages

\* Where the memory of s is, no page is protected when copying begins.
LEMMA PlacedPages ==
    ASSUME RunInv, RunInv', PageInv, NEW s \in Tccs, Placed(s)
    PROVE  PageInv'
<1>1. /\ progress[s] = "place" /\ progress'[s] = "copy" /\ pos'[s] = 0
      /\ sections' = sections /\ size' = size /\ base' = base /\ sh_addr' = sh_addr
      /\ prot' = prot /\ Others(s)
  BY DEF RunInv, Types, Placed, Others
<1>2. N(s) \in Nat \ {0}
  <2>1. sections[s] \in Seq(Sections) /\ sections[s] # <<>>
    BY LayoutsAssumption DEF RunInv, Types
  <2> QED
    BY <2>1 DEF N
<1>3. HeapInv'
  <2>1. MemInv(s)'
    BY <1>1, <1>2 DEF PageInv, HeapInv, MemInv, Begins, End, N
  <2>2. \A t \in Tccs : t # s => MemInv(t)'
    BY <1>1 DEF PageInv, HeapInv, MemInv, Others, End, N
  <2>3. \A t, r \in Tccs : t # r => Apart(t, r)'
    BY <1>1 DEF PageInv, HeapInv, Apart, End
  <2> QED
    BY <1>1, <2>1, <2>2, <2>3 DEF PageInv, HeapInv
<1>4. OwnedInv'
  <2> SUFFICES ASSUME NEW p \in Pages, prot[p] # "rw"
               PROVE  \E t \in Tccs : Owns(t, p)'
    BY <1>1 DEF OwnedInv
  <2>1. PICK t \in Tccs : Owns(t, p)
    BY DEF PageInv, OwnedInv
  <2>2. Owns(t, p)'
    BY <1>1, <2>1 DEF Owns, Others, End
  <2> QED
    BY <2>2
<1>5. AccessInv(s)'
  <2> SUFFICES ASSUME NEW n \in 1..N(s), L(s, n) # 0,
                      NEW p \in PagesOf(sh_addr[s][n], L(s, n))
               PROVE  prot[p] = "rw"
    BY <1>1, <1>2 DEF AccessInv, PageAccess, L, N
  <2>1. p \in Pages /\ Touches(s, p)
    <3>1. base[s] # 0
      BY <1>1 DEF PageInv, HeapInv, MemInv
    <3>2. FitTo(s, N(s), End(s))
      <4>1. FitInv(s)' /\ HasPlace(s)'
        BY <1>1 DEF RunInv, HasPlace
      <4> QED
        BY <4>1, <1>1 DEF FitInv, FitTo, End, A, L, N
    <3> QED
      BY <3>1, <3>2, SectionPages DEF RunInv, PageInv
  <2>2. ~Owns(s, p)
    BY <1>1 DEF Owns
  <2> QED
    BY <2>1, <2>2, TouchedOwned DEF PageInv, RunInv
<1>6. \A t \in Tccs : t # s => AccessInv(t)'
  BY <1>1 DEF PageInv, AccessInv, HasPlace, PageAccess, Others, N, L
<1> QED
  BY <1>3, <1>4, <1>5, <1>6 DEF PageInv

\* What CopyRound copies, and how long it is.
IsRound(s, first, last) ==
    /\ progress[s] = "copy" /\ first = pos[s] + 1
    /\ first <= last
    /\ \A m \in first..last : sections[s][m].flags = sections[s][first].flags
    /\ last < N(s) => Begins(sections[s], last + 1)
RoundLength(s, first, last) == sh_addr[s][last] - sh_addr[s][first] + L(s, last)

\* A round begins where a page does, and so does the one behind it.
LEMMA RoundEnds ==
    ASSUME RunInv, PageInv, NEW s \in Tccs, NEW first \in 1..N(s), NEW last \in 1..N(s),
           IsRound(s, first, last)
    PROVE  /\ sh_addr[s][first] \in Nat /\ RoundLength(s, first, last) \in Nat
           /\ base[s] \in Nat /\ base[s] # 0 /\ size[s] \in Nat
           /\ base[s] <= sh_addr[s][first]
           /\ sh_addr[s][first] + RoundLength(s, first, last) = sh_addr[s][last] + L(s, last)
           /\ sh_addr[s][last] + L(s, last) <= End(s)
           /\ sh_addr[s][first] % PageSize = 0
           /\ last < N(s) =>
                  /\ last + 1 \in 1..N(s)
                  /\ sh_addr[s][last + 1] \in Nat
                  /\ sh_addr[s][last + 1] % PageSize = 0
                  /\ sh_addr[s][last] + L(s, last) <= sh_addr[s][last + 1]
                  /\ sh_addr[s][last + 1] <= End(s)
<1>1. /\ Types /\ N(s) \in Nat /\ base[s] \in Nat /\ size[s] \in Nat
      /\ \A n \in 1..N(s) : sh_addr[s][n] \in Nat /\ L(s, n) \in Nat
  BY SectionTypes DEF RunInv, Types
<1>2. /\ progress[s] = "copy" /\ first <= last /\ base[s] # 0
      /\ Begins(sections[s], first)
      /\ last < N(s) => Begins(sections[s], last + 1)
  BY DEF IsRound, PageInv, HeapInv, MemInv
<1>3. FitTo(s, N(s), End(s))
  BY <1>2 DEF RunInv, FitInv, HasPlace, End
<1>4. RoundLength(s, first, last) \in Nat
  <2>1. CASE first = last
    BY <2>1, <1>1 DEF RoundLength
  <2>2. CASE first # last
    <3>1. first \in 1..last - 1
      BY <2>2, <1>1, <1>2
    <3>2. sh_addr[s][first] + L(s, first) <= sh_addr[s][last]
      BY <3>1, <1>3 DEF FitTo
    <3> QED
      BY <3>2, <1>1 DEF RoundLength
  <2> QED
    BY <2>1, <2>2
<1>5. sh_addr[s][first] + RoundLength(s, first, last) = sh_addr[s][last] + L(s, last)
  BY <1>1 DEF RoundLength
<1>6. sh_addr[s][first] % PageSize = 0
  <2>1. sh_addr[s][first] % A(s, first) = 0 /\ sh_addr[s][first] \in Int
    BY <1>1, <1>3 DEF FitTo
  <2> QED
    BY <2>1, <1>1, <1>2, BeginsPage
<1>7. ASSUME last < N(s)
      PROVE  /\ last + 1 \in 1..N(s)
             /\ sh_addr[s][last + 1] % PageSize = 0
             /\ sh_addr[s][last] + L(s, last) <= sh_addr[s][last + 1]
             /\ sh_addr[s][last + 1] <= End(s)
  <2>1. last + 1 \in 1..N(s) /\ last \in 1..(last + 1) - 1
    BY <1>1, <1>7
  <2>2. /\ sh_addr[s][last + 1] % A(s, last + 1) = 0
        /\ sh_addr[s][last] + L(s, last) <= sh_addr[s][last + 1]
        /\ sh_addr[s][last + 1] + L(s, last + 1) <= End(s)
    BY <2>1, <1>3 DEF FitTo
  <2>3. sh_addr[s][last + 1] \in Int
    BY <2>1, <1>1
  <2>4. sh_addr[s][last + 1] % PageSize = 0
    BY <2>1, <2>2, <2>3, <1>1, <1>2, <1>7, BeginsPage
  <2> QED
    BY <2>1, <2>2, <2>4, <1>1 DEF End
<1> QED
  BY <1>1, <1>2, <1>3, <1>4, <1>5, <1>6, <1>7 DEF FitTo

\* The pages of a round are behind those of the rounds before, and in front of the next one.
LEMMA RoundPages ==
    ASSUME RunInv, PageInv, NEW s \in Tccs, NEW first \in 1..N(s), NEW last \in 1..N(s),
           IsRound(s, first, last), RoundLength(s, first, last) # 0,
           NEW p \in Int, p \in PagesOf(sh_addr[s][first], RoundLength(s, first, last))
    PROVE  /\ Touches(s, p) /\ sh_addr[s][first] <= From(p)
           /\ last < N(s) => Upto(p) <= sh_addr[s][last + 1] /\ Owns(s, p)
<1> DEFINE a == sh_addr[s][first]
           n == RoundLength(s, first, last)
<1>1. /\ a \in Nat /\ n \in Nat \ {0}
      /\ base[s] \in Nat /\ base[s] # 0 /\ size[s] \in Nat
      /\ base[s] <= a /\ a + n <= End(s) /\ a % PageSize = 0
  BY RoundEnds
<1>2. From(p) \in Int /\ Upto(p) \in Int /\ From(p) < Upto(p)
  BY PageTypes
<1>3. From(p) < a + n /\ a < Upto(p)
  <2> HIDE DEF a, n
  <2>1. p \in PagesOf(a, n)
    BY DEF a, n
  <2> QED
    BY <2>1, <1>1, PageBytes
<1>4. a <= From(p)
  <2> HIDE DEF a
  <2>1. a \in Int
    BY <1>1
  <2>2. a <= From(p) \/ Upto(p) <= a
    BY <2>1, <1>1, PageSides
  <2> QED
    BY <2>2, <1>1, <1>2, <1>3
<1>5. Touches(s, p)
  <2> HIDE DEF a, n
  <2> QED
    BY <1>1, <1>2, <1>3, <1>4 DEF Touches, End
<1>6. ASSUME last < N(s)
      PROVE  Upto(p) <= sh_addr[s][last + 1] /\ Owns(s, p)
  <2> DEFINE b == sh_addr[s][last + 1]
  <2>1. b \in Nat /\ b \in Int /\ b % PageSize = 0 /\ a + n <= b /\ b <= End(s)
    BY <1>6, RoundEnds
  <2> HIDE DEF a, n, b
  <2>2. b <= From(p) \/ Upto(p) <= b
    BY <2>1, PageSides
  <2>3. Upto(p) <= b
    BY <2>1, <2>2, <1>1, <1>2, <1>3
  <2>4. progress[s] = "copy"
    BY DEF IsRound
  <2>5. base[s] <= From(p) /\ Upto(p) <= End(s)
    BY <2>1, <2>3, <1>1, <1>2, <1>4 DEF End
  <2> QED
    BY <2>3, <2>4, <2>5, <1>1 DEF Owns, b
<1> QED
  BY <1>4, <1>5, <1>6

\* The sections of s lie in the order of their numbers.
LEMMA Ordered ==
    ASSUME Types, NEW s \in Tccs, FitTo(s, N(s), End(s)), NEW i \in 1..N(s), NEW j \in 1..N(s)
    PROVE  /\ i < j => sh_addr[s][i] + L(s, i) <= sh_addr[s][j]
           /\ i <= j => sh_addr[s][i] <= sh_addr[s][j]
           /\ i <= j => sh_addr[s][i] + L(s, i) <= sh_addr[s][j] + L(s, j)
<1>1. /\ N(s) \in Nat
      /\ \A n \in 1..N(s) : sh_addr[s][n] \in Nat /\ L(s, n) \in Nat
  BY SectionTypes DEF Types
<1>2. ASSUME i < j
      PROVE  sh_addr[s][i] + L(s, i) <= sh_addr[s][j]
  <2>1. i \in 1..j - 1
    BY <1>1, <1>2
  <2> QED
    BY <2>1 DEF FitTo
<1> QED
  BY <1>1, <1>2

LEMMA CopyRoundPages ==
    ASSUME RunInv, PageInv, NEW s \in Tccs, CopyRound(s)
    PROVE  PageInv'
<1> DEFINE Set(f, l, p) == /\ RoundLength(s, f, l) # 0
                           /\ p \in PagesOf(sh_addr[s][f], RoundLength(s, f, l))
<1>1. PICK first \in 1..N(s), last \in 1..N(s) :
          /\ IsRound(s, first, last)
          /\ IF RoundLength(s, first, last) = 0 THEN prot' = prot
             ELSE prot' = [p \in Pages |->
                 IF p \in PagesOf(sh_addr[s][first], RoundLength(s, first, last))
                 THEN sections[s][first].flags ELSE prot[p]]
          /\ pos' = [pos EXCEPT ![s] = last]
          /\ progress' = [progress EXCEPT ![s] = IF last = N(s) THEN "ready" ELSE "copy"]
          /\ sections' = sections /\ size' = size /\ base' = base /\ sh_addr' = sh_addr
  BY DEF CopyRound, IsRound, RoundLength, set_pages_executable, N, L
<1> DEFINE mode == sections[s][first].flags
<1>2. /\ Types /\ HeapInv /\ OwnedInv /\ N(s) \in Nat
      /\ progress[s] = "copy" /\ first = pos[s] + 1 /\ first <= last
      /\ pos'[s] = last /\ progress'[s] = IF last = N(s) THEN "ready" ELSE "copy"
      /\ \A t \in Tccs : t # s => progress'[t] = progress[t] /\ pos'[t] = pos[t]
  BY <1>1, SectionTypes DEF RunInv, Types, PageInv, IsRound
<1>3. mode \in {"rx", "ro", "rw"} /\ (mode # "rw" => last < N(s))
  <2>1. /\ sections[s] \in Seq(Sections)
        /\ sections[s][N(s)].flags = "rw"
    BY <1>2, LayoutsAssumption DEF Types, N
  <2>2. mode \in {"rx", "ro", "rw"}
    <3>1. sections[s][first] \in Sections
      BY <2>1 DEF N
    <3> QED
      BY <3>1 DEF Sections
  <2>3. last = N(s) => mode = "rw"
    <3>1. last \in first..last
      BY <1>2
    <3> QED
      BY <1>1, <2>1, <3>1 DEF IsRound
  <2> QED
    BY <2>2, <2>3, <1>2
<1>4. \A p \in Pages : prot'[p] = IF Set(first, last, p) THEN mode ELSE prot[p]
  BY <1>1
<1>5. HeapInv'
  <2>1. prot' \in [Pages -> {"rx", "ro", "rw"}]
    BY <1>1, <1>2, <1>3 DEF HeapInv
  <2>2. MemInv(s)'
    BY <1>1, <1>2 DEF HeapInv, MemInv, IsRound, End, N
  <2>3. \A t \in Tccs : t # s => MemInv(t)'
    BY <1>1, <1>2 DEF HeapInv, MemInv, End, N
  <2>4. \A t, r \in Tccs : t # r => Apart(t, r)'
    BY <1>1, <1>2 DEF HeapInv, Apart, End
  <2> QED
    BY <2>1, <2>2, <2>3, <2>4 DEF HeapInv
<1>6. \A t \in Tccs : \A p \in Pages : Owns(t, p) => Owns(t, p)'
  BY <1>1, <1>2 DEF Owns, End
<1>7. OwnedInv'
  <2> SUFFICES ASSUME NEW p \in Pages, prot'[p] # "rw"
               PROVE  \E t \in Tccs : Owns(t, p)'
    BY DEF OwnedInv
  <2>1. CASE Set(first, last, p)
    <3>1. last < N(s) /\ p \in Int
      BY <2>1, <1>3, <1>4 DEF Pages
    <3>2. Owns(s, p)
      BY <2>1, <3>1, <1>1, RoundPages
    <3> QED
      BY <3>2, <1>6
  <2>2. CASE ~Set(first, last, p)
    BY <2>2, <1>2, <1>4, <1>6 DEF OwnedInv
  <2> QED
    BY <2>1, <2>2
<1>8. ASSUME NEW t \in Tccs, t # s
      PROVE  AccessInv(t)'
  <2> SUFFICES ASSUME HasPlace(t), NEW n \in 1..N(t), L(t, n) # 0,
                      NEW p \in PagesOf(sh_addr[t][n], L(t, n))
               PROVE  prot'[p] = prot[p]
    BY <1>1, <1>2, <1>8 DEF PageInv, AccessInv, PageAccess, HasPlace, N, L
  <2>1. base[t] # 0 /\ FitTo(t, N(t), End(t))
    BY <1>2 DEF HeapInv, MemInv, RunInv, FitInv, HasPlace, End
  <2>2. p \in Pages /\ p \in Int /\ Touches(t, p)
    BY <2>1, <1>2, SectionPages
  <2>3. CASE Set(first, last, p)
    <3>1. Touches(s, p) /\ (last < N(s) => Owns(s, p))
      BY <2>2, <2>3, <1>1, RoundPages
    <3>2. ~Owns(s, p)
      BY <2>2, <1>2, <1>8, OwnerAlone
    <3>3. prot[p] = "rw"
      BY <2>2, <3>1, <3>2, <1>2, TouchedOwned
    <3> QED
      BY <2>2, <2>3, <3>1, <3>2, <3>3, <1>3, <1>4
  <2>4. CASE ~Set(first, last, p)
    BY <2>2, <2>4, <1>4
  <2> QED
    BY <2>3, <2>4
<1>9. AccessInv(s)'
  <2> SUFFICES ASSUME NEW n \in 1..N(s), L(s, n) # 0,
                      NEW p \in PagesOf(sh_addr[s][n], L(s, n))
               PROVE  prot'[p] = IF last = N(s) \/ n <= last THEN sections[s][n].flags ELSE "rw"
    BY <1>1, <1>2 DEF AccessInv, PageAccess, HasPlace, N, L
  <2>1. base[s] # 0 /\ FitTo(s, N(s), End(s))
    BY <1>2 DEF HeapInv, MemInv, RunInv, FitInv, HasPlace, End
  <2>2. /\ p \in Pages /\ p \in Int
        /\ From(p) < sh_addr[s][n] + L(s, n) /\ sh_addr[s][n] < Upto(p)
    BY <2>1, <1>2, SectionPages
  <2>3. /\ \A m \in 1..N(s) : sh_addr[s][m] \in Nat /\ L(s, m) \in Nat
        /\ From(p) \in Int /\ Upto(p) \in Int /\ pos[s] \in Nat
    BY <2>2, <1>2, SectionTypes, PageTypes DEF Types
  <2>4. prot[p] = IF n < first THEN sections[s][n].flags ELSE "rw"
    BY <1>2, <2>3 DEF PageInv, AccessInv, HasPlace, PageAccess
  <2>5. CASE n < first
    <3>1. sh_addr[s][n] + L(s, n) <= sh_addr[s][first]
      BY <2>1, <2>5, <1>2, Ordered
    <3>2. ~Set(first, last, p)
      <4> SUFFICES ASSUME Set(first, last, p) PROVE FALSE
        OBVIOUS
      <4>1. sh_addr[s][first] <= From(p)
        BY <2>2, <1>1, RoundPages
      <4> QED
        BY <3>1, <4>1, <2>2, <2>3
    <3> QED
      BY <2>2, <2>4, <2>5, <3>2, <1>2, <1>4
  <2>6. CASE n \in first..last
    <3>1. /\ sh_addr[s][first] <= sh_addr[s][n]
          /\ sh_addr[s][n] + L(s, n) <= sh_addr[s][last] + L(s, last)
      BY <2>1, <2>6, <1>2, Ordered
    <3>2. /\ sh_addr[s][first] + RoundLength(s, first, last) = sh_addr[s][last] + L(s, last)
          /\ RoundLength(s, first, last) \in Nat
      BY <1>1, RoundEnds
    <3>3. RoundLength(s, first, last) # 0
      BY <3>1, <3>2, <2>3
    <3>4. /\ From(p) < sh_addr[s][first] + RoundLength(s, first, last)
          /\ sh_addr[s][first] < Upto(p)
      BY <3>1, <3>2, <2>2, <2>3
    <3>5. p \in PagesOf(sh_addr[s][first], RoundLength(s, first, last))
      BY <2>2, <2>3, <3>2, <3>3, <3>4, PageBytes
    <3>6. mode = sections[s][n].flags
      BY <2>6, <1>1 DEF IsRound
    <3> QED
      BY <2>2, <2>6, <3>3, <3>5, <3>6, <1>4
  <2>7. CASE last < n
    <3>1. last < N(s) /\ last + 1 \in 1..N(s) /\ last + 1 <= n
      BY <2>7, <1>2
    <3>2. sh_addr[s][last + 1] <= sh_addr[s][n]
      BY <2>1, <3>1, <1>2, Ordered
    <3>3. ~Set(first, last, p)
      <4> SUFFICES ASSUME Set(first, last, p) PROVE FALSE
        OBVIOUS
      <4>1. Upto(p) <= sh_addr[s][last + 1]
        BY <2>2, <3>1, <1>1, RoundPages
      <4> QED
        BY <3>1, <3>2, <4>1, <2>2, <2>3
    <3> QED
      BY <2>2, <2>4, <2>7, <3>1, <3>3, <1>2, <1>4
  <2> QED
    BY <2>5, <2>6, <2>7, <1>2
<1> QED
  BY <1>5, <1>7, <1>8, <1>9 DEF PageInv

\* tcc_delete: the memory of s has at least one byte, so the pages that it unprotects are its
\* own or not protected.
LEMMA DeletePages ==
    ASSUME RunInv, PageInv, NEW s \in Tccs, Delete(s)
    PROVE  PageInv'
<1>1. /\ progress[s] \in {"ready", "failed"} /\ progress'[s] = "deleted"
      /\ sections' = sections /\ pos' = pos /\ size' = size /\ sh_addr' = sh_addr
      /\ \A t \in Tccs : t # s => progress'[t] = progress[t] /\ base'[t] = base[t]
  BY DEF RunInv, Types, Delete
<1>2. /\ Types /\ HeapInv /\ OwnedInv /\ base[s] \in Nat /\ size[s] \in Nat
  BY DEF RunInv, Types, PageInv
<1>3. ASSUME NEW p \in Pages, NEW t \in Tccs, t # s, Owns(t, p)
      PROVE  Owns(t, p)'
  BY <1>1, <1>3 DEF Owns, End
<1>4. CASE prot' = prot /\ base' = base
  <2>1. HeapInv'
    BY <1>1, <1>2, <1>4 DEF HeapInv, MemInv, Apart, End, N
  <2>2. \A p \in Pages : Owns(s, p) => Owns(s, p)'
    BY <1>1, <1>4 DEF Owns, End
  <2>3. OwnedInv'
    BY <1>2, <1>3, <1>4, <2>2 DEF OwnedInv
  <2>4. \A t \in Tccs : AccessInv(t)'
    BY <1>1, <1>4 DEF PageInv, AccessInv, HasPlace, PageAccess, N, L
  <2> QED
    BY <2>1, <2>3, <2>4 DEF PageInv
<1>5. CASE /\ base[s] # 0
           /\ prot' = [p \in Pages |-> IF p \in PagesOf(base[s], size[s]) THEN "rw" ELSE prot[p]]
           /\ base' = [base EXCEPT ![s] = 0]
  <2>1. base'[s] = 0 /\ progress[s] = "ready"
    BY <1>1, <1>2, <1>5 DEF Types, HeapInv, MemInv
  <2>2. size[s] # 0
    <3>1. N(s) \in Nat \ {0}
      <4>1. sections[s] \in Seq(Sections) /\ sections[s] # <<>>
        BY <1>2, LayoutsAssumption DEF Types
      <4> QED
        BY <4>1 DEF N
    <3>2. 1 \in 1..N(s) /\ N(s) \in 0..N(s)
      BY <3>1
    <3>3. Largest(s) \in Nat \ {0} /\ Largest(s) % A(s, 1) = 0
      BY <2>1, <3>2 DEF RunInv, SizedInv
    <3>4. Largest(s) % PageSize = 0
      BY <3>2, <3>3, <1>2, BeginsPage DEF Begins
    <3>5. Largest(s) # 1
      BY <3>4, PageSizeType
    <3>6. sized[s][N(s)] \in Nat
      BY <3>2, <1>2 DEF Types
    <3> QED
      BY <3>3, <3>5, <3>6, <1>2 DEF Largest
  <2>3. \A p \in Int : p \in PagesOf(base[s], size[s]) <=> Touches(s, p)
    BY <2>2, <1>2, <1>5, PageBytes DEF Touches, End
  <2>4. \A p \in Pages : prot'[p] = IF Touches(s, p) THEN "rw" ELSE prot[p]
    BY <2>3, <1>5 DEF Pages
  <2>5. HeapInv'
    <3>1. prot' \in [Pages -> {"rx", "ro", "rw"}]
      BY <1>2, <1>5 DEF HeapInv
    <3>2. \A t \in Tccs : MemInv(t)'
      BY <1>1, <1>2, <2>1 DEF HeapInv, MemInv, End, N
    <3>3. \A t, r \in Tccs : t # r => Apart(t, r)'
      BY <1>1, <1>2, <2>1 DEF HeapInv, Apart, End
    <3> QED
      BY <3>1, <3>2, <3>3 DEF HeapInv
  <2>6. OwnedInv'
    <3> SUFFICES ASSUME NEW p \in Pages, prot'[p] # "rw"
                 PROVE  \E t \in Tccs : Owns(t, p)'
      BY DEF OwnedInv
    <3>1. prot[p] # "rw" /\ ~Touches(s, p) /\ p \in Int
      BY <2>4 DEF Pages
    <3>2. PICK t \in Tccs : Owns(t, p)
      BY <3>1, <1>2 DEF OwnedInv
    <3>3. ~Owns(s, p)
      BY <3>1, <1>2, PageTypes DEF Owns, Touches, End
    <3> QED
      BY <3>2, <3>3, <1>3
  <2>7. ASSUME NEW t \in Tccs
        PROVE  AccessInv(t)'
    <3>1. CASE t = s
      BY <3>1, <1>1 DEF AccessInv, HasPlace
    <3>2. CASE t # s
      <4> SUFFICES ASSUME HasPlace(t), NEW n \in 1..N(t), L(t, n) # 0,
                          NEW p \in PagesOf(sh_addr[t][n], L(t, n))
                   PROVE  prot'[p] = prot[p]
        BY <1>1, <3>2 DEF PageInv, AccessInv, PageAccess, HasPlace, N, L
      <4>1. base[t] # 0 /\ FitTo(t, N(t), End(t))
        BY <1>2 DEF HeapInv, MemInv, RunInv, FitInv, HasPlace, End
      <4>2. p \in Pages /\ p \in Int /\ Touches(t, p)
        BY <4>1, <1>2, SectionPages
      <4>3. Touches(s, p) => prot[p] = "rw"
        <5>1. ~Owns(s, p)
          BY <4>2, <3>2, <1>2, OwnerAlone
        <5> QED
          BY <4>2, <5>1, <1>2, TouchedOwned
      <4> QED
        BY <4>2, <4>3, <2>4
    <3> QED
      BY <3>1, <3>2
  <2> QED
    BY <2>5, <2>6, <2>7 DEF PageInv
<1> QED
  BY <1>4, <1>5 DEF Delete, set_pages_executable

LEMMA NextPages == RunInv /\ RunInv' /\ PageInv /\ [RunNext]_runVars => PageInv'
<1> SUFFICES ASSUME RunInv, RunInv', PageInv, [RunNext]_runVars
             PROVE  PageInv'
  OBVIOUS
<1>1. CASE RunNext
  <2>1. PICK s \in Tccs : \/ TccRelocate(s) \/ Place(s) \/ Sized(s) \/ Malloc(s)
                          \/ Placed(s) \/ CopyRound(s) \/ Delete(s)
    BY <1>1 DEF RunNext
  <2>2. Types
    BY DEF RunInv
  <2> QED
    BY <2>1, <2>2, RelocatePages, PlacePages, SizedPages, MallocPages, PlacedPages,
       CopyRoundPages, DeletePages
<1>2. CASE UNCHANGED runVars
  BY <1>2 DEF runVars, PageInv, HeapInv, OwnedInv, MemInv, Apart, Owns, AccessInv, HasPlace,
     PageAccess, Pages, End, N, L
<1> QED
  BY <1>1, <1>2

\* The pages of a copied section have its access, those of one that is still to be copied can
\* be written, and only whole pages of one state are protected (tccrun.c:386), for any page
\* size, sections, states and places that malloc finds.
THEOREM PagesAreRight == RunSpec => []PagesRight
<1>1. RunSpec => []PageInv
  BY InitPages, NextPages, BothPasses, PTL DEF RunSpec
<1>2. RunInv /\ PageInv => PagesRight
  <2> SUFFICES ASSUME RunInv, PageInv PROVE PagesRight
    OBVIOUS
  <2>1. ASSUME NEW p \in Pages, prot[p] # "rw"
        PROVE  \E s \in Tccs :
                   base[s] # 0 /\ p * PageSize..(p + 1) * PageSize - 1 \subseteq Block(s)
    <3>1. PICK s \in Tccs : Owns(s, p)
      BY <2>1 DEF PageInv, OwnedInv
    <3>2. base[s] \in Nat /\ size[s] \in Nat /\ From(p) \in Int /\ Upto(p) \in Int
      BY PageTypes DEF RunInv, Types, Pages
    <3>3. From(p)..Upto(p) - 1 \subseteq Block(s)
      BY <3>1, <3>2 DEF Owns, Block, End
    <3> QED
      BY <3>1, <3>3 DEF Owns, From, Upto
  <2> QED
    BY <2>1 DEF PagesRight, PageInv, AccessInv, N, L
<1> QED
  BY <1>1, <1>2, BothPasses, PTL
=============================================================================
