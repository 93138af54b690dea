----------------------------- MODULE ElfSymbols -----------------------------
(* The symbol table of a link: tccelf.c from the symbols that the compiler     *)
(* puts while it reads a file (tccgen.c) over the merge at the end of the file *)
(* and the symbols of object files and archives to the tables that are written.*)
(*                                                                             *)
(* Indices count from 1 and 0 means none, as in a table whose entry 0 is empty.*)
(* A section is "undef", "common", "bss" or "data" (whatever has contents); a  *)
(* value is a number that tells one definition from every other, 0 for none.   *)
EXTENDS SymbolRules, SequencesExt, TLC

CONSTANTS
    Names,       \* the names of symbols
    HashOf,      \* elf_hash of each name
    Objects,     \* object files: sequences of [name, bind, vis, sec]
    Archives,    \* archives: sequences of object files
    Groups,      \* linker scripts with GROUP: sequences of archives
    MaxInputs,   \* bound on the number of files of a link
    MaxSteps     \* bound on the files and what compiled files do to symbols, together

VARIABLES
    s1,          \* [syms, strs, hash, nb_errors, errors, new_undef_sym, once]: the
                 \* linker's state; errors is history, all that was ever reported
    relocs,      \* the relocations: [sym, want]
    file,        \* the file under compilation, see Closed
    phase,       \* "files", "linked", "object" or "failed"
    count,       \* [inputs, ops, vals]: what the bounds bound, and the last value
    seen,        \* history: the occurrences of global names, in the order of the files
    locals,      \* history: <<input, name, value>> of the file-scope statics
    took,        \* history: the archive members loaded, <<archive, member>>
    served       \* history: the archives of the last input

vars == <<s1, relocs, file, phase, count, seen, locals, took, served>>

Symbol(bind, vis, sec, val) == [bind |-> bind, vis |-> vis, sec |-> sec, val |-> val]

(* A Sym of file scope: c is the index of its symbol, 0 if it has none yet.    *)
Sym0 == [c |-> 0, known |-> FALSE, static |-> FALSE, weak |-> FALSE, vis |-> "default",
         sec |-> "undef", val |-> 0]

Closed == [open |-> FALSE, syms |-> [n \in Names |-> Sym0],
           sym |-> 0, str |-> 0, rel |-> 0]

------------------------------------------------------------------------------
(* The table and its hash.                                                     *)

NewHash(nb) == [on |-> TRUE, nb |-> nb, bucket |-> [h \in 0..(nb - 1) |-> 0],
                chain |-> << >>, hashed |-> 0]

NameOf(s, i) == s.strs[s.syms[i].name]

(* Enters symbol i, of a name, at the head of its bucket; a local symbol only  *)
(* takes its place in the chains.                                              *)
Hashed(hash, i, name, bind) ==
    LET h == HashOf[name] % hash.nb
    IN  IF bind = "local" THEN [hash EXCEPT !.chain = Append(@, 0)]
        ELSE [hash EXCEPT !.chain = Append(@, hash.bucket[h]), !.bucket[h] = i]

RECURSIVE RehashFrom(_, _, _)
RehashFrom(s, hash, i) ==
    IF i > Len(s.syms) THEN hash
    ELSE RehashFrom(s, Hashed(hash, i, NameOf(s, i), s.syms[i].bind), i + 1)

rebuild_hash(s, nb) ==
    [s EXCEPT !.hash = [RehashFrom(s, NewHash(nb), 1) EXCEPT !.hashed = s.hash.hashed]]

(* The table with the symbol sym of a name behind its last one.                *)
put_elf_sym(s, sym, name) ==
    LET i == Len(s.syms) + 1
        put == [s EXCEPT !.strs = Append(@, name),
                         !.syms = Append(@, sym @@ [name |-> Len(s.strs) + 1])]
        count1 == s.hash.hashed + (IF sym.bind = "local" THEN 0 ELSE 1)
        hashed == [put EXCEPT !.hash = [Hashed(@, i, name, sym.bind) EXCEPT !.hashed = count1]]
    IN  IF ~s.hash.on THEN put
        ELSE IF sym.bind # "local" /\ count1 > 2 * s.hash.nb
             THEN rebuild_hash(hashed, 2 * s.hash.nb)
             ELSE hashed

RECURSIVE Walk(_, _, _)
Walk(s, i, name) ==
    IF i = 0 \/ NameOf(s, i) = name THEN i ELSE Walk(s, s.hash.chain[i], name)

find_elf_sym(s, name) ==
    IF ~s.hash.on THEN 0 ELSE Walk(s, s.hash.bucket[HashOf[name] % s.hash.nb], name)

------------------------------------------------------------------------------
(* set_elf_sym: a symbol meets the one of its name.                            *)

Reserved == {"common", "bss"}

\* Mutant: the first of two strong definitions is kept.
VerdictFirst(old, new) ==
    IF new.sec = "undef" THEN "keep"
    ELSE IF new.bind = "global" /\ old.bind = "weak" THEN "patch"
    ELSE IF new.bind = "weak" THEN "keep"
    ELSE IF old.sec \in Reserved \/ new.sec \in Reserved THEN "keep"
    ELSE "twice"

(* What becomes of a defined symbol old when new comes: "keep" it, "patch" it  *)
(* with the new definition, or report that it is defined "twice".              *)
Verdict(old, new) ==
    IF new.sec = "undef" THEN "keep"
    ELSE IF new.bind = "global" /\ old.bind = "weak" THEN "patch"
    ELSE IF new.bind = "weak" THEN "keep"
    ELSE IF new.vis = "hidden" THEN "keep"
    ELSE IF old.sec \in Reserved /\ new.sec = "data" THEN "patch"
    ELSE IF new.sec \in Reserved THEN "keep"
    ELSE "twice"

JoinVis(old, new) == IF new = "default" THEN old ELSE new

Patched(s, i, new, vis) ==
    [s EXCEPT !.syms[i] = [new EXCEPT !.vis = vis] @@ [name |-> s.syms[i].name],
              !.new_undef_sym = TRUE]

Meet(s, i, old, new, name) ==
    IF \A f \in DOMAIN new : old[f] = new[f] THEN s
    ELSE IF old.sec = "undef" THEN Patched(s, i, new, new.vis)
    ELSE LET vis == JoinVis(old.vis, new.vis)
             seenVis == [s EXCEPT !.syms[i].vis = vis]
         IN  CASE Verdict(old, new) = "keep"  -> seenVis
               [] Verdict(old, new) = "patch" -> Patched(s, i, new, vis)
               [] Verdict(old, new) = "twice" ->
                    [seenVis EXCEPT !.errors = @ \union {<<"twice", name>>}, !.nb_errors = @ + 1]

(* The state and the index of the symbol.                                      *)
set_elf_sym(s, sym, name) ==
    LET i == IF sym.bind = "local" THEN 0 ELSE find_elf_sym(s, name)
    IN  IF i = 0 THEN [s |-> put_elf_sym(s, sym, name), i |-> Len(s.syms) + 1]
        ELSE [s |-> Meet(s, i, s.syms[i], sym, name), i |-> i]

------------------------------------------------------------------------------
(* The compiler puts symbols: tccgen.c.                                        *)

Binding(y) == IF y.static THEN "local" ELSE IF y.weak THEN "weak" ELSE "global"

(* The symbol of a Sym after a change of its attributes.                       *)
update_storage(s, y) ==
    IF y.c = 0 THEN s
    ELSE [s EXCEPT !.syms[y.c].bind = Binding(y),
                   !.syms[y.c].vis = IF y.vis # "default" THEN y.vis ELSE @]

(* The state and the Sym after it got the section sec and the value val.       *)
put_extern_sym2(s, y, n, sec, val) ==
    LET bind == IF y.static THEN "local" ELSE "global"
        put  == put_elf_sym(s, Symbol(bind, "default", sec, val), n)
        y1   == [y EXCEPT !.c = IF @ = 0 THEN Len(s.syms) + 1 ELSE @,
                          !.sec = sec, !.val = val]
        set  == [s EXCEPT !.syms[y.c].sec = sec, !.syms[y.c].val = val]
    IN  [s |-> update_storage(IF y.c = 0 THEN put ELSE set, y1), y |-> y1]

(* Attributes of one declaration added to those of the ones before.            *)
merge_symattr(y, weak, vis) ==
    [y EXCEPT !.weak = @ \/ weak, !.vis = IF vis # "default" THEN vis ELSE @]

(* A relocation to symbol i; want says what the source means by it: name n, of *)
(* this file's scope or of a block.                                            *)
put_elf_reloca(rs, i, n, val) ==
    Append(rs, [sym |-> i, want |-> [input |-> count.inputs, name |-> n, val |-> val]])

------------------------------------------------------------------------------
(* The end of a compiled file: its symbols are set again one by one, now with  *)
(* the hash, in the place where they are.                                      *)

(* What memory holds behind the end of a table that grows over its old self.   *)
Over(new, old) == new \o SubSeq(old, Len(new) + 1, Len(old))

RECURSIVE EndFrom(_, _, _, _, _)
EndFrom(s, syms, strs, i, tr) ==
    IF i > Len(syms) THEN [s |-> s, tr |-> tr]
    ELSE LET y    == Over(s.syms, syms)[i]
             name == Over(s.strs, strs)[y.name]
             bind == IF y.sec = "undef" /\ y.bind = "local" THEN "global" ELSE y.bind
             r    == set_elf_sym(s, Symbol(bind, y.vis, y.sec, y.val), name)
         IN  EndFrom(r.s, syms, strs, i + 1, Append(tr, r.i))

tccelf_end_file(s, f) ==
    EndFrom([s EXCEPT !.syms = SubSeq(@, 1, f.sym), !.strs = SubSeq(@, 1, f.str),
                      !.hash.on = TRUE],
            s.syms, s.strs, f.sym + 1, << >>)

(* The relocations of the file follow their symbols to the new indices.        *)
Retarget(rs, first, tr, firstRel) ==
    [k \in DOMAIN rs |->
        IF k <= firstRel \/ rs[k].sym <= first THEN rs[k]
        ELSE [rs[k] EXCEPT !.sym = tr[rs[k].sym - first]]]

------------------------------------------------------------------------------
(* Object files and archives.                                                  *)

(* A definition in a .gnu.linkonce section has contents the first time; once   *)
(* such a section is there, it and its symbols are those already loaded.       *)
Loaded(e, val) ==
    IF e.sec = "undef" THEN Symbol(e.bind, e.vis, "undef", 0)
    ELSE Symbol(e.bind, e.vis, IF e.sec = "once" THEN "data" ELSE e.sec, val)

(* Sets the symbols of a file from entry k on; val is the last value used.     *)
RECURSIVE SymsFrom(_, _, _, _, _, _)
SymsFrom(s, f, k, val, tr, skip) ==
    IF k > Len(f) THEN [s |-> s, tr |-> tr, val |-> val]
    ELSE IF f[k].sec = "once" /\ skip
    THEN SymsFrom(s, f, k + 1, val, Append(tr, find_elf_sym(s, f[k].name)), skip)
    ELSE LET r == set_elf_sym(s, Loaded(f[k], val + 1), f[k].name)
         IN  SymsFrom(r.s, f, k + 1, val + 1, Append(tr, r.i), skip)

HasOnce(f) == \E k \in DOMAIN f : f[k].sec = "once"

(* What a file says of its global names, for the history.                      *)
Says(f, val, skip) ==
    LET o(k) == Loaded(IF f[k].sec = "once" /\ skip THEN [f[k] EXCEPT !.sec = "undef"] ELSE f[k],
                       val + k - Cardinality({j \in 1..k : f[j].sec = "once" /\ skip}))
        said == [k \in DOMAIN f |-> o(k) @@ [name |-> f[k].name]]
    IN  SelectSeq(said, LAMBDA x : x.bind # "local")

(* A whole load: l = [s, rs, val, seen, took].  Every entry of the file has    *)
(* one relocation of the file to it.                                           *)
tcc_load_object_file(l, f) ==
    LET skip == HasOnce(f) /\ l.s.once
        r  == SymsFrom([l.s EXCEPT !.once = @ \/ HasOnce(f)], f, 1, l.val, << >>, skip)
        rs == [k \in DOMAIN f |->
                 [sym |-> r.tr[k],
                  want |-> [input |-> 0, name |-> f[k].name,
                            val |-> IF f[k].bind = "local" THEN r.s.syms[r.tr[k]].val ELSE 0]]]
    IN  [l EXCEPT !.s = r.s, !.rs = @ \o rs, !.val = r.val,
                  !.seen = @ \o Says(f, l.val, skip)]

(* The index of an archive: the names its members define, in order.            *)
Index(a) ==
    FlattenSeq([m \in DOMAIN a |->
        [k \in DOMAIN a[m] |->
            [name |-> a[m][k].name, member |-> m,
             listed |-> a[m][k].sec # "undef" /\ a[m][k].bind # "local"]]])

Lacks(s, name) ==
    LET i == find_elf_sym(s, name) IN i # 0 /\ s.syms[i].sec = "undef"

(* One pass over the index from entry p on; bound counts the members loaded.   *)
RECURSIVE PassFrom(_, _, _, _, _)
PassFrom(l, a, idx, p, bound) ==
    IF p > Len(idx) THEN [l |-> l, bound |-> bound]
    ELSE IF ~(idx[p].listed /\ Lacks(l.s, idx[p].name)) THEN PassFrom(l, a, idx, p + 1, bound)
    ELSE PassFrom([tcc_load_object_file(l, a[idx[p].member])
                      EXCEPT !.took = Append(@, <<a, idx[p].member>>)],
                  a, idx, p + 1, bound + 1)

\* Mutant: one pass over the index.
tcc_load_alacarteOnce(l, a) == PassFrom(l, a, Index(a), 1, 0).l

RECURSIVE tcc_load_alacarte(_, _)
tcc_load_alacarte(l, a) ==
    LET pass == PassFrom(l, a, Index(a), 1, 0)
    IN  IF pass.bound = 0 THEN pass.l ELSE tcc_load_alacarte(pass.l, a)

(* --whole-archive: every member, wanted or not.                               *)
RECURSIVE WholeFrom(_, _, _)
WholeFrom(l, a, m) ==
    IF m > Len(a) THEN l
    ELSE WholeFrom(tcc_load_object_file(l, a[m]), a, m + 1)

RECURSIVE EachOf(_, _, _)
EachOf(l, g, k) == IF k > Len(g) THEN l ELSE EachOf(tcc_load_alacarte(l, g[k]), g, k + 1)

(* GROUP ( ... ): the archives again and again, while a pass changed a symbol. *)
RECURSIVE GroupFrom(_, _)
GroupFrom(l, g) ==
    IF ~l.s.new_undef_sym THEN l
    ELSE GroupFrom(EachOf([l EXCEPT !.s.new_undef_sym = FALSE], g, 1), g)

ld_add_file_list(l, g) == GroupFrom(EachOf([l EXCEPT !.s.new_undef_sym = FALSE], g, 1), g)

------------------------------------------------------------------------------
(* The end of the link.                                                        *)

resolve_common_syms(s) ==
    [s EXCEPT !.syms = [i \in DOMAIN @ |->
        IF s.syms[i].sec = "common" THEN [s.syms[i] EXCEPT !.sec = "bss"] ELSE s.syms[i]]]

(* What was reported while the files were added counts no more.                *)
LinkStart(s) == resolve_common_syms([s EXCEPT !.nb_errors = 0])

(* Every symbol gets its address; reports those that have none.                *)
relocate_syms(s) ==
    LET missing == {i \in DOMAIN s.syms : s.syms[i].sec = "undef" /\ s.syms[i].bind # "weak"}
    IN  [s EXCEPT !.errors = @ \union {<<"undefined", NameOf(s, i)>> : i \in missing},
                  !.nb_errors = @ + Cardinality(missing)]

(* Local symbols first; the relocations follow.                                *)
NewIndex(s, i) ==
    LET loc == {j \in DOMAIN s.syms : s.syms[j].bind = "local"}
    IN  IF i \in loc THEN Cardinality({j \in loc : j <= i})
        ELSE Cardinality(loc) + Cardinality({j \in 1..i : j \notin loc})

sort_syms(s) ==
    [s EXCEPT !.syms = [k \in DOMAIN @ |->
                           s.syms[CHOOSE i \in DOMAIN s.syms : NewIndex(s, i) = k]]]

\* Mutant: only the relocations to global symbols follow.
modify_reloctionsGlobals(rs, s) ==
    [k \in DOMAIN rs |-> IF s.syms[rs[k].sym].bind = "local" THEN rs[k]
                         ELSE [rs[k] EXCEPT !.sym = NewIndex(s, rs[k].sym)]]

modify_reloctions_old_to_new(rs, s) ==
    [k \in DOMAIN rs |-> [rs[k] EXCEPT !.sym = NewIndex(s, rs[k].sym)]]

------------------------------------------------------------------------------
Init ==
    /\ s1 = [syms |-> << >>, strs |-> << >>, hash |-> NewHash(1), nb_errors |-> 0,
             errors |-> {}, new_undef_sym |-> FALSE, once |-> FALSE]
    /\ relocs = << >>
    /\ file = Closed
    /\ phase = "files"
    /\ count = [inputs |-> 0, ops |-> 0, vals |-> 0]
    /\ seen = << >>
    /\ locals = {}
    /\ took = << >>
    /\ served = {}

MayStep  == count.inputs + count.ops < MaxSteps
MayStart == phase = "files" /\ ~file.open /\ count.inputs < MaxInputs /\ MayStep
MayPut   == file.open /\ MayStep

(* tcc_compile opens a source file.  Errors count from here for its result; the*)
(* caller of the library may go on whatever it is.                             *)
tccelf_begin_file ==
    /\ MayStart
    /\ file' = [Closed EXCEPT !.open = TRUE, !.sym = Len(s1.syms), !.str = Len(s1.strs),
                              !.rel = Len(relocs)]
    /\ s1' = [s1 EXCEPT !.hash.on = FALSE, !.nb_errors = 0]
    /\ count' = [count EXCEPT !.inputs = @ + 1]
    /\ served' = {}
    /\ UNCHANGED <<relocs, phase, seen, locals, took>>

(* A declaration without a definition: external_sym.  "static" has an effect   *)
(* only where it comes first.                                                  *)
external_sym(n, static, weak, vis) ==
    /\ MayPut
    /\ static => ~file.syms[n].known /\ ~weak /\ vis = "default"
    /\ weak \/ vis # "default" \/ static
    /\ LET y == [merge_symattr(file.syms[n], weak, vis) EXCEPT !.static = @ \/ static,
                                                                !.known = TRUE]
       IN  /\ y # file.syms[n]
           /\ file' = [file EXCEPT !.syms[n] = y]
           /\ s1' = update_storage(s1, y)
    /\ count' = [count EXCEPT !.ops = @ + 1]
    /\ UNCHANGED <<relocs, phase, seen, locals, took, served>>

(* Code or data refers to a name of file scope: greloca.                       *)
greloca(n) ==
    /\ MayPut
    /\ LET y == [file.syms[n] EXCEPT !.known = TRUE]
           r == IF y.c = 0 THEN put_extern_sym2(s1, y, n, "undef", 0) ELSE [s |-> s1, y |-> y]
       IN  /\ s1' = r.s
           /\ file' = [file EXCEPT !.syms[n] = r.y]
           /\ relocs' = put_elf_reloca(relocs, r.y.c, n, 0)
    /\ count' = [count EXCEPT !.ops = @ + 1]
    /\ UNCHANGED <<phase, seen, locals, took, served>>

(* A definition: of a function or an initialized variable ("data"), or a       *)
(* tentative one ("bss", with -fcommon "common").  A tentative definition of a *)
(* name that is defined changes nothing; a second one with contents is an      *)
(* error of the compiler (patch_type).                                         *)
decl_initializer_alloc(n, sec) ==
    /\ MayPut
    /\ file.syms[n].sec # "data"
    /\ ~(sec \in Reserved /\ file.syms[n].sec # "undef")
    /\ LET r == put_extern_sym2(s1, [file.syms[n] EXCEPT !.known = TRUE], n, sec, count.vals + 1)
       IN  s1' = r.s /\ file' = [file EXCEPT !.syms[n] = r.y]
    /\ count' = [count EXCEPT !.ops = @ + 1, !.vals = @ + 1]
    /\ UNCHANGED <<relocs, phase, seen, locals, took, served>>

(* A static variable of a block, used there: a symbol of its own of the name n.*)
static_local(n) ==
    /\ MayPut
    /\ LET r == put_extern_sym2(s1, [Sym0 EXCEPT !.static = TRUE], n, "data", count.vals + 1)
       IN  /\ s1' = r.s
           /\ relocs' = put_elf_reloca(relocs, r.y.c, n, count.vals + 1)
    /\ count' = [count EXCEPT !.ops = @ + 1, !.vals = @ + 1]
    /\ UNCHANGED <<file, phase, seen, locals, took, served>>

(* What the file's declarations say of its names.                              *)
Globals == {n \in Names : file.syms[n].c # 0
                            /\ ~(file.syms[n].static /\ file.syms[n].sec # "undef")}
Occurrence(n, y) ==
    [name |-> n, bind |-> IF y.weak /\ ~y.static THEN "weak" ELSE "global", vis |-> y.vis,
     sec |-> y.sec, val |-> y.val]

end_file ==
    /\ file.open
    /\ LET r == tccelf_end_file(s1, file)
       IN  s1' = r.s /\ relocs' = Retarget(relocs, file.sym, r.tr, file.rel)
    /\ file' = Closed
    /\ seen' = seen \o SetToSeq({Occurrence(n, file.syms[n]) : n \in Globals})
    /\ locals' = locals \union {<<count.inputs, n, file.syms[n].val>> :
                                  n \in {m \in Names \ Globals : file.syms[m].c # 0}}
    /\ UNCHANGED <<phase, count, took, served>>

Now == [s |-> s1, rs |-> relocs, val |-> count.vals, seen |-> seen, took |-> took]

(* The state after a load that began as l and serves the archives of a set.    *)
Becomes(l, archives) ==
    /\ s1' = l.s /\ relocs' = l.rs /\ seen' = l.seen /\ took' = l.took
    /\ count' = [count EXCEPT !.inputs = @ + 1, !.vals = l.val]
    /\ served' = archives
    /\ UNCHANGED <<file, phase, locals>>

load_object(f) == MayStart /\ Becomes(tcc_load_object_file(Now, f), {})
load_archive(a) == MayStart /\ Becomes(tcc_load_alacarte(Now, a), {a})
load_whole(a) == MayStart /\ Becomes(WholeFrom(Now, a, 1), {})
load_group(g) == MayStart /\ Becomes(ld_add_file_list(Now, g), Range(g))

MayLink == phase = "files" /\ ~file.open /\ count.inputs > 0

(* The tables as they are written.                                             *)
tcc_output_elf(s) == s1' = sort_syms(s) /\ relocs' = modify_reloctions_old_to_new(relocs, s)

(* tcc_output_file of a program or a library: only the errors of the link stop *)
(* it before the tables are written.                                           *)
link ==
    /\ MayLink
    /\ LET s == relocate_syms(LinkStart(s1))
       IN  \/ s.nb_errors # 0 /\ s1' = s /\ phase' = "failed" /\ UNCHANGED relocs
           \/ s.nb_errors = 0 /\ tcc_output_elf(s) /\ phase' = "linked"
    /\ UNCHANGED <<file, count, seen, locals, took, served>>

(* tcc_output_file of an object file: nothing is resolved.                     *)
elf_output_obj ==
    /\ MayLink
    /\ tcc_output_elf([s1 EXCEPT !.nb_errors = 0])
    /\ phase' = "object"
    /\ UNCHANGED <<file, count, seen, locals, took, served>>

Next ==
    \/ tccelf_begin_file \/ end_file \/ link \/ elf_output_obj
    \/ \E n \in Names :
          \/ \E static, weak \in BOOLEAN, vis \in {"default", "hidden"} :
                external_sym(n, static, weak, vis)
          \/ greloca(n) \/ static_local(n)
          \/ \E sec \in {"data", "bss", "common"} : decl_initializer_alloc(n, sec)
    \/ \E f \in Objects : load_object(f)
    \/ \E a \in Archives : load_archive(a) \/ load_whole(a)
    \/ \E g \in Groups : load_group(g)

Spec == Init /\ [][Next]_vars

------------------------------------------------------------------------------
Quiet == ~file.open

Entries(n) == {i \in DOMAIN s1.syms : s1.syms[i].bind # "local" /\ NameOf(s1, i) = n}

Plain(n) == ~HiddenAgain(seen, n) /\ ~VisibleUse(seen, n) /\ ~WeakUse(seen, n)

Placed(sec) == IF phase \in {"files", "object"} \/ sec # "common" THEN sec ELSE "bss"

Resolved(n) ==
    IF Of(seen, n) = {} THEN Entries(n) = {}
    ELSE /\ Cardinality(Entries(n)) = 1
         /\ Plain(n) => \A i \in Entries(n) :
              LET y == s1.syms[i]
              IN  IF Defs(seen, n) = {} THEN y.sec = "undef"
                  ELSE /\ y.val = Winner(seen, n).val
                       /\ y.sec = Placed(Winner(seen, n).sec)
                       /\ y.bind = Winner(seen, n).bind
                       /\ y.vis = MostConstraining(seen, n)

Reported(n) ==
    Plain(n) =>
        /\ <<"twice", n>> \in s1.errors <=> DefinedTwice(seen, n)
        /\ <<"undefined", n>> \in s1.errors <=> (phase = "failed" /\ Undefined(seen, n))

(* Between two files and after the link the table has one symbol for each      *)
(* global name that occurs, and it is the one that the rules choose among the  *)
(* occurrences of all the files, with the most constraining visibility; and    *)
(* exactly the names that are defined twice, and at the end those that are     *)
(* used and not defined, are reported; only the latter stop the link.  The     *)
(* three kinds of names of SymbolRules for which the order of the files decides*)
(* are left out.  About set_elf_sym, the merge of tccelf_end_file,             *)
(* relocate_syms, the hash that has to find every name, and nb_errors, which   *)
(* is not to count what was reported before the link.                          *)
RightDefinition ==
    /\ Quiet => \A n \in Names : Resolved(n) /\ Reported(n)
    /\ phase = "failed" <=> \E n \in Names : <<"undefined", n>> \in s1.errors

(* Through every merge and renumbering a relocation stays with the symbol its  *)
(* source means: a static one of its own file or block, which is local, or the *)
(* global one of its name; and in a table that is written every local symbol   *)
(* stands before every other.  About tccelf_end_file, tcc_load_object_file and *)
(* sort_syms.                                                                  *)
Means(r) ==
    LET y == s1.syms[r.sym]
        own == {l[3] : l \in {x \in locals : x[1] = r.want.input /\ x[2] = r.want.name}}
    IN  IF r.want.val # 0 THEN y.bind = "local" /\ y.val = r.want.val
        ELSE IF own # {} THEN y.bind = "local" /\ y.val \in own
        ELSE r.sym \in Entries(r.want.name)

RelocationsKept ==
    /\ Quiet => \A k \in DOMAIN relocs : Means(relocs[k])
    /\ phase \in {"linked", "object"} => \A i, j \in DOMAIN s1.syms :
          i < j /\ s1.syms[j].bind = "local" => s1.syms[i].bind = "local"

(* After an archive or a group of archives nothing is undefined that one of    *)
(* them defines, and no member was loaded twice.  About the loops of           *)
(* tcc_load_alacarte and ld_add_file_list, which are to go on exactly as long  *)
(* as there is something to load.                                              *)
ArchivesServe ==
    /\ \A a \in served : \A p \in DOMAIN Index(a) :
          Index(a)[p].listed => ~Lacks(s1, Index(a)[p].name)
    /\ \A j, k \in DOMAIN took : took[j] = took[k] => j = k
==============================================================================
