# TCC for RISC-V and WebAssembly: a TLA+ verification project

The repository is the Tiny C Compiler with RISC-V code generators, built for 64-bit RISC-V
(`TCC_TARGET_RISCV64`) by Zig into a WebAssembly module that compiles C in a browser
(`src/zig/build.sh`). This directory holds TLA+ models of its core, configurations to check
them with TLC, and theorems that TLAPS checks. Paths below are relative to the repository;
line numbers are in `PROJECT.json` ("map"), definition by definition.

- [The system](#the-system)
- [Modules](#modules)
- [Runs](#runs)
- [What is proved](#what-is-proved)
- [What the code gets wrong](#what-the-code-gets-wrong)
- [Not modelled](#not-modelled)
- [Plan](#plan)

## The system

A compilation is one pass: the preprocessor gives a token, the parser reads a declaration or a
statement and generates its code at once, through the value stack and the code generator of
the target; sections and symbols collect in memory; the linker relocates them and writes the
file. Nothing is kept of a function but its code, so what the parser must know later it threads
through that code (chains of unfinished jumps), through its own C stack (the locals of
`block()`), or through global variables. That makes the hard behaviours of this program:

- **Global state, one compilation at a time.** The parser and the generator are global
  variables of the process. `tcc_compile_sem` serialises their use among threads, and error
  reporting from outside a compilation has to take it too.
- **State threaded through a long sequence of legal calls.** The value stack, the symbol
  stacks, the chains of jumps, the scopes with cleanups, `nocode_wanted`: each is changed by
  dozens of places, and what one place leaves behind is used much later by another.
- **Numeric edges.** Instruction immediates of 9 to 32 bits, signed halves of addresses,
  constants of 64 bits made of four parts, offsets of arguments.
- **Order of inputs.** Files are included from anywhere, object files and archives come in any
  order, and each is merged into what is there when it comes.
- **Callbacks.** The page starts compilations from clicks, fetches and frames that interleave.
- **Threads of the compiled program** enter the bounds checker, whose lock exists only once there
  is a second thread.

| Component | State | Operations | Interaction | What must hold |
|---|---|---|---|---|
| Library lock and error reporting (`libtcc.c`) | `tcc_compile_sem`, `tcc_state`, `file`, per state `error_set_jmp_enabled`, `nb_errors`, `warn_num` | `wait_sem`, `post_sem`, `tcc_enter_state`, `tcc_exit_state`, `tcc_compile`, `error1`, `tcc_open_bf`, `tcc_close` | every call of the library; every diagnostic | mutual exclusion, clean globals behind every exit, own errors only, who waits gets in |
| Symbol tables (`tccgen.c`) | `local_stack`, `global_stack`, `table_ident[]` chains, free list | `sym_push`, `global_identifier_push`, `sym_copy`, `sym_pop`, scopes | parser pushes, debug info and code generator keep pointers | the chains implement C's scopes; no symbol is lost or freed twice |
| Value stack (`tccgen.c`) | `vstack`, temporary locals, `nocode_wanted` | `gv`, `gv2`, `save_reg`, `get_reg`, `vstore`, `gv_dup`, `gen_op`, `gfunc_call` | expressions, down to the generator | each entry says where its value is |
| Statements and jumps (`tccgen.c`) | chains, `cur_scope`, `cur_switch`, labels, `pending_gotos`, `CODE_OFF` | `block`, `gsym`, `gjmp`, `gvtst`, `expr_landor`, `expr_cond`, `try_call_cleanup_goto` | value stack (VT_CMP, VT_JMP), symbol tables (labels, cleanups) | the code does what the source says, whatever the conditions |
| Code generator (`riscv64-gen.c`) | `ind`, `loc`, `num_va_regs` | `load`, `store`, prologue, epilogue, calls | value stack, relocations | right constants and addresses; the frame; registers of others |
| Relocation (`riscv64-link.c`) | sections, `last_hi` | `relocate`, `relocate_plt`, `create_plt_entry` | symbols and the GOT of `tccelf.c` | each instruction reaches its symbol, or an error |
| Calling convention (`riscv64-gen.c`, `include/tccdefs.h`) | registers and stack words given out so far, `func_va_list_ofs` | `reg_pass`, `gfunc_call`, `gfunc_prolog`, `va_start`, `va_arg` | caller and callee meet only in the running program | the callee finds what the caller passed, where the psABI has it |
| Declarations of structs (`tccgen.c`) | the fields so far, offset, bit position, alignment | `struct_decl`, `struct_layout`; accesses to bit-fields in `gv`, `vstore` | attributes and pragmas in; types for calls, initializers, accesses | members are where other compilers have them; bit-fields are accessed there |
| Initializers (`tccgen.c`) | the lists that are open, `cur_field`, the length so far, DIF_CLEAR, relocations of the section | `decl_initializer_alloc`, `decl_initializer`, `decl_designator`, `init_putv` | types in; relocations to the linker, stores through the value stack | an object has the values and the length that C gives it, in whatever order its elements come |
| Preprocessor (`tccpp.c`) | `ifdef_stack`, `include_stack`, `tok_flags`, `define_stack`, include cache | `preprocess`, `preprocess_skip`, `parse_include`, `next_nomacro1`, `pragma_parse`, `macro_subst`, `macro_arg_subst`, `macro_twosharps` | pulls files, feeds the parser | a translation unit is what its directives and macros say; what is cached as a guard is one |
| ELF (`tccelf.c`) | `.symtab`, `.strtab`, hash table, relocations | `set_elf_sym`, `tccelf_begin_file`, `tccelf_end_file`, `tcc_load_object_file`, `tcc_load_alacarte`, `relocate_syms`, `sort_syms` | code generator puts symbols and relocations, linker merges files | binding and visibility rules in every order of files; relocations keep their symbols |
| GOT, PLT and dynamic binding (`tccelf.c`) | the GOT, the PLT, `sym_attr` of each symbol, `.dynsym` | `bind_exe_dynsyms`, `build_got_entries`, `put_got_entry`, `export_global_syms`, `relocate_syms` | symbols and relocations in; relocations redirected, some left to the loader | whatever the kind of output, each reference reaches its symbol |
| In-memory execution (`tccrun.c`) | of each state the memory it runs in, `sh_addr` of its sections; the access of the pages | `tcc_relocate`, `tcc_relocate_ex`, `tcc_delete`, `tcc_run` | sections; other states and malloc on the same heap | the size of one pass is enough for the next; a page has the access of what is in it |
| WebAssembly page and C library (`docs/tcc.js`, `zig/tcc-wasm.zig`) | `wasm.instance`; of each instance `read_buf`, `write_buf`; `elf_data` in local storage | `bootstrap`, `main`, `compile_program`, `read`, `fputc`, `fwrite` | button, fetches, frames; tcc's `main` | what is stored is what the page showed, compiled; no click is lost |
| Bounds checker (`lib/bcheck.c`) | splay tree of regions, spin lock, freed blocks, `jmp_list` | hooks of malloc, free, realloc, functions with arrays, setjmp, longjmp, pointers | threads of a compiled program | the tree has the regions the program holds; accesses are judged by them |
| Coverage run time (`lib/tcov.c`) | counters | file merge | compiled programs | counters add up |

`PROJECT.json` lists the components that are not modelled as well, and under "hazards" each
place where one of these behaviours can go wrong, with the properties aimed at it.

## Modules

| Module | Models | Composition |
|---|---|---|
| `CompileLock` | lock, states and error reporting of `libtcc.c` | theorems in `CompileLockProofs` |
| `Scopes` | abstract: what a C scope promises | implemented by `SymStack` |
| `SymStack` | the symbol stacks of `tccgen.c` | `INSTANCE Scopes` with a refinement mapping; theorems in `SymStackProofs` |
| `ValueStack` | `vstack` and registers | theorems in `ValueStackProofs` |
| `Jumps` | `block()`, chains, suppression, gotos, cleanups | the abstract program is a flow graph that the module builds beside the code |
| `RiscvFrame` | constants, memory access and frames of `riscv64-gen.c`, run by a processor | `Words`; theorems in `RiscvFrameProofs` |
| `RiscvLink` | `riscv64-link.c` | `Words`, `RiscvIsa`; theorems in `RiscvLinkProofs` |
| `Words` | machine words as sets of bits | theorems in `WordsProofs` |
| `RiscvIsa` | external: how the processor reads immediates | `Words` |
| `Directives` | abstract: what the C standard says a translation unit is | what `Preproc` is compared with |
| `Expansion` | abstract: macro expansion as the C standard explains it, with hide sets | used by `Directives` |
| `MacroSubst` | macro expansion of `tccpp.c`: nested names, arguments, `#` and `##` | used by `Preproc` |
| `Preproc` | conditionals, included files, the include cache, macro definitions of `tccpp.c` | `INSTANCE Directives` |
| `RiscvAbi` | abstract: where the RISC-V psABI (LP64D) has an argument | what `RiscvCalls` is compared with |
| `RiscvCalls` | the assignment of arguments in `riscv64-gen.c`, `va_start`, `va_arg` | `RiscvAbi` |
| `LayoutRules` | abstract: where the members of a struct are, by the psABI and GCC | what `StructLayout` is compared with |
| `StructLayout` | `struct_layout`, the members in `struct_decl`, accesses to bit-fields | `LayoutRules`; `MCAbi` composes it with `RiscvCalls` |
| `InitRules` | abstract: what a list of initializers means, by 6.7.9 of the C standard | what `Initializers` is compared with |
| `Initializers` | `decl_initializer` and what it calls | `InitRules`; `MCImage` composes it with `RiscvFrame`, `RiscvLink` and `RunMemory` |
| `SymbolRules` | abstract: what a link has to make of the symbols of its files | what `ElfSymbols` is compared with |
| `ElfSymbols` | symbols, files and archives in `tccelf.c` | `SymbolRules` |
| `GotPlt` | entries of GOT and PLT, dynamic symbols in `tccelf.c` | beside `ElfSymbols` in `MCElfSymbols`; theorem in `ImageProofs` |
| `SplayTree` | the tree of `lib/bcheck.c` and the judgement of pointers | |
| `Bcheck` | `lib/bcheck.c` under threads | `SplayTree` |
| `RunMemory` | `tcc_relocate` and `tcc_delete` in `tccrun.c` | theorems in `ImageProofs` |
| `WasmPage` | `docs/tcc.js` and the buffers of `zig/tcc-wasm.zig` | theorems in `WasmPageProofs` |

Each has an `MC...` module that gives its constants their small values (`MCAbi` those of `RiscvCalls` and `StructLayout`, `MCImage` those of `RiscvLink` and `RunMemory`).
`MCImage` puts `RiscvFrame`, `RiscvLink`, `Initializers` and `RunMemory` side by side: the code of a function, the contents of
an object, the relocation of either, and the memory they run in, four parts of the image of one unit. They share no
variable; a behaviour is of one of them.

### CompileLock

One thread owns one `TCCState`; both are called t. `pc[t]` names the place in the call. The
steps are those that another thread can see: the test, `sem_init` and assignment to `init` of
`wait_sem` are three, `sem_wait` is one, `tcc_state = s1` is another, and so on through
`tcc_compile` (set jump, open file, parse, finish, close all files, `tcc_exit_state`'s two
steps) and `error1` (take `s1` from `tcc_state`, and outside a compilation leave and post
*before* filtering and reporting). In this repository `setjmp` returns 0 and `longjmp` is
`exit(1)`, so a fatal error in a compilation ends the process (`exitedBy`). A compilation is a
sequence of at most `MaxBody` includes and diagnostics (`fuel`), which is what can touch the
modelled state. `MallocFailure` is the allocation that fails, in a compilation or outside
one: it takes no lock and reports through whatever state `tcc_state` holds. `tcc_split_path` (`ptr`) is the one reader of `file`
that takes no lock.

Three initial situations: `Spec` starts with the semaphore in static storage (its value 0,
`init` 0), `WarmSpec` with one initialised by an earlier call, and the run's `StartedSpec` goes
from the first to the second: the process starts other threads once its semaphore is
initialised.

### Scopes and SymStack

`Scopes` has a stack of scopes, each a map from names to declarations, and `visible`, what each
name stands for. `SymStack` has tcc's two lists, the chains through `prev_tok`, and the free
list; its actions are declarations and braces, each with every table operation the parser makes
for it (`External`, for instance, is `external_sym`: find, `global_identifier_push`,
patch, and the local copy). `ImplementsScopes` says that `head[v]` is at every moment what the
language's scopes say. The mapping takes the scopes from the
history variable `scopes` and `visible` from the
heads of the chains, `table_ident[v]->sym_identifier`. A symbol tag in the first parameter of a prototype is a `Declare` followed by
a `Prototype`; `EndUnit` stands for `tccgen_finish`, which runs after errors too.

### ValueStack

The module executes the emitted code as it is emitted: `reg` and `mem` hold symbolic words
`<<id, d, w>>` (word w of what d dereferences of the pointer id give), and each entry carries
the value v that the program means. `ValuesHeld` compares the two, so it fails as soon as
`save_reg`, `get_reg`, `gv`, `vstore` or a call forgets an entry. Stores make memory symbolic:
what a pointer points to is named by the pointer, and a program that reads through an alias is
not distinguished. All one-word temporaries have one size class. `Widths` says whether values have one word or two:
`{TRUE, FALSE}` in the run, both; `{FALSE}` is a program of integers and pointers.

### Jumps

An action parses one statement up to its substatement, or the end of one, and does to `gen`
(code, `CODE_OFF`, `nocode_wanted`, `vtop`), to the frames of `block()`, to scopes, labels and
pending gotos everything the code does. Expressions are the recursive operator
`expr_infix`, over `Landor`, `expr_cond`, `gvtst` and `gv`. Beside it `ref` is the flow graph of the
same program made the textbook way, with a node for each event and no chains, patching or
suppression. In phase "run" the processor executes the code and the graph is walked along with
it; each outcome of a condition is chosen once for both. `FollowsSource` demands the same next
event of both: call, declaration, cleanup, stored value, end.

`Allowed` admits constructs that tcc compiles wrongly ([below](#what-the-code-gets-wrong)); in
the passing run it is empty, so the module says exactly where the code is right.

Abstracted: a conditional jump is one instruction (the processor has a branch over a jump);
addresses count instructions; return values are not modelled; a switch has at most the cases 0,
1 and default, compared one after the other.

### RiscvFrame and RiscvLink

Words are sets of bits, so 64-bit arithmetic is exact and cheap for TLC. `RiscvFrame` has a
processor for the fifteen or so instructions that `load`, `store`, `load_large_constant`,
prologue and epilogue emit; an action is one call of the generator with the run of what it
emits. `RiscvLink` relocates slots of two words at exact addresses; `RiscvIsa` is
written from the processor's immediate formats, not from the code, and `ReachesTarget` uses it
to read the instruction back. The slots of data (`Datum`) hold pointers of 32 and 64 bits and
differences (`R_RISCV_ADD*`, `SUB*`, `SET*`), each emitted with the relocations its field needs; in dynamic
output (`Dynamic`) the code leaves some of them to the loader, rewriting the list of
relocations in place (`qrel`), and `Load` is the loader: it puts the image at `Base`, with the symbols of other
objects at `Elsewhere`. `ReachesTarget` then speaks of what the word is in the running program. Slots of the PLT
are read back in the same way.

### Directives and Preproc

A file is a sequence of lines, each chosen when it is first read; a later inclusion reads the
same lines. `Preproc` reads them as tcc does: `preprocess` on a line that begins with `#`,
`preprocess_skip` where a group is skipped (one step for each line, with `a`, the nesting in the
skipped text), the end of a file (in `next_nomacro1`, or in the middle of skipping, which is an
error), and the cache: `tok_flags` knows that a file begins or that the last thing was the
`#endif` of a guard, `ifndef_macro` and `ifndef_macro_saved` remember the guard, and
`search_cached_include` skips a file for it. `ifdef_stack` is one stack for all files with a mark
where each begins. A text line stands for all the text up to the next directive; what it expands to is
delivered with the macros it was read under, so that `out` shows both what was read and in which
state. `Directives` computes the same from the lines alone,
recursively and without a cache; `MeansSource` compares output, macros and errors, and
`GuardsGuard` demands of each cached guard that the file does nothing when it is defined.

`MacroSubst` is the expansion of such a text, as operators on one state: the streams that
`begin_macro` and `end_macro` stack, `nested_list`, and the result. tcc marks a name with
`TOK_NOSUBST` where it meets it in its own expansion. The arguments of a call may begin in one
expansion and end outside of it, in another or in the file; `next_argstream` then ends the streams
and the scopes of their names, and the calls of `macro_subst` that opened them find, when they are
returned to, that their stream is gone (`Resumed`). `macro_arg_subst` replaces parameters, with
`TOK_PLCHLDR` for an empty argument, and `macro_twosharps` joins. `Expansion` does none of this: there
each token carries the names it may no longer be expanded by, a call's result loses what is not
common to its name and its `)`, and arguments are found by counting parentheses.
`MeansSource` compares the two, and errors, in the family `Expansions` of `MCPreproc`: any two or
three definitions of `G` and `H` from 19 replacement lists, and 15 texts. What the standard leaves undefined
(a `##` that does not give a token) is not compared.

### RiscvAbi and RiscvCalls

A step passes one more argument. `caller` has the variables of `gfunc_call` (registers given out,
the area of the stack, what is on it), `callee` those of `gfunc_prolog` (which count registers
differently), `ap` and `fetched` what `va_start` and `va_arg` make of it, and `abi` what the
psABI says. `reg_pass` classifies a type by recursion over its members. An argument is then a
function from its bytes to places; `ValuesArrive` says that the byte a parameter (or `va_arg`)
reads is the byte the caller stored there, for every byte. `ToStack` is the second loop of
`gfunc_call`, which fills the area whose size the first has computed (`InsideArea`). Arguments
that the code is known to pass wrongly have a name in `Known`; `Deviations` admits them, and in
the run it is empty.

`Return` is the end of a call: `gfunc_return` puts the value, which is in a local or a global
variable or behind a pointer, into the registers that `gfunc_sret` says (or `arch_transfer_ret_regs`,
when they are of two kinds), and the caller stores them in a room it takes below `loc`. What it gets
does not depend on the arguments, so only calls without further ones return.

### LayoutRules and StructLayout

A step declares one more member: `Field` is the symbol that `struct_decl` makes of it (or `tcc_error`),
and `struct_layout` the part of the loop for it, with the loop's variables in `lay`; `CloseUnit` is what
follows the loop. The two loops go side by side, which is possible because the second only needs
from the first what it has made of the members so far, and the attributes behind the closing brace, which `unit`
has from the start (`late`). `rules` places the same members by the rules, which count bits from the start of the
struct where the code has an offset, a bit position and a base that move. `LayoutFollowsRules` compares the
two. `gv` and `vstore` are then executed symbolically: a word is a sequence of bits, each of
which says where it comes from, and shifts and masks move them. `AccessesRight` says that the value has the bits of the
field and the store puts them back, neither touching anything outside of the struct.
Declarations that the code is known to lay out in another way have a name in `Irregular`.

`MCAbi` puts the two modules together: a unit of source declares a struct or makes a call, and the structs
that calls pass are laid out by the operators of `StructLayout`. Both say what other compilers have to agree with.

### InitRules and Initializers

The invocations of `decl_initializer` that are in their loop are `frames`; `elem` is the call that is due, with the
flags as fields. An object of unknown length is read twice: the tokens are chosen in the first pass (`pass` "size") and
read again in the second, which writes. `data` is the object bit by bit, each bit with the initializer it is from;
`data_relocs` its relocations in their order, which `decl_design_delrels` deletes from and the copies of a range add to.
`Item` is `decl_designator` up to the call of `decl_initializer`, `Return` and `Closed` are its end, with the copies, and the end of the loop of the list
it is in. `InitRules` goes through the same tokens with the standard in hand: a list has a base and what comes next, a
subobject is a path, and braces that are left out are found from the path alone (`Within`, `NextPath`); it has no
`cur_field`, no lengths and no second pass. `InitializersRight` compares the object as it is when it is linked, the length,
and the errors.

Where the code departs from the rules, `Deviates` says so, in terms of the list and the tokens so far, and the run takes
another initializer there (`Liberties = {}`). It is also a list of what a programmer has to avoid
([below](#what-the-code-gets-wrong)).

### SymbolRules and ElfSymbols

`s1` is the linker's symbol table: symbols, strings and the hash table with its chains, which
`put_elf_sym` rebuilds when it is full. A source file is compiled declaration by declaration
(`external_sym`, `greloca`, `decl_initializer_alloc`, `static_local`), with the hash switched off
as `tccelf_begin_file` does, and merged by `end_file`; object files and archives are loaded in one
step. `file` has the file's own symbols as the parser keeps them (`put_extern_sym2`,
`update_storage`). `seen` records what each file said of each name, and `SymbolRules` says from that set alone
which definition a name has. `Verdict` is the table of cases of `set_elf_sym`. Each relocation
carries what its source meant (`want`), which `RelocationsKept` compares with the symbol it has
after the merges of `tccelf_end_file` and the final sorting. `nb_errors` is the code's counter with its resets: `tcc_compile`
and `tcc_output_file` start it from 0, so what was reported while files were added (a symbol defined twice) does not stop `link`, and only a name
that is not defined does; `errors` is the history of all reports. `link` is `elf_output_file`, `elf_output_obj` the output of an object
file, which resolves nothing. (`tcc_relocate_ex` resets and checks as `link` does, and does not sort.) A file that is added may fail and the caller
go on, as a user of the library can; `tcc.c` stops there if it was a source file, for which `tcc_compile` returns -1. The libraries that
`tcc_add_runtime` adds behind the reset are not modelled as such: a definition that one of them repeats would stop the link. Definitions are told apart by `val`,
a number that is used once.

### GotPlt

`Refer` puts a relocation of one of the four types that the code generator and object files use, to one of a few symbols of
which `symbols` says where and how they are defined. What follows is `elf_output_file` (or `tcc_relocate_ex`) in its order:
`bind_exe_dynsyms`, `Visit` for each relocation in each of the two passes of `build_got_entries`, `export_global_syms`,
`ResolveSymbols` (`relocate_syms`), `relocate_sections`, and `Load`, the dynamic loader. `got` and `plt` have what each entry is for,
`attr` and `dyn` are `plt_offset`, `got_offset` and the dynamic symbol of `sym_attr`; an address says what it is of. `ReferencesRight`
follows each reference to its end, through the PLT and the slot it jumps by, and compares that with what the definitions alone say.

### SplayTree and Bcheck

`SplayTree` has Sleator's top-down splay as the code has it, for a start address and for the end
of a region, insertion, deletion, and the judgement of a pointer. In `Bcheck` an operation of a
thread has up to three steps: what it does outside the lock (`malloc` gets its block from the
allocator, `realloc` gives one back), `WAIT_SEM`, and the locked part, which works on the tree as
it was when the lock was taken and leaves by `POST_SEM`. A thread that enters while `use_sem` is
not set takes no lock and can be overtaken by a `pthread_create` of its own only, since it is the
only thread; the model has that order and `RegionsKnown` fails when the lock is not waited for. While checking is off a thread's operations
leave the tree and `jmp_list` alone: `malloc`, calls, `setjmp` and `longjmp` happen and are not recorded. The history variables `blocks` and `live` say what the
program holds. Freed blocks wait in `free_reuse_list`, marked invalid.

### RunMemory

Addresses count a unit of bytes, of which a page has four in the run. The sections of a state are those that are
allocated, in the order of the three rounds of `tcc_relocate_ex` (code, read-only data, data); what they hold is the
subject of `RiscvLink`. `Place` is the body of the loop over the sections, in the first pass (`progress` "size", from address 0)
and in the second ("place", from where `Malloc` found room, or the caller of `tcc_relocate` did); `CopyRound` is a round of
the third time through the loop, with its call of `set_pages_executable`; `Delete` is `tcc_run_free`. The states share the
heap and the pages, and their steps interleave. `sized`, which no action reads, remembers the offsets of the first pass
for the proof.

### WasmPage

A click (`Click`) runs `bootstrap` up to its `await`; the fetch is answered later, in any order
(`Instantiated`) or never well (`FetchFails`); then a frame calls `main` (`Frame`), and if two clicks
wait for the same frame, both of their mains in a row. `main` reads the boxes and `wasm.instance` as
they are then, not as they were at the click. From there on the script is busy, so that `Step`
follows tcc through the C library: `read` gives the whole text once and nothing afterwards,
whichever file was opened; `fwrite` appends to `write_buf`, whichever file is written; `exit`, a failed
assertion and the end of a buffer are exceptions, which end `main` and leave the instance as it is. A
text is a model value with a size, a number of writes and a fate. `StoredIsOutput` says that `elf_data`
is the object of the program that `main` took from the boxes, and in the end of the one they
show.

## Runs

| Run | Expect | Shows |
|---|---|---|
| `lock_started` | pass | The lock excludes; the globals belong to the compilation that runs and are clean when the lock is free; the result of `tcc_compile` counts its own errors only; a warning's option does not outlive it; a waiting thread gets in (liveness). |
| `lock_split` | violation | `tcc_split_path` reads a file that another thread has freed. |
| `sym_scopes` | pass | `SymStack` implements `Scopes`; no symbol is lost or freed twice; chains end and run through live symbols. |
| `image_units` | pass | Code: constants, addresses and frames are right, the assertions about immediates hold; the caller gets its registers back. Relocations: what is relocated reaches its symbol, at link time or when it is loaded, the PLT its GOT slots, and data have the pointers and differences they name; what is refused could not be linked; operations and registers of instructions stay. Data: an initialized object has the values and the length that C gives it. Memory: the size of the first pass of `tcc_relocate` is enough at every address, and every page has the access of what is in it, while other states come and go. |
| `initializers_order` | violation | Elements that are designated one by one, in any order, do not keep their addresses. |
| `vstack_values` | pass | Every entry's value is where the entry says, and operations, calls and stores get the right words. |
| `jumps_flow` | pass | The code makes the events of the source in its order; every unfinished jump is in exactly one chain; suppressed code is unreachable; each cleanup is made once. |
| `pp_files` | pass | A translation unit has the tokens, macros and errors its directives and macro calls mean, with the include cache; what the cache takes for a guard is one. |
| `calls` | pass | The callee, and `va_arg`, find every byte of every argument; the stack arguments fit their area; all are where the psABI has them. A result arrives too, and overwrites no local of the caller. Members of structs are where the psABI and GCC have them, and bit-fields are read and written there. |
| `elf_links` | pass | Each name gets the definition the rules choose, whatever the order of the files; relocations keep their symbols; archives are searched exactly as long as they serve. In each of the five kinds of output, every reference reaches its symbol, by itself, by a slot of the GOT, by the PLT, or by the loader, and what cannot is reported. |
| `bcheck_regions` | pass | The tree of regions is what the program holds, whatever its threads do; pointers are judged by it. |
| `wasm_clicks` | pass | What the page stores is the whole object of one program that it showed, however clicks, fetches, edits and frames interleave; every click is answered (liveness). |

**Bounds.** They are what the interesting cases need, one more where that is affordable:

- `lock_started`: two threads, two calls each (the second call meets what the first left
  behind), two includes or diagnostics per compilation (an error in an included file needs
  both). Sixteen settings of the warning options. Allocation failures while the process has one
  thread: that is when they reach an uninitialised semaphore.
- `sym_scopes`: two names, interchangeable (symmetry over `Names` only; the checked refinement
  is a safety property), seven symbols, three nested blocks: a name hidden twice, and a chain
  out of which a middle symbol is taken.
- `image_units`, relocations: one relocation at both ends of the reach of 9, 12, 13, 21, 22 and 33 bits,
  each with its neighbours and with both signs; instruction words clean and all ones; up to four
  halves of accesses to two symbols in any order; pointers and differences with several addends, in
  executables and in shared objects, two
  relocations and three.
- `image_units`, code: constants with every combination of runs of bits at the borders of the parts
  a constant is loaded in (12, 20, 32, 43 bits); eight frame sizes around the 2 KiB where the
  prologue changes form and up to 70 KB, with 0, 1, 7, 8 variadic registers, two accesses.
- `image_units`, data: objects of 13 types (structs in structs and in arrays, arrays of arrays, strings, bit-fields with unnamed ones between
  and behind them, an unnamed struct, a union with a pointer, a packed pointer behind a bit-field, three objects of unknown
  length), in a section and on the stack; up to five initializers, of seven kinds of expressions, and braces. Four are one to fill, one to override
  it, and one behind that; five fill a whole array of arrays without its inner braces.
- `image_units`, memory: two states, so that one has a neighbour on either side, with two to five sections in two or three
  rounds, rounds without a byte among them; alignments of half a page to two pages; any address, so that a
  block begins and ends anywhere in a page.
- `vstack_values`: three registers, the fewest that a two-word store by pointer needs, so that
  every third value forces a save; one temporary variable that is reused; three entries; in
  three profiles (one-word values; long doubles; operands of `sizeof`), each explored to its
  end.
- `jumps_flow`: about 37 000 programs in five profiles: all conditions of two operators, and of
  three levels with `&&`, `||`, `!`, `?:` over comparisons, calls, constants and calls that do not return;
  three nested loops with break, continue, return and cleanups; switch in loops and loops in
  switches; gotos forward and backward, in and out of scopes, to two labels. Six or seven
  statements are what it takes to jump from an inner scope, over a declaration, to a label that
  another goto waits for.
- `pp_files`: five families of programs, each explored to its end, with up to seven chosen lines
  over a source file and two headers (five for the macros): a guard of two lines with text before,
  between and behind it, included twice from two places and under a changed name; an `#else` in a
  header for an `#if` outside; `#pragma once` in headers that include each other; definitions
  pushed, undefined, redefined and popped; two macros that expand to each other and to themselves,
  with and without arguments, variadic, with `#`, `##` and calls that leave their expansion (three
  levels of calls behind each other is what a name needs to come back to its own expansion). Three included files and four open conditionals, so
  that both stacks meet their limits.
- `calls`: twenty-two types, every basic one and each kind of struct `reg_pass` distinguishes, three
  in a row, behind seven pairs of 0, 6, 7 or 8 integer and 0, 6 or 7 floating-point registers already taken,
  named or variadic: the last registers and the first stack words are where caller and callee can disagree.
  Results of each type, from each place, for callers whose frames end at multiples of 8, of 4, of 2 and of 1.
  Structs of up to three of twenty-five members, in nine units (struct, union, packed before or behind, aligned,
  three values of `#pragma pack`): a bit-field with one before it, which decides where it begins,
  and one behind it, or the end of the struct, which decides how it is accessed.
- `elf_links`: three names of which two or all share a bucket of the hash table (it grows from one to
  two buckets and more on the way), up to three inputs and five steps in all; object files that define one name
  in every way, a hidden definition, link-once sections; an archive that takes three passes, one
  with two members for a name, two archives that need each other in a group.
- `elf_links`, references: one symbol of every kind (27: defined, absolute or undefined; bindings, types, and the type it has in a
  library), and 28 pairs of seven kinds, so that entries are not by chance those of another symbol; three references, one
  of each of the ways in which one can change what becomes of another (it makes an entry, a dynamic symbol, or comes before or behind it).
- `bcheck_regions`, programs with a heap: two threads, the second created at any moment; three chunks of memory and one
  place for freed blocks, so that addresses come back; two nested functions, two `jmp_buf`s,
  five operations in all (`HeapOps`): a race needs two, and a block that is allocated, freed, pushed out by
  another and allocated again four. Programs without a heap: one thread, nine operations (`MaxOps`), of calls, jumps and
  `__bounds_checking`: to set a `jmp_buf` with checking off, in a function under whose calls it is used with checking on, takes six.
- `wasm_clicks`: two clicks (an instance is shared by the mains of two of them), no, one or two source files,
  texts of every fate around the sizes of both buffers.

**Deadlock** is checked for `CompileLock` (`Ended` stutters where the process is over). The
other models are bounded in what their programs do, and the sequential ones end, so `CHECK_DEADLOCK FALSE` is set.

**Fairness.** `lock_started` and `wasm_clicks` have a liveness property. In `CompileLock`, each thread that is in a call takes
its next step (`WF` of `Step(t)`), which is what a preemptive scheduler gives; no fairness is
assumed for making calls, nor strong fairness of the semaphore: calls are bounded, so each
holder finally leaves. A thread that calls for ever could starve another; POSIX semaphores
promise nothing about that. In `WasmPage` the browser answers each fetch, with a module or an error,
shows the page again, and runs a script to its end; a compilation is finite. The user does
nothing by fairness.

**Mutants.** For every property of every passing run, `PROJECT.json` names a change to the
code's model (a walk left out, a counter not reset, a rounding dropped) under which TLC finds
that property violated. The mutated operators stand before the originals in their modules.

## What is proved

`CompileLockProofs` proves for any set of threads, any number of calls and any length of
compilations, for a process that is past its first call and whose allocations do not fail
(`ASSUME ~MallocFails`, specification `WarmSpec`), and under the assumptions on the constants
that `CompileLock` names:

| Theorem | Property |
|---|---|
| `AllCorrect` | the inductive invariant `AllInv` |
| `TypeCorrect` | `TypeOK` (no run checks it besides) |
| `ExclusionCorrect` | `MutualExclusion` |
| `GlobalsCorrect` | `GlobalsOwned` |
| `CleanCorrect` | `CleanWhenFree` |
| `ResultCorrect` | `ResultMatchesErrors` |
| `WarnOptionCorrect` | `WarnOptionConsumed` |

Mutual exclusion is not inductive. The invariant needs, and why:

- `SemInv`: the semaphore is 1 exactly when nobody is inside. From it `sem_wait` excludes.
- `JmpInv`: `error_set_jmp_enabled` is set exactly where the parser may run. `error1` decides
  by it whether to give the lock up; were it wrong, a diagnostic of the parser would let
  another thread in.
- `StateInv`: `tcc_state` is the thread inside. `error1` takes the state whose flag it tests
  from `tcc_state`, so `JmpInv` alone does not say which flag it tests.
- `NoOom`: no report that takes no lock of its own.
- `FileInv` (the open files are the parsing thread's), `WarnInv`, `CountInv` (`nb_errors` is
  the number of errors since `tcc_compile` began): what the three other properties rest on.

The proof has one lemma per conjunct group, each with one step per action: `TypeStep`,
`LockStep`, `FileStep`, `WarnStep`, `CountStep`; `NextAll` combines them, `InitAll` starts them.

`RiscvLinkProofs` proves for any program, any addresses and symbols of 64 bits and any number of
relocations (assumptions `ProgramAssumption`, `WordAssumption` and `DynamicAssumption` of `RiscvLink`, and
`SectionAssumption`: a section is shorter than 2 GiB, and no relocation is at address 0, which is what an empty
`last_hi` has):

| Theorem | Property |
|---|---|
| `LinkCorrect` | the inductive invariant `LinkInv` |
| `ImmediatesCorrect` | `OnlyImmediates` |
| `ReasonCorrect` | the inductive invariant `ReasonInv` |
| `ReasonsGiven` | `FailsWithReason` |
| `TargetsReached` | `ReachesTarget`, where `NoGap` holds |

A step of `relocate` writes to `r.at`, and what it may change there is the field of the relocation
that has the slot for its own. So `LinkInv` has `InPlace`: a relocation has its own slot, or it is the second of a
difference and as wide as the first (`SameField`). The loader writes 64 bits, so each
relocation that remains has to be that of a pointer. Every action that adds relocations is an instance of `Grow`.

`ReasonInv` says what the relocations ask for (`Written`: a low half has the label of a high half, a difference shares a slot),
that the datum a relocation adds to is still zero, that `last_hi` is a high half that is done, and the last relocation if
that is one (`LastHiRight`), and that the relocation after a failure does not fit (`FailedRight`). What does not fit is
out of reach (`NoFitNoReach`), although the tests compare unsigned numbers: `FitsIs` says which bits such a comparison looks at.

`ReachInv` adds that what is relocated has its effect (`Done`), that the first half of a difference is there (`AddDone`), what the
loader has left to do (`RemainsRight`), and that the PLT fits (`PltRight`). It rests on three facts. What the processor
reads from the pieces of an immediate is the offset, one lemma for each format (`BranchReads` to `LowerReads`). An offset
leads from the instruction to the symbol, and so do its rounded upper half and its signed lower half (`OffsetLeads`).
And a low half follows its high half, or it does not fit (`LastHiIs`). `NoGap` excludes the distances that the tests of the code
let pass and the immediates do not hold: 1 to 2 MiB for `R_RISCV_JAL`, 2 to 4 GiB for a high half or an entry of the PLT
(with them the theorem is false, in the code and in the model; [the range tests](#what-the-code-gets-wrong)), and calls, which the code
does not test at all, of symbols further away than 2 GiB. `MCImage` assumes it of the targets that TLC tries.

`RiscvFrameProofs` proves for any function: any registers of tcc's, frames of up to 512 MiB (a multiple of 8, with locals of doublewords),
any number of spilled registers and of accesses, any 64-bit constants and addresses (`FunctionAssumption` of `RiscvFrame`):

| Theorem | Property |
|---|---|
| `FrameTyped` | the type invariant `FrameType` |
| `OthersStay` | `OthersMostlyKept` |
| `CodeMeansIt` | `MeansWhatItSays`, where `RightConstants` holds |
| `FrameStays` | `FrameKept`, where `RightConstants` holds and stores are apart from the saved registers (`StoresApart`) |

`RightConstants` leaves out the constants that tcc loads wrongly (`Misloaded`, `Misplaced`; [the 10th entry](#what-the-code-gets-wrong))
and accesses after a store to a constant address, which loses s0 (the 4th); without it the first of the two is false, in the code and
in the model. `MCRiscvFrame` assumes it of the constants that TLC tries. `StoresApart` is the program's part of the bargain: a pointer may point
anywhere, and a program that overwrites the return address does not return.

Below them are two kinds of lemmas. What a sequence of instructions leaves alone follows from the registers its instructions
name (`RunKeeps`, over `Without(q)`, the instructions that do not write to q). What it computes is the sum of the parts that it
is made of: `LoadImmDoes` says that the instructions for a 64-bit constant leave that constant. Each part is signed and borrows
from the next one, so `load_large_constant` adds back what the lower ones take (`LargeDoes`: three shifts
and four sums), and `lui` extends the sign, which is harmless unless the carry changed it (`SextPlus`, where `Misloaded` comes from). `AbsDoes` says the same of an address with the
offset that the access adds, and `LocalDoes` of a local whose offset needs more than 12 bits.
`PrologueDoes` and `EpilogueDoes` run the code of a frame in one or two steps: every offset from the stack pointer fits 12 bits
(`FrameOffsets`), `sp` ends a whole frame lower and `s0` at the base of the locals, the spilled variadic registers do not meet the two saved ones, and
the epilogue takes all of that back.

`FrameInvariant` needs beside the type and the property itself only that s0 is the base of the locals (`BaseRight`), which the accesses
keep because none has it as its target (`TargetsAre`). `FrameHolds` adds where the stack pointer is and that the two slots hold what the caller
had in its registers (`Saved`): the accesses write at locals, of which none is in one of those slots (`LocalsApart`), or where `StoresApart`
speaks of (`AccessesWrite`). That no local is below the stack pointer is then arithmetic (`LocalsAbove`).

`WordsProofs` has the arithmetic below that, for words of any width: bit i of a sum is the exclusive or of two bits and a carry, the
carry of bit i + 1 is the majority of three (`CarryStep`), so the sum is commutative and associative, a word and its negation
add up to zero, differences and sums undo each other, a narrower sum is the lower part of a wider one, and the two halves of an offset add
up to it (`HalvesAddUp`, `PartsAddUp`). Shifts distribute over sums (`ShlPlus`), and the word of an integer behaves as the integer does, as long as it is a sum of offsets below 2^30
(`WordPlus`, `WordSigned`, `SextOfWord`, `WordsDiffer`). Carries are defined by the least bit that settles them (`LeastIn`), so there is no recursion in
it; the facts that go through all bits are shown of the least one that would break them.

`WasmPageProofs` proves for any number of clicks, any texts and any sizes of the buffers
(`TextAssumption`, `BoundAssumption` of `WasmPage`):

| Theorem | Property |
|---|---|
| `PageCorrect` | the inductive invariant `PageInv` |
| `StoredCorrect` | `StoredIsOutput` |

`StoredIsOutput` looks at the end of a main only. `PageInv` needs, and why:

- `FreshInv`: an instance whose fetch is under way, or whose click is to come, has empty buffers,
  and so has the present one while a single main waits for it. Only then does a main
  that came alone begin with an empty write buffer.
- `MainInv`: while main runs, the instance and the boxes are the ones it began with. main is one
  synchronous call, so nothing but its own steps can happen.
- `OutputInv`: how far a main that came alone has come: the write buffer holds the first
  `written` pieces of the object of the text in the box (`WriteNext`, `WrittenObject`).

One lemma per action: `ClickPage` to `ReturnPage`; the steps of main share `RunningPage`.

`ImageProofs` has the proofs about what a program finds when it runs, of `RunMemory` and of `GotPlt`. It proves for any number of states, any sections, any alignments that are powers of
two (or divide each other as these do), any page size among them, and wherever malloc finds room
(`AlignmentsAssumption`, `LayoutsAssumption`, `HeapAssumption` of `RunMemory`):

| Theorem | Property |
|---|---|
| `BothPasses` | the inductive invariant `RunInv` |
| `SizeSuffices` | `SectionsFit` |
| `PagesAreRight` | `PagesRight` |

The two passes pad differently, and the second may pad more than the first at one section and less at the next.
What is invariant (`PlaceInv`) is that it is never further than the first pass would be if it began at the next multiple
of the largest alignment, of which every alignment is a divisor (`SizedInv`, `Divides`); from there on the first
pass is repeated exactly, and rounding up keeps the order (`PadMonotone`). The distance to that multiple is
less than the largest alignment, and `max_align` is one less than that. For the pages, `PageInv` says that a protected page is wholly in the
memory of one state, which has begun to copy (`Owns`). A round begins where a page does, and so does the next one, so
what `mprotect` rounds to on either side has nothing of another round in it (`RoundPages`, from `PageSides`); only
rounds of data may end in the middle of a page, and they ask for the access that malloc's pages have anyway. A
state that touches a page of another one touches no protected page (`OwnerAlone`, `TouchedOwned`), so
copying and `tcc_delete` disturb nobody.

`SymStackProofs` proves for any names, any number of symbols, any depth of blocks and any programs, as long as
no program both has statement expressions (or enumerators in prototypes) and declares external names in its blocks
(`NeverBoth`; with both, the third entry below makes `GlobalsFound` and the refinement false, in the code and in the model):

| Theorem | Property |
|---|---|
| `TablesInvariant` | the inductive invariant `SymInv` |
| `PoolShared` | `PoolPartition` |
| `ChainsStayLive` | `ChainsLive` |
| `GlobalsStayFound` | `GlobalsFound` |
| `TablesImplementScopes` | `ImplementsScopes`, the refinement of `Scopes` |

That the heads of the chains are what the scopes say (`Headed`) is not inductive: a closing brace has to bring back what
it hid, and all it has are the `prev_tok` of the symbols that go. `SymInv` needs, and why:

- `Hides`: of the symbols of a name that lie above the beginning of a scope, the lowest one has in `prev_tok` what the
  name stands for outside. It is the last that `sym_pop` unlinks, so its `prev_tok` remains (`CloseHead`). Symbols above
  it may have any `prev_tok`: those of a statement expression left their chains earlier and are unlinked again.
- `Scoped` and `Ordered`: the declarations of a scope are on `local_stack` between its beginning and the next one, which
  `blocks` holds (`BaseOf`). So what is popped is what the scope declared.
- `Filed`: the declarations of the file scope are on `global_stack`, at the end of their chains.
- `Down`: a `prev_tok` leads to a symbol further down the stack. So chains end (`ChainDescends`, `ChainEnds`; that a chain
  is no longer than the pool is the pigeonhole principle, `StackBound`).
- `Pool`: each symbol is on one stack, once, or once on the free list.
- `Chained`, for programs that declare external names in blocks: a chain has every symbol of its name on `local_stack`.
  Then the place where `global_identifier_push` inserts is below all of them (`NoneGlobal`, `GlobalPushIs`).

There is a lemma per action (`NewScopeStep` to `PrototypeStep`), which says that the invariant is kept and which action of
`Scopes` the step is; `ScopesStep` combines them.

`ImageProofs` proves for any symbols, any number and order of references and each kind of output (`OutputsAssumption`,
`TablesAssumption` of `GotPlt`), of those references that the code does not get wrong (`Deviations = {}`, as in `elf_links`):

| Theorem | Property |
|---|---|
| `EveryReferenceRight` | `ReferencesRight` |

`ReferencesRight` is about programs that run, so `GotInv` follows a reference through the passes: what was admitted
(`RefsInv`), what `bind_exe_dynsyms` left (`BoundInv`), which references pass 0 has redirected and to which entry (`ViaInv`,
`JumpInv`), that an entry of the PLT jumps through a slot of its own symbol, and that a slot is filled by the loader only
if the symbol is in dynsym (`EntriesInv`), what pass 1 has given out (`SlotInv`), and what the stages after it leave in words and slots (`EndInv`).
A function that is defined nowhere gets a dynamic symbol when its first call is visited, which changes what the
references after it need: `CalledInv` remembers that there was a call. One lemma per action; `VisitHolds` rests on what an entry adds (`PutEntry`).

`ValueStackProofs` proves for programs of integers and pointers (`Widths \subseteq {FALSE}`), with any number of registers from three
on, of temporary variables, of entries and of dereferences (`RegAssumption`, `BoundAssumption` of `ValueStack`):

| Theorem | Property |
|---|---|
| `StackSound` | the inductive invariant `StackInv` |
| `ValuesStayHeld` | `ValuesHeld` |
| `OperandsRight` | `UsesRight` |

`ValuesHeld` alone does not survive a step. While code is generated `Inv` needs beside it:

- A register that is the value of an entry is no other entry's (`Alone`): an operation that overwrites the register of its operand,
  or a call that moves its arguments, does no harm to what is below. Pointers (`"at"`) may be shared, because nothing is
  ever computed into them, and `SaveEntry` and `save_reg_upstack` tell all of their users (`Saved`, `ToldOne`).
- A comparison is only ever the top entry. The registers that it compares are not `Uses` of it, so the allocator
  would take them; `vcheck_cmp` fetches it before anything else happens.
- An entry names a temporary variable that the function has (`Sound`), and so do the entries of
  `arr_temp_local_vars` (`TempsKnown`). So a new variable is nobody's, and `get_temp_local_var` gives an old one out only
  if no entry has it.

Inside a sizeof the operand's entries say nothing that is true. `Suspended` says instead that the stack as it will be when the operand ends
(`Resumed`) satisfies `Inv`; a suppressed operation changes neither what is below `base`, nor registers, memory and temporary variables (`Quiet`). So there
are two lemmas about each function of the compiler, one for either mode (`GenOpIs` and `QuietGenOp`, `CallIs` and `QuietCall`, ...),
and one about each action, which combines them (`PushConstStep` to `EndSizeofStep`). `Become` renames values, and `BecameInv` says that names change
nothing: a value has one name wherever it is, and what an entry has is not forgotten (`NameIs`, `WordKept`). The order in which `gfunc_call` fills the registers of the arguments is that of `ArgumentsAre`:
after j arguments (`Placed`) the last j are in their registers and the rest are where they were, or saved.

Long doubles stay with TLC, which has them in the same run. For two words the invariant would have to say more: while `gv` loads the second word of one that was
saved, its entry names a place inside the temporary variable, and `get_temp_local_var` (`tccgen.c:1385`) compares only where variables begin. Whether a register has to be saved
in just that moment depends on which registers long doubles start in (`LdArgs`, the 5th entry [below](#what-the-code-gets-wrong)).

**Only model-checked:** the process's first call and failing allocations (`lock_started`),
liveness (`WaiterGetsIn`, `EveryClickAnswered`; ENABLED and fairness are beyond the prover),
long doubles on the value stack,
and all other modules. `Jumps` follows chains and parses expressions with recursive
operators, which the prover cannot take, and so do `Preproc`, `RiscvCalls`, `StructLayout`, `Initializers`, `ElfSymbols` and `Bcheck`
with their references.

## What the code gets wrong

Met while modelling. The first and the 45th are the counterexamples of the violation runs ("findings" of
`PROJECT.json`). The passing runs leave the others out, through a constant or through what the `MC`
module offers; each says with which change of that constant its property fails.

**Lock.**

1. `libtcc.c:518` `tcc_split_path` uses `file` without the lock (run `lock_split`).
2. `libtcc.c:169` two threads that make the first call of the process at once both initialise the
   semaphore; `Spec` has it, `StartedSpec` leaves it out.

**Parser and generator.**

3. `tccgen.c:745` `sym_pop` unlinks a symbol of a statement expression twice. It needs a local name in
   a statement expression and a later global symbol of the same name, so `sym_scopes` has statement
   expressions and external declarations in different programs. (`MCSymStack` with `Programs <- MCBoth`,
   `Names = {x}`, `MaxSyms = 5`, `MaxDepth = 3`: `GlobalsFound`.)
4. `riscv64-gen.c:397` a store to a constant address forms it in s0, the base of the locals.
   `OthersMostlyKept` and `FrameKept` leave these stores out, and the first also float loads by an
   address that is formed in a register first: they use a general register without asking for it.
   (`MCRiscvFrame` alone, by `FrameSpec`, with `FunctionKinds <- MCOneKind`, `AbsFloats <- MCNoFloats`: `OthersKept`.)
5. `riscv64-gen.c:748` the second word of a `long double` argument is moved into a register that may be in
   use. With long doubles only in a0 and a1 (`LdArgs = {0}`), `vstack_values` passes.
   (`LdArgs = {0, 1}`, `MaxStack = 4`: `ValuesHeld`.)
6. `tccgen.c:6050` a call that does not return, in an operand that is not evaluated, suppresses the
   rest of the function: `if (1 || die()) foo(); bar();`. (`Programs <- mc_noreturn`:
   `SuppressedUnreachable`.)
7. `tccgen.c:6896` a `return` that is the last token of a function without being its last statement
   falls into a loop or a switch, or makes cleanups twice. (`Programs <- mc_return`, `Allowed = {"last"}`:
   `FollowsSource`.)
8. `tccgen.c:7100` gotos with and without cleanups to one label: the chain of those without is
   never patched ("mixed" in `Jumps`).
9. `tccgen.c:6685` a goto out of a scope before a variable with a cleanup is declared makes the
   cleanup of a variable that does not exist ("late").
10. `riscv64-gen.c:218` 64-bit constants whose low word is 0x7ff80000 to 0x7fffffff are loaded
    2^32 too small (`Misloaded` in `RiscvFrame`), and constant addresses from 0x7ffff800 to
    0xffffffff are sign-extended (`Misplaced`).
11. `riscv64-link.c:193` `R_RISCV_JAL` is let through from 1 to 2 MiB, where the immediate cannot
    hold it (the range test is one bit too wide), and the same test stands at
    `riscv64-gen.c:156`. Left out of `image_units`, as are `HI20` distances between 2 and 4 GiB.

**Calls** (the names are members of `Known` in `RiscvCalls`; with one of them in `Deviations`,
`ValuesArrive`, `InsideArea` or `FollowsAbi` fails).

12. "real on the stack": from the ninth `float` or `double` on, arguments go to the stack although
    integer registers are free, where the psABI has them.
13. "padding": the area of the stack arguments is computed without the padding that aligns a 16-byte
    argument; `f(8 ints, int, long double, int)` writes behind it.
14. "va_list in a word": if the ninth named argument of a variadic function is an `int` on the stack,
    `va_start` is 4 bytes too low.
15. "hidden parameter": in a function that returns a struct of more than 16 bytes, the last named
    parameter is taken for a variadic one.
16. "field in first word": the `int` of `struct {float f; int i;}` is stored at offset 8 of the
    parameter and read at offset 4.
17. "miscounted": `struct {float x, y; float uv[2];}` gets a wrong number of registers, as argument
    and as result, and over-aligned structs stop the compiler.

Results (members of `KnownResult`; with one of them in `Deviations`, `ValuesArrive`, `InsideArea` or
`FollowsAbi` fails).

18. "mixed reals": `riscv64-gen.c:869` gives one type for both registers of a result. Of `struct {float f;
    double d;}` the second register gets a `float`, half of `d`; of `struct {double d; float f;}` it gets a
    `double`, which another compiler's code does not take for a `float`.
19. "behind a pointer": `tccgen.c:6529` advances the offset of the value that is returned, but `load` ignores
    it for a pointer in a register (`riscv64-gen.c:249`): `return *p;` of a struct in two registers
    returns its first word twice.
20. "not a local": the assertion in `riscv64-gen.c:879` stops the compiler at `return s;` of a global
    `struct {float f; int i;} s`.
21. "narrow room": `tccgen.c:6014` says "make sure there's enough space" for whole registers, but only aligns:
    with `loc` at -20, the result of a function that returns three `int`s is stored over the variable
    there (`InsideArea`).
22. "empty result": a struct of no bytes is returned through a hidden pointer, which takes the first
    argument register from the arguments.

**Layout** (`Irregular` in `StructLayout`; with one of them in `Irregularities`, `LayoutFollowsRules` fails).

23. "lowered": `tccgen.c:4000` `aligned(2)` on an `int` lowers its alignment, which takes `packed` in GCC.
24. "pack drops aligned": `tccgen.c:3995` says that `#pragma pack` overrides an individual alignment, and drops
    it: `char c __attribute__((aligned(8)))` under `pack(2)` has alignment 1, where the rule, the lower of the
    two, gives 2.
25. "unnamed in union": `tccgen.c:4055` keeps unnamed bit-fields from raising the alignment in structs only;
    `union { char c; int : 5; }` has 4 bytes instead of one.
26. "unnamed of full width": `int : 32` is no bit-field for `tccgen.c:4376`, and raises the alignment.
27. "packed too late": a bit-field as wide as its type becomes a plain member unless `packed` is known by then.
    Behind the closing brace, or by `#pragma pack`, it comes later, and `int b : 32` behind
    `int a : 3` begins at the next byte and not at the next bit.
28. "carried over": `tccgen.c:4326` passes the attributes of one declarator on to the next (`ad1` is only
    reset by `parse_btype`): in `int a __attribute__((packed)), b;` both are packed.

**Preprocessor.**

29. `tccpp.c:1506` an included file that gives no token leaves `TOK_FLAG_BOF` to the file that includes
    it, and an `#ifndef` behind the `#include` counts as that file's guard: its text is missing the
    next time. (`EmptyFiles = TRUE`: `GuardsGuard`.)
30. `tccdbg.c:994` `#line n "b.h"` renames `file->filename`, so the guard or `#pragma once` that follows is
    cached for the other file. The run renames to a file nobody includes (`Rename("z.y")` in
    `MCPreproc`; with `"b.h"` instead, `GuardsGuard` fails).
31. `tccpp.c:1734` `push_macro` twice without a definition in between sets one mark, and the second
    `pop_macro` does nothing. (`PushesTwice = TRUE`, `MCMaxLines` 6 for `Definitions`: `MeansSource`.)
32. `libtcc.c:688` `#if __has_include("x")` opens the file and leaves `TOK_FLAG_BOF` behind, so an `#ifndef` on the
    next line counts as a guard. (With `Expr("if", "has")` among the lines of `Guards`: `GuardsGuard`.)

33. `tccpp.c:3223` the scope of a name ends when an argument list leaves its expansion, before the
    arguments are expanded: with `#define G H(G` and `#define H(a) a`, the text `G )` should give `G`;
    tcc expands the `G` of the argument again and finds no `)`. (With
    `Object(<<"H", "(", "G">>)` in `MCReplacement`: `MeansSource`.)

**Linking.**

34. `tccelf.c:726` an undefined symbol takes the binding of its last occurrence: a weak use behind a
    strong one hides that a definition is missing (with both in one link, an error that
    depends on the order of the files).
35. `tccelf.c:690` a hidden definition behind a common or bss one of the same name is ignored: `int x;` then a
    hidden `int x = 5;` gives 0, in the other order 5 (`HiddenAgain` in `SymbolRules`).
36. `tccelf.c:723` the visibility that a use asks for is forgotten when the definition comes
    (`VisibleUse`).

56. `tccelf.c:721` two object files that define one symbol are reported ("defined twice") and linked: loading them returns 0 (3324), the counter of
    errors is reset (2779, `tccrun.c:258`), and the output is written with the first definition, `tcc` returning 0. In a source file the same
    makes `tcc_compile` return -1. The model has this; `RightDefinition` says which definition it is and that the link goes on.

**GOT and PLT** (`Admitted` in `GotPlt`; with one of the first four in `Deviations`, `ReferencesRight` fails, for the
fourth with a local absolute symbol in `Tables`).

51. "weak by its PLT": `tccelf.c:1434` in a dynamic program the address of an undefined weak function in initialized data is that of
    its PLT entry, and not null, if a call of it comes before in the relocations: `if (f) f();` with `f` from a table calls
    null. `tccelf.c:1096` says "Their value is zero".
52. "untyped": a function or an object that a library exports without a type (`STT_NOTYPE`) is neither called for nor copied by
    `bind_exe_dynsyms`; its address in the data of an executable is null. For a function that is called, too, the order of the
    relocations decides: in front of the call the address is not served in pass 0, and in pass 1 it counts as a call (`tccelf.c:1467`).
53. "PLT of a static program": `tccelf.c:2901` relocates the PLT of dynamic output only; a static program that calls an absolute
    symbol (`tcc_add_symbol`) jumps into the unrelocated PLT.
54. "local absolute": a call of a local absolute symbol (of an object file) in dynamic output gets a slot for the PLT that
    `fill_local_got_entries` looks for as the symbol's own, and ends in the error "huh".
55. The address of a library's function is its PLT entry in the data of an executable and the function itself where the code
    takes it from the GOT, so that two pointers to one function differ. (`ReferencesRight` lets an address be that of the PLT.)
    `-Wl,--defsym` of a dynamic executable is accepted by `bind_exe_dynsyms` and leaves the symbol undefined for `build_got_entries`.

**Bounds checker** (`Known` in `Bcheck`; with one of them in `Deviations`, `RegionsKnown` fails).

37. "realloc race": `realloc` gives the old block back before it takes the lock to remove it from the
    tree; another thread may have it by then, and loses its region.
38. "realloc fails": a `realloc` that fails leaves the block to the program and removes its region.
39. "unchecked": what is freed, left or jumped out of while `__bounds_checking` switches checking off
    stays in the tree and makes later accesses to that memory fail.
40. "unlisted": a `longjmp` with checking on takes arrays out by the entry of its `jmp_buf` in `jmp_list`. `bcheck.c:804`: a `setjmp` with
    checking off makes no entry, or leaves that of an earlier `setjmp` in another function. `bcheck.c:854`: a `longjmp` to
    one `jmp_buf` forgets those that were set later, although the function that set them may still be active. A `longjmp` to such
    a `jmp_buf` leaves arrays in the tree, which reports errors in a correct program, or takes out arrays of functions that go on.
    (`HeapOps = 0`. The model leaves out only the `longjmp`s that go wrong by this, `Followed`: setting and forgetting are in the run.)
41. "thread exit": the arrays of the functions that `pthread_exit` leaves stay in the tree.

**Data in dynamic output.**

42. `riscv64-link.c:286` a 32-bit pointer in dynamic output is left to the loader as
    `R_RISCV_RELATIVE`, which writes 64 bits and so over the next word. `DynamicAssumption` of
    `RiscvLink` leaves it out.

**WebAssembly page** (`WasmPage` has all of these; `StoredIsOutput` says nothing of programs that
include files or name several, and of clicks that share a frame).

43. `docs/tcc.js:186` two clicks whose modules arrive before the next frame use one instance. The
    second `main` appends its object to that of the first, and what is stored is both, or the
    object of the first if the second program has errors. (Without `stored.click \notin crowded`,
    `StoredIsOutput` fails.)
44. `zig/tcc-wasm.zig:114` the second file of a command line, and an included one, read as empty;
    `tcc -c a.c b.c` gives the object of the first with an empty one behind it. A text or an output of
    8192 bytes ends in an exception, after which the local storage has the program of an earlier click.

**Initializers** (what `Deviates` and `DeviatesAtEnd` say, in `Initializers`; with one of them in `Liberties`, `InitializersRight` fails.
Each was compared with the compiler built from these sources.)

45. "size of an outer element": `tccgen.c:7390` for `[i].b` the relocations of as many bytes as the array's element has
    are deleted, from `b` on: `static struct { int *p, *q; } a[2] = { [0].q = &x, [0].p = &x };` loses `a[0].q`, against
    `tcc-doc.texi:496` (run `initializers_order`). For a bit-field they are those of its container ("size of a container"), for
    a list without braces those of its whole object ("deleted without braces").
46. "address on a number", "part of an address": an address that overrides a number is added to it when it is linked; an
    address of which another member of a union overrides a part keeps its relocation, if it begins before that.
47. "not zeroed again": `{ .a = { 1, 2 }, .a = { 3 } }` leaves the 2 in a static object (`tccgen.c:7737` takes a section for
    zero), a shorter string leaves the rest of a longer one, and `{ .u.c = 5, .u.w.y = 7 }` leaves the 5 in another member of the
    struct `w` of union `u`, of local objects too. "zeroed again": in a local object an element behind a designator
    that is in a container without braces zeroes what that container had.
48. "designator without braces": `struct { struct { int x, y; } a; int b; } s = { 1, .b = 2 }` looks for `b` in `a`.
    "after designators": what follows `.a.x = 1` goes behind `a`, not to `.a.y`; and what follows a member of an unnamed struct
    is put at its offset in that struct.
49. "unnamed bit-field at the end": `tccgen.c:7762` a list without braces is not full while an unnamed bit-field is left,
    and the next initializer is one too many.
50. "range without braces": only the first of `[0 ... 1] = 1, 2` continues into the members. "flexible without braces": a flexible
    member whose braces are left out takes one element. "empty flexible": `int a[] = {};` has one element, where the comment at `tccgen.c:7742`
    says none. "comma behind a scalar": `int x = { 5, };` is an error.

## Not modelled

- **In the modelled components.** Value stack: VT_JMP values, structs, bit-fields, floats,
  casts, arguments on the stack or split between stack and register, variable-length arrays.
  Statements: computed gotos, statement expressions, `__label__`, `asm`, `a ?: b`, case ranges
  and the binary search that `gcase` makes of more than eight cases. Code generator: arithmetic,
  conversions, bounds checking. Calls: unprototyped
  functions; the code that moves arguments is in `ValueStack`, for words and
  long doubles. Preprocessor: lexing, the predefined macros (`__LINE__`, `__COUNTER__`), white space, calls
  that span directives, `#include_next` and the search of include paths,
  `#error`, `-E` output. ELF: `.set` overrides, symbol versions, `--defsym`,
  linker-provided symbols, `-rdynamic` and what an executable exports for its libraries, weak aliases of copied objects, layout, the writing of files. Bounds checker:
  alloca and variable-length arrays, the other allocation functions, the checked string
  functions, signals, fork, the table of static regions.
- **Types, declarations, initializers:** enums, the MS layout of bit-fields (there is no
  written rule to compare it with), declarators, compatibility of types: functions of
  their input, without interleaving or state that outlives a declaration other than the symbols, which
  `SymStack` has. Of initializers: wide strings, strings in braces or in parts of larger expressions, the conversion
  of values, compound literals (which are values here) and with them the reuse of a flexible struct's type in its own initializer,
  flexible members of local objects, the sections and symbols an object gets. That a store to a bit-field also writes back its neighbours, plain members among them, which
  C11 lets another thread write at the same time, is the code's way; no property forbids it.
- **Debug information, inline assembler:** tables and output; a comparison with another tool
  tests them better.
- **In-memory execution:** `tcc_run` (constructors, `main`, destructors), signal handlers and backtraces, which read tables of
  the host's program; the variants for SELinux and Windows; a second `tcc_relocate` of one state, which the interface does not
  foresee. Memory that the caller of `tcc_relocate` gave keeps its protection after `tcc_delete`; the interface
  does not say who has to take it off, and `PagesRight` counts it as the state's. A section with both `SHF_WRITE` and `SHF_EXECINSTR` belongs to no round
  and would get no address; only assembler input can make one.
- **Command line and tools:** option parsing, archives and other files; the compiler
  inside WebAssembly only writes object files.
- **WebAssembly page and C library:** string formatting (`format_string`), the bump allocator and the
  log; the page in `docs/romfs`, whose Zig side is not in the repository.
- **Other run-time libraries** (`lib/tcov.c`, `lib/libtcc1.c` and others): parts of compiled
  programs; arithmetic helpers, and a merge of counters under a file lock.
- **Other back ends and object formats,** the 32-bit RISC-V one included: kept from upstream or
  not part of the WebAssembly build.

## Plan

Order: what every compilation goes through first. Done, with the proofs listed above: `CompileLock`,
`Scopes`/`SymStack`, `RiscvLink`, `RiscvFrame`, `ValueStack`, `Jumps`, `Directives`/`Preproc`,
`Expansion`/`MacroSubst`, `RiscvAbi`/`RiscvCalls`, `LayoutRules`/`StructLayout`, `InitRules`/`Initializers`, `SymbolRules`/`ElfSymbols`, `SplayTree`/`Bcheck`,
`WasmPage`, `RunMemory`, `GotPlt`. Next:

1. The run-time coverage merge (`tcov.c`, a file shared by processes).

Theorems still worth proving: that `ValueStack` keeps its values with long doubles too, and the lock with failing allocations.
