------------------------------ MODULE SymStack ------------------------------
(***************************************************************************)
(* The symbol tables of tccgen.c.  A symbol lies on one of two stacks and, *)
(* if it has a name, heads the chain of the symbols of that name; the      *)
(* chain runs through prev_tok.  Scopes are ends of local_stack.           *)
(*                                                                         *)
(* The actions are the declarations and the braces of a program, each with *)
(* all the table operations the parser makes for it.  A name is an         *)
(* identifier or a struct tag, which have chains of their own.             *)
(***************************************************************************)
EXTENDS Integers, Sequences, SequencesExt, FiniteSets

CONSTANTS Names,          \* the named tokens
          Anon,           \* SYM_FIELD, or a token from SYM_FIRST_ANOM on
          MaxSyms,        \* bound: symbols in the pool
          MaxDepth,       \* bound: nested blocks
          Programs        \* the kinds of programs: whether they have statement expressions
                          \* and enumerators in prototypes (exprs), and whether their blocks
                          \* declare external names (externals)

ASSUME AnonAssumption == Anon \notin Names
ASSUME BoundAssumption == MaxSyms \in Nat /\ MaxDepth \in Nat
ASSUME KindAssumption == Programs \subseteq [exprs : BOOLEAN, externals : BOOLEAN]

Nil == 0
Syms == 1..MaxSyms

VARIABLES sym,           \* what a symbol holds: v, sym_scope, prev_tok
          head,          \* table_ident[v]->sym_identifier (or sym_struct)
          local_stack, global_stack,  \* lists, the top last
          sym_free_first,  \* the free list: how often a symbol is on it
          blocks,        \* the open blocks: local_stack's length before, is_expr
          failed,        \* tcc_error: a redeclaration ended the compilation
          scopes,        \* history: the open scopes, as the language has them
          program        \* of Programs

tables == <<sym, head, local_stack, global_stack, sym_free_first>>
vars == <<tables, blocks, failed, scopes, program>>

-----------------------------------------------------------------------------
(* The table operations, as functions of the tables T. *)

Tables == [sym |-> sym, head |-> head, local |-> local_stack, global |-> global_stack,
           free |-> sym_free_first]

Become(T) ==
    /\ sym' = T.sym /\ head' = T.head
    /\ local_stack' = T.local /\ global_stack' = T.global /\ sym_free_first' = T.free

\* The symbol that sym_malloc takes from the free list: which one makes no difference.
Fresh(T) == CHOOSE s \in Syms : T.free[s] > 0

\* sym_push2: allocate, and put it on the stack named by where.
sym_push2(T, where, v, scope) ==
    [T EXCEPT !.free[Fresh(T)] = @ - 1,
              !.sym[Fresh(T)] = [v |-> v, scope |-> scope, prev_tok |-> Nil],
              ![where] = Append(@, Fresh(T))]

\* s heads the chain of its name.
PutFirst(T, s) ==
    LET v == T.sym[s].v
    IN  IF v = Anon THEN T
        ELSE [T EXCEPT !.sym[s].prev_tok = T.head[v], !.head[v] = s]

StackInUse(T) == IF T.local # <<>> THEN "local" ELSE "global"

sym_push(T, v, scope) == PutFirst(sym_push2(T, StackInUse(T), v, scope), Fresh(T))

\* The test of sym_push, before the symbol is in its chain.
Redeclares(T, v, scope) ==
    v # Anon /\ T.head[v] # Nil /\ T.sym[T.head[v]].scope = scope

\* The n-th symbol of the chain of v, from 0.
Chain(T, v) ==
    LET nth[n \in 0..MaxSyms] ==
            IF n = 0 THEN T.head[v]
            ELSE IF nth[n - 1] = Nil THEN Nil ELSE T.sym[nth[n - 1]].prev_tok
    IN  nth

\* Where the chain of v leaves the local symbols: at a symbol of scope 0, or its end.
FirstGlobal(T, v) ==
    LET c == Chain(T, v)
        outside == {n \in 0..MaxSyms : c[n] = Nil \/ T.sym[c[n]].scope = 0}
    IN  CHOOSE n \in outside : \A m \in outside : n <= m

\* Mutant: the new global heads the chain, above the local symbols.
GlobalFirst(T, v) ==
    LET s == Fresh(T)
    IN  [sym_push2(T, "global", v, 0) EXCEPT !.sym[s].prev_tok = T.head[v], !.head[v] = s]

\* global_identifier_push: the new global goes below the local symbols of its chain.
global_identifier_push(T, v) ==
    LET s == Fresh(T)
        n == FirstGlobal(T, v)
        c == Chain(T, v)
        P == [sym_push2(T, "global", v, 0) EXCEPT !.sym[s].prev_tok = c[n]]
    IN  IF n = 0 THEN [P EXCEPT !.head[v] = s] ELSE [P EXCEPT !.sym[c[n - 1]].prev_tok = s]

\* Mutant: the copy is not entered in the chain of its name.
CopyUnnamed(T, s) ==
    [T EXCEPT !.free[Fresh(T)] = @ - 1, !.sym[Fresh(T)] = T.sym[s], !.local = Append(@, Fresh(T))]

\* sym_copy to the local stack: the copy keeps the scope of the original.
sym_copy(T, s) ==
    PutFirst([T EXCEPT !.free[Fresh(T)] = @ - 1,
                       !.sym[Fresh(T)] = T.sym[s],
                       !.local = Append(@, Fresh(T))], Fresh(T))

\* What a symbol on the free list holds is not kept: it is cleared on allocation.
Blank == [v |-> Anon, scope |-> 0, prev_tok |-> Nil]

\* The places above n of the symbols of name v.
Above(T, where, n, v) == {i \in n + 1..Len(T[where]) : T.sym[T[where][i]].v = v}

\* From the top of the stack down to length n, each symbol gives its name to the one it hid:
\* the lowest comes last.
Unlinked(T, where, n) ==
    LET Lowest(v) == CHOOSE i \in Above(T, where, n, v) : \A j \in Above(T, where, n, v) : i <= j
    IN  [v \in Names |-> IF Above(T, where, n, v) = {} THEN T.head[v]
                         ELSE T.sym[T[where][Lowest(v)]].prev_tok]

\* sym_free of each of them.
Freed(T, where, n) ==
    LET places(s) == {i \in n + 1..Len(T[where]) : T[where][i] = s}
    IN  [T EXCEPT !.sym = [s \in Syms |-> IF places(s) = {} THEN T.sym[s] ELSE Blank],
                  !.free = [s \in Syms |-> T.free[s] + Cardinality(places(s))],
                  ![where] = SubSeq(@, 1, n)]

\* Mutant: a symbol that is kept on the stack is freed nevertheless.
PopFreesKept(T, where, n, keep) ==
    LET U == [T EXCEPT !.head = Unlinked(T, where, n)]
    IN  IF keep THEN [U EXCEPT !.free = Freed(T, where, n).free] ELSE Freed(U, where, n)

\* Mutant: only symbols with a scope number are taken out of their chains.
PopLocalsOnly(T, where, n, keep) ==
    LET scoped == [T EXCEPT !.sym = [s \in Syms |-> IF T.sym[s].scope = 0 THEN Blank ELSE T.sym[s]]]
        U == [T EXCEPT !.head = Unlinked(scoped, where, n)]
    IN  IF keep THEN U ELSE Freed(U, where, n)

\* sym_pop: the symbols above length n leave their chains; with keep they stay on the stack.
sym_pop(T, where, n, keep) ==
    LET U == [T EXCEPT !.head = Unlinked(T, where, n)]
    IN  IF keep THEN U ELSE Freed(U, where, n)

-----------------------------------------------------------------------------
(* The language's own account of the scopes. *)

Spec0 == INSTANCE Scopes WITH visible <- head

Here == Len(scopes)

InFunction == local_stack # <<>>
local_scope == Len(blocks)
HasRoom(n) == ~failed /\ Cardinality({s \in Syms : sym_free_first[s] > 0}) >= n

-----------------------------------------------------------------------------
(* The actions *)

\* gen_function and gfunc_prolog: a dummy symbol, so that local_stack is not empty,
\* then the parameters.  They have the scope number of the outermost block.
BeginFunction ==
    /\ ~InFunction /\ HasRoom(2)
    /\ \E p \in Names \cup {Anon} :
          LET T == sym_push(sym_push2(Tables, "local", Anon, 0), p, 1) IN
          /\ Become(T)
          /\ scopes' = Append(scopes, [v \in Names |-> IF v = p THEN T.head[p] ELSE Nil])
    /\ UNCHANGED <<blocks, failed, program>>

\* block, new_scope: the outermost block of a function is no statement expression.
NewScope ==
    /\ InFunction /\ ~failed /\ Len(blocks) < MaxDepth
    /\ \E is_expr \in IF blocks = <<>> \/ ~program.exprs THEN {FALSE} ELSE BOOLEAN :
          blocks' = Append(blocks, [lstk |-> Len(local_stack), is_expr |-> is_expr])
    /\ scopes' = Append(scopes, Spec0!Empty)
    /\ UNCHANGED <<tables, failed, program>>

\* prev_scope
PrevScope ==
    /\ blocks # <<>> /\ ~failed
    /\ Become(sym_pop(Tables, "local", Last(blocks).lstk, Last(blocks).is_expr))
    /\ blocks' = Front(blocks)
    /\ scopes' = Front(scopes)
    /\ UNCHANGED <<failed, program>>

\* The rest of gen_function, once its block is over.
EndFunction ==
    /\ InFunction /\ blocks = <<>> /\ ~failed
    /\ Become(sym_pop(Tables, "local", 0, FALSE))
    /\ scopes' = Front(scopes)
    /\ UNCHANGED <<blocks, failed, program>>

\* decl: a variable of a block, a typedef, an enumerator, a struct tag.
Declare(v) ==
    /\ HasRoom(1) /\ (InFunction => blocks # <<>>)
    /\ IF Redeclares(Tables, v, local_scope)
       THEN failed' = TRUE /\ UNCHANGED <<tables, scopes>>
       ELSE /\ Become(sym_push(Tables, v, local_scope))
            /\ scopes' = Spec0!Bind(scopes, Here, v, Fresh(Tables))
            /\ UNCHANGED failed
    /\ UNCHANGED <<blocks, program>>

\* external_sym: the global symbol is found behind the local ones or made; a variable
\* declared in a block gets a copy on local_stack.
External(v, is_func) ==
    LET T == Tables
        s == Chain(T, v)[FirstGlobal(T, v)]
        G == IF s = Nil THEN global_identifier_push(T, v) ELSE T
        g == IF s = Nil THEN Fresh(T) ELSE s
        copied == InFunction /\ ~is_func
        global == IF s = Nil THEN Spec0!Bind(scopes, 1, v, g) ELSE scopes
    IN  /\ HasRoom(2) /\ (InFunction => blocks # <<>> /\ program.externals)
        /\ Become(IF copied THEN sym_copy(G, g) ELSE G)
        /\ scopes' = IF copied THEN Spec0!Bind(global, Here, v, Fresh(G)) ELSE global
        /\ UNCHANGED <<blocks, failed, program>>

\* external_global_sym: the call of a function nobody declared.
ImplicitFunction(v) ==
    /\ HasRoom(1) /\ blocks # <<>> /\ program.externals
    /\ head[v] = Nil
    /\ Become(global_identifier_push(Tables, v))
    /\ scopes' = Spec0!Bind(scopes, 1, v, Fresh(Tables))
    /\ UNCHANGED <<blocks, failed, program>>

\* post_type: the parameters of a prototype are symbols while it is read.  Then they
\* leave their chains, stay on the stack, and lose their names; an enumerator that a
\* later parameter defines keeps its name.
Prototype ==
    /\ HasRoom(2) /\ (InFunction => blocks # <<>>)
    /\ \E p \in Names, e \in IF program.exprs THEN Names \cup {Anon} ELSE {Anon} :
          LET where == StackInUse(Tables)
              first == Fresh(Tables)
              P == sym_push(Tables, p, local_scope + 1)
              E == sym_push(P, e, local_scope + 1)
              K == sym_pop(E, where, Len(Tables[where]), TRUE)
          IN  IF p = e
              THEN failed' = TRUE /\ UNCHANGED tables
              ELSE Become([K EXCEPT !.sym[first].v = Anon]) /\ UNCHANGED failed
    /\ UNCHANGED <<blocks, scopes, program>>

\* tccgen_finish, at the end of the unit or after an error, wherever that was: both
\* stacks are popped.  The names of a failed unit go with table_ident.
EndUnit ==
    /\ failed \/ ~InFunction
    /\ LET T == sym_pop(sym_pop(Tables, "global", 0, FALSE), "local", 0, FALSE)
       IN  Become(IF failed THEN [T EXCEPT !.head = Spec0!Empty] ELSE T)
    /\ scopes' = <<Spec0!Empty>>
    /\ blocks' = <<>> /\ failed' = FALSE
    /\ UNCHANGED program

Next ==
    \/ EndUnit \/ BeginFunction \/ NewScope \/ PrevScope \/ EndFunction \/ Prototype
    \/ \E v \in Names :
          \/ Declare(v) \/ ImplicitFunction(v)
          \/ \E is_func \in BOOLEAN : External(v, is_func)

Init ==
    /\ sym = [s \in Syms |-> Blank]
    /\ head = [v \in Names |-> Nil]
    /\ local_stack = <<>> /\ global_stack = <<>>
    /\ sym_free_first = [s \in Syms |-> 1]
    /\ blocks = <<>> /\ failed = FALSE
    /\ scopes = <<Spec0!Empty>>
    /\ program \in Programs

Spec == Init /\ [][Next]_vars

-----------------------------------------------------------------------------
(* Properties *)

\* Every variable keeps its type.
TypeOK ==
    /\ sym \in [Syms -> [v : Names \cup {Anon}, scope : 0..MaxDepth + 1, prev_tok : 0..MaxSyms]]
    /\ head \in [Names -> 0..MaxSyms]
    /\ local_stack \in Seq(Syms) /\ global_stack \in Seq(Syms)
    /\ sym_free_first \in [Syms -> Nat]
    /\ Len(blocks) <= MaxDepth
    /\ failed \in BOOLEAN

\* The chains implement the scopes: sym_find gives the innermost declaration that is
\* visible, after every declaration and every closing brace.
ImplementsScopes == Spec0!Spec

\* No symbol is lost and none is freed twice: the pool is what is on the two stacks
\* and on the free list; and what a symbol holds has its type.
PoolPartition ==
    /\ TypeOK
    /\ LET stacked == local_stack \o global_stack
       IN  \A s \in Syms :
               sym_free_first[s] + Cardinality({i \in DOMAIN stacked : stacked[i] = s}) = 1

\* No chain runs through a freed symbol, and every chain ends.
ChainsLive ==
    \A v \in Names :
        LET c == Chain(Tables, v) IN
        /\ c[MaxSyms] = Nil
        /\ \A n \in 0..MaxSyms : c[n] # Nil =>
              sym[c[n]].v = v /\ sym_free_first[c[n]] = 0

\* "sym_identifier will point to 's' when popped" (global_identifier_push): between
\* functions, the name of a global symbol finds a global symbol.
GlobalsFound ==
    local_stack = <<>> =>
        \A s \in ToSet(global_stack) :
            LET v == sym[s].v IN
            v # Anon /\ sym[s].scope = 0 => Contains(global_stack, head[v])
=============================================================================
