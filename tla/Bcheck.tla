------------------------------- MODULE Bcheck -------------------------------
(* The bounds checker at run time: lib/bcheck.c on Linux.  The threads of a    *)
(* checked program allocate and release memory, call functions with arrays,    *)
(* jump out of them and follow pointers; the checker keeps the regions that    *)
(* they may access in one splay tree, behind one lock that is used only when   *)
(* there may be a second thread.                                               *)
(*                                                                             *)
(* The allocator (malloc_redir and its kin) hands out any chunk that is not in *)
(* use.  The array of the frame of depth d of thread t is at ArrayAt(t, d).    *)
EXTENDS SplayTree, FiniteSets, TLC

CONSTANTS
    Threads,      \* numbers of threads, 1 is the first
    Chunks,       \* addresses of the chunks of the allocator
    Sizes,        \* sizes of blocks and arrays
    Envs,         \* the names of each thread's jmp_bufs
    ReuseSize,    \* FREE_REUSE_SIZE
    MaxDepth,     \* bound on the nesting of calls
    MaxOps,       \* bound on the operations, together
    Deviations    \* what else the program does, see Known

(* What a program may do and the checker does not follow: realloc that moves a *)
(* block while another thread allocates, or that fails; releasing memory or    *)
(* leaving functions while checking is off; longjmp to a jmp_buf that jmp_list *)
(* lacks, or has as it was in another function, since it was set while checking*)
(* was off or a longjmp to one set earlier has forgotten it; a thread that ends*)
(* in the middle of its calls.                                                 *)
Known == {"realloc race", "realloc fails", "unchecked", "unlisted", "thread exit"}
ASSUME DeviationsAssumption == Deviations \subseteq Known

VARIABLES
    tree, use_sem, bounds_spin,
    free_reuse_list, free_reuse_index,
    jmp_list,    \* [penv, fp, end_fp, tid], the last one set first
    th,          \* what each thread does, see Thread
    used,        \* the chunks in use: the allocator
    blocks,      \* history: the blocks the program holds, [p, size, known]
    live,        \* history: the depth at which each jmp_buf was set, 0 if it is not valid
    ops          \* the number of operations begun

vars == <<tree, use_sem, bounds_spin, free_reuse_list, free_reuse_index, jmp_list, th, used,
          blocks, live, ops>>

NoOp == [do |-> "none"]

(* pc: "none" before it is created, "idle" in the program, "wait" before       *)
(* WAIT_SEM, "in" behind it, "free" before BOUND_FREE.                         *)
Thread == [pc |-> "idle", op |-> NoOp, tree |-> Nil, no_checking |-> 0, frames |-> << >>]

Depth(t) == Len(th[t].frames)
ArrayAt(t, d) == 100 * t - 4 * d
fp(t, d) == ArrayAt(t, d) + 3
BelowFrame(t, d) == ArrayAt(t, d) - 1
Static == 1

Checking(t) == th[t].no_checking = 0
Starts(t) == th[t].pc = "idle" /\ ops < MaxOps /\ ops' = ops + 1

(* Goes on to the locked part of an operation.                                 *)
Locked(t, op) == th' = [th EXCEPT ![t].pc = "wait", ![t].op = op]

Init ==
    /\ tree = Node(Static, 1, Nil, Nil)
    /\ use_sem = FALSE
    /\ bounds_spin = 0
    /\ free_reuse_list = [i \in 0..(ReuseSize - 1) |-> 0]
    /\ free_reuse_index = 0
    /\ jmp_list = << >>
    /\ th = [t \in Threads |-> [Thread EXCEPT !.pc = IF t = 1 THEN "idle" ELSE "none"]]
    /\ used = {}
    /\ blocks = {}
    /\ live = [t \in Threads |-> [e \in Envs |-> 0]]
    /\ ops = 0

regions == <<tree, free_reuse_list, free_reuse_index, jmp_list>>
locks == <<use_sem, bounds_spin>>

------------------------------------------------------------------------------
(* The heap.                                                                   *)

(* A realloc that has moved its block and not yet told the tree.               *)
Moving == {th[u].op.p : u \in {x \in Threads : th[x].op.do = "realloc"}}
Allocatable ==
    Chunks \ (used \union IF "realloc race" \in Deviations THEN {} ELSE Moving)

Block(p, size, known) == [p |-> p, size |-> size, known |-> known]

malloc(t, size) ==
    /\ Starts(t)
    /\ \E p \in Allocatable :
          /\ used' = used \union {p}
          /\ IF Checking(t)
             THEN Locked(t, [do |-> "malloc", p |-> p, size |-> size]) /\ UNCHANGED blocks
             ELSE blocks' = blocks \union {Block(p, size, FALSE)} /\ UNCHANGED th
    /\ UNCHANGED <<regions, locks, live>>

free(t, b) ==
    /\ Starts(t)
    /\ Checking(t) \/ ~b.known \/ "unchecked" \in Deviations
    /\ blocks' = blocks \ {b}
    /\ IF Checking(t) THEN Locked(t, [do |-> "free", p |-> b.p]) /\ UNCHANGED used
       ELSE used' = used \ {b.p} /\ UNCHANGED th
    /\ UNCHANGED <<regions, locks, live>>

(* The new block q is the old place, another one, or 0 if there is no memory:  *)
(* then the old block stays.                                                   *)
realloc(t, b, size) ==
    /\ Starts(t)
    /\ Checking(t) \/ ~b.known \/ "unchecked" \in Deviations
    /\ \E q \in {b.p} \union Allocatable
                 \union (IF "realloc fails" \in Deviations THEN {0} ELSE {}) :
          /\ used' = IF q = 0 THEN used ELSE (used \ {b.p}) \union {q}
          /\ LET rest == IF q = 0 THEN blocks ELSE blocks \ {b}
             IN  IF Checking(t)
                 THEN /\ Locked(t, [do |-> "realloc", p |-> b.p, q |-> q, size |-> size])
                      /\ blocks' = rest
                 ELSE /\ blocks' = rest \union (IF q = 0 THEN {} ELSE {Block(q, size, FALSE)})
                      /\ UNCHANGED th
    /\ UNCHANGED <<regions, locks, live>>

(* free has given its block, or one that waited long enough, to BOUND_FREE.    *)
bound_free(t) ==
    /\ th[t].pc = "free"
    /\ used' = used \ {th[t].op.p}
    /\ th' = [th EXCEPT ![t].pc = "idle", ![t].op = NoOp]
    /\ UNCHANGED <<regions, locks, blocks, live, ops>>

------------------------------------------------------------------------------
(* Functions with arrays, and jumps out of them.                               *)

local_new(t, size) ==
    /\ Starts(t) /\ Depth(t) < MaxDepth
    /\ IF Checking(t) THEN Locked(t, [do |-> "local_new", size |-> size])
       ELSE th' = [th EXCEPT ![t].frames = Append(@, [size |-> size, known |-> FALSE])]
    /\ UNCHANGED <<regions, locks, used, blocks, live>>

(* The jmp_bufs of a thread that are valid in its first d frames.              *)
Alive(t, d) == [live EXCEPT ![t] = [e \in Envs |-> IF @[e] <= d THEN @[e] ELSE 0]]

local_delete(t) ==
    /\ Starts(t) /\ Depth(t) > 0
    /\ Checking(t) \/ ~Last(th[t].frames).known \/ "unchecked" \in Deviations
    /\ live' = Alive(t, Depth(t) - 1)
    /\ IF Checking(t) THEN Locked(t, [do |-> "local_delete"])
       ELSE th' = [th EXCEPT ![t].frames = Front(@)]
    /\ UNCHANGED <<regions, locks, used, blocks>>

(* With checking off nothing is recorded, and the jmp_buf is as good.          *)
setjmp(t, e) ==
    /\ Starts(t) /\ Depth(t) > 0
    /\ live' = [live EXCEPT ![t][e] = Depth(t)]
    /\ IF Checking(t) THEN Locked(t, [do |-> "setjmp", env |-> e]) ELSE UNCHANGED th
    /\ UNCHANGED <<regions, locks, used, blocks>>

Entry(t, e) == {i \in DOMAIN jmp_list : jmp_list[i].penv = <<t, e>>}

(* The entries before that of <<t, e>> that a longjmp to it takes out.         *)
Before(t, e) ==
    LET k == CHOOSE i \in Entry(t, e) : TRUE
    IN  {i \in 1..(k - 1) : jmp_list[i].tid = t}

(* The checker knows where a longjmp goes, or it leaves nothing the tree has.  *)
Followed(t, e) ==
    IF Checking(t) /\ Entry(t, e) # {}
    THEN \A i \in Entry(t, e) : jmp_list[i].fp = fp(t, live[t][e])
    ELSE \A d \in (live[t][e] + 1)..Depth(t) : ~th[t].frames[d].known

longjmp(t, e) ==
    /\ Starts(t) /\ live[t][e] > 0
    /\ Followed(t, e) \/ (IF Checking(t) THEN "unlisted" ELSE "unchecked") \in Deviations
    /\ live' = Alive(t, live[t][e])
    /\ IF Checking(t) THEN Locked(t, [do |-> "longjmp", env |-> e])
       ELSE th' = [th EXCEPT ![t].frames = SubSeq(@, 1, live[t][e])]
    /\ UNCHANGED <<regions, locks, used, blocks>>

(* A pointer into some array or block is followed.                             *)
access(t, p) ==
    /\ Starts(t) /\ Checking(t)
    /\ Locked(t, [do |-> "access", p |-> p])
    /\ UNCHANGED <<regions, locks, used, blocks, live>>

__bounds_checking(t, no_check) ==
    /\ Starts(t) /\ th[t].no_checking + no_check \in 0..1
    /\ th' = [th EXCEPT ![t].no_checking = @ + no_check]
    /\ UNCHANGED <<regions, locks, used, blocks, live>>

pthread_create(t, u) ==
    /\ Starts(t) /\ th[u].pc = "none"
    /\ use_sem' = TRUE
    /\ th' = [th EXCEPT ![u] = Thread]
    /\ UNCHANGED <<regions, bounds_spin, used, blocks, live>>

(* The end of a thread: its start routine returns, or pthread_exit.            *)
thread_end(t) ==
    /\ Starts(t) /\ t # 1
    /\ Depth(t) = 0 \/ "thread exit" \in Deviations
    /\ th' = [th EXCEPT ![t] = [Thread EXCEPT !.pc = "none"]]
    /\ live' = Alive(t, 0)
    /\ UNCHANGED <<regions, locks, used, blocks>>

------------------------------------------------------------------------------
(* The locked parts.  They work on the tree as it was when the lock was taken. *)

\* Mutant: nobody waits for the lock.
WAIT_SEMNot(t) ==
    /\ th[t].pc = "wait"
    /\ th' = [th EXCEPT ![t].pc = "in", ![t].tree = tree]
    /\ UNCHANGED <<regions, locks, used, blocks, live, ops>>

WAIT_SEM(t) ==
    /\ th[t].pc = "wait"
    /\ use_sem => bounds_spin = 0
    /\ bounds_spin' = IF use_sem THEN t ELSE bounds_spin
    /\ th' = [th EXCEPT ![t].pc = "in", ![t].tree = tree]
    /\ UNCHANGED <<regions, use_sem, used, blocks, live, ops>>

(* Leaves the locked part with the tree new and the frames fr.                 *)
POST_SEM(t, new, fr, pc, op) ==
    /\ tree' = new
    /\ bounds_spin' = IF use_sem THEN 0 ELSE bounds_spin
    /\ th' = [th EXCEPT ![t].pc = pc, ![t].op = op, ![t].tree = Nil, ![t].frames = fr]
    /\ UNCHANGED <<use_sem, ops>>

Back(t, new, fr) == POST_SEM(t, new, fr, "idle", NoOp)
In(t, do) == th[t].pc = "in" /\ th[t].op.do = do

malloc_locked(t) ==
    LET op == th[t].op
    IN  /\ In(t, "malloc")
        /\ Back(t, splay_insert(op.p, op.size, th[t].tree), th[t].frames)
        /\ blocks' = blocks \union {Block(op.p, op.size, TRUE)}
        /\ UNCHANGED <<free_reuse_list, free_reuse_index, jmp_list, used, live>>

(* A freed block waits in free_reuse_list, invalid, until ReuseSize others     *)
(* were freed; then it leaves the tree and goes to BOUND_FREE.                 *)
free_locked(t) ==
    LET addr == th[t].op.p
        root == splay(addr, th[t].tree)
        old  == free_reuse_list[free_reuse_index]
        mark == [root EXCEPT !.is_invalid = TRUE]
    IN  /\ In(t, "free")
        /\ IF root.start = addr
           THEN /\ POST_SEM(t, IF old = 0 THEN mark ELSE splay_delete(old, mark), th[t].frames,
                            IF old = 0 THEN "idle" ELSE "free",
                            IF old = 0 THEN NoOp ELSE [do |-> "free", p |-> old])
                /\ free_reuse_list' = [free_reuse_list EXCEPT ![free_reuse_index] = addr]
                /\ free_reuse_index' = (free_reuse_index + 1) % ReuseSize
           ELSE /\ POST_SEM(t, root, th[t].frames, "free", th[t].op)
                /\ UNCHANGED <<free_reuse_list, free_reuse_index>>
        /\ UNCHANGED <<jmp_list, used, blocks, live>>

realloc_locked(t) ==
    LET op   == th[t].op
        less == splay_delete(op.p, th[t].tree)
    IN  /\ In(t, "realloc")
        /\ Back(t, IF op.q = 0 THEN less ELSE splay_insert(op.q, op.size, less), th[t].frames)
        /\ blocks' = blocks \union (IF op.q = 0 THEN {} ELSE {Block(op.q, op.size, TRUE)})
        /\ UNCHANGED <<free_reuse_list, free_reuse_index, jmp_list, used, live>>

local_new_locked(t) ==
    LET d == Depth(t) + 1
    IN  /\ In(t, "local_new")
        /\ Back(t, splay_insert(ArrayAt(t, d), th[t].op.size, th[t].tree),
                Append(th[t].frames, [size |-> th[t].op.size, known |-> TRUE]))
        /\ UNCHANGED <<free_reuse_list, free_reuse_index, jmp_list, used, blocks, live>>

(* The entries of setjmp of the function go, too.                              *)
local_delete_locked(t) ==
    /\ In(t, "local_delete")
    /\ Back(t, splay_delete(ArrayAt(t, Depth(t)), th[t].tree), Front(th[t].frames))
    /\ jmp_list' = SelectSeq(jmp_list, LAMBDA j : j.fp # fp(t, Depth(t)))
    /\ UNCHANGED <<free_reuse_list, free_reuse_index, used, blocks, live>>

(* An entry for this jmp_buf is set again where it stands, or a new one is put *)
(* in front.                                                                   *)
setjmp_locked(t) ==
    LET e    == <<t, th[t].op.env>>
        jl   == [penv |-> e, fp |-> fp(t, Depth(t)), end_fp |-> BelowFrame(t, Depth(t)),
                 tid |-> t]
        same == Entry(t, th[t].op.env)
    IN  /\ In(t, "setjmp")
        /\ Back(t, th[t].tree, th[t].frames)
        /\ jmp_list' = IF same = {} THEN <<jl>> \o jmp_list
                       ELSE [i \in DOMAIN jmp_list |-> IF i \in same THEN jl ELSE jmp_list[i]]
        /\ UNCHANGED <<free_reuse_list, free_reuse_index, used, blocks, live>>

(* Takes out the arrays between the function that jumps and the one that has   *)
(* called setjmp, and the thread's entries in front of that of the jmp_buf.    *)
longjmp_locked(t) ==
    LET e  == th[t].op.env
        at == {i \in Entry(t, e) : jmp_list[i].tid = t}
        fr == SubSeq(th[t].frames, 1, live[t][e])
    IN  /\ In(t, "longjmp")
        /\ IF at = {} THEN Back(t, th[t].tree, fr) /\ UNCHANGED jmp_list
           ELSE LET gone == Before(t, e)
                    keep == SetToSortSeq(DOMAIN jmp_list \ gone, <)
                    jl   == jmp_list[CHOOSE i \in at : TRUE]
                IN  /\ Back(t, DeleteBetween(th[t].tree, BelowFrame(t, Depth(t)), jl.end_fp), fr)
                    /\ jmp_list' = [i \in DOMAIN keep |-> jmp_list[keep[i]]]
        /\ UNCHANGED <<free_reuse_list, free_reuse_index, used, blocks, live>>

access_locked(t) ==
    /\ In(t, "access")
    /\ Back(t, __bound_ptr(th[t].op.p, 0, 1, th[t].tree).tree, th[t].frames)
    /\ UNCHANGED <<free_reuse_list, free_reuse_index, jmp_list, used, blocks, live>>

------------------------------------------------------------------------------
Arrays(t) == {ArrayAt(t, d) : d \in 1..Depth(t)}

Step(t) ==
    \/ \E size \in Sizes :
          \/ malloc(t, size) \/ local_new(t, size)
          \/ \E b \in blocks : realloc(t, b, size)
    \/ \E b \in blocks : free(t, b)
    \/ local_delete(t) \/ thread_end(t) \/ bound_free(t) \/ WAIT_SEM(t)
    \/ \E e \in Envs : setjmp(t, e) \/ longjmp(t, e)
    \/ \E p \in {b.p : b \in blocks} \union Arrays(t) \union {Static} : access(t, p)
    \/ \E n \in {-1, 1} : __bounds_checking(t, n)
    \/ \E u \in Threads : pthread_create(t, u)
    \/ malloc_locked(t) \/ free_locked(t) \/ realloc_locked(t)
    \/ local_new_locked(t) \/ local_delete_locked(t)
    \/ setjmp_locked(t) \/ longjmp_locked(t) \/ access_locked(t)

Next == \E t \in Threads : Step(t)

Spec == Init /\ [][Next]_vars

------------------------------------------------------------------------------
(* What the program holds: its blocks and the arrays of its active functions,  *)
(* as far as it took them with checking on.  A function that is being left     *)
(* holds its array no more.                                                    *)
Leaving(t) == th[t].op.do = "local_delete"
Jumping(t, d) == th[t].op.do = "longjmp" /\ d > live[t][th[t].op.env]

Held ==
    {[start |-> b.p, size |-> b.size] : b \in {x \in blocks : x.known}}
    \union {[start |-> Static, size |-> 1]}
    \union UNION {{[start |-> ArrayAt(t, d), size |-> th[t].frames[d].size] :
                     d \in {k \in 1..Depth(t) : /\ th[t].frames[k].known
                                                /\ ~(Leaving(t) /\ k = Depth(t))
                                                /\ ~Jumping(t, k)}} : t \in Threads}

Quarantined == {free_reuse_list[i] : i \in DOMAIN free_reuse_list} \ {0}

(* What an operation under way is about to take out.                           *)
UnderWay(t) ==
    CASE th[t].op.do \in {"free", "realloc"} -> {th[t].op.p}
      [] Leaving(t) -> {ArrayAt(t, Depth(t))}
      [] th[t].op.do = "longjmp" -> {ArrayAt(t, d) : d \in {k \in 1..Depth(t) : Jumping(t, k)}}
      [] OTHER -> {}

(* The tree has each region the program holds, with its size, and nothing else *)
(* but the blocks that wait in free_reuse_list, which are invalid and still    *)
(* allocated, and what an operation under way will take out.  A region too     *)
(* many is an error reported where there is none, once the memory is used      *)
(* again.  About every operation of lib/bcheck.c that changes the tree, and    *)
(* about its lock.                                                             *)
RegionsKnown ==
    /\ \A r \in Held : [start |-> r.start, size |-> r.size, is_invalid |-> FALSE] \in Nodes(tree)
    /\ \A n \in Nodes(tree) :
          \/ ~n.is_invalid /\ [start |-> n.start, size |-> n.size] \in Held
          \/ n.is_invalid /\ n.start \in Quarantined
          \/ \E t \in Threads : n.start \in UnderWay(t)
    /\ Quarantined \subseteq used

(* In whatever shape the tree is, an access by a pointer anywhere into what    *)
(* the program holds passes exactly if it stays inside, a pointer may point to *)
(* its end, and no pointer into a freed block that waits is let through.       *)
(* About the search of __bound_ptr_add and __bound_ptr_indir and the rotations *)
(* of splay and splay_end.                                                     *)
AccessesJudged ==
    /\ \A r \in Held : \A at \in 0..r.size, offset \in 0..2 :
          /\ __bound_ptr(r.start + at, offset, 1, tree).pointer
                = IF at + offset < r.size THEN "ok" ELSE "invalid"
          /\ __bound_ptr(r.start + at, offset, 0, tree).pointer
                = IF at + offset <= r.size THEN "ok" ELSE "invalid"
    /\ \A p \in Quarantined : __bound_ptr(p, 0, 1, tree).pointer = "invalid"
==============================================================================
