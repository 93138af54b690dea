------------------------------ MODULE MCBcheck ------------------------------
(* Programs of two kinds.  Those with a heap: two threads; three chunks, so    *)
(* that a chunk is used again as soon as two others are in use or waiting; one *)
(* place in free_reuse_list.  And those of one thread without a heap, which    *)
(* have the longer behaviours that functions, jumps and checking switched off  *)
(* and on need to meet.                                                        *)
EXTENDS Bcheck

CONSTANT HeapOps    \* bound on the operations of a program with a heap
ASSUME HeapAssumption == HeapOps \in 0..MaxOps

MCThreads == 1..2
MCChunks == {10, 14, 18}

VARIABLE program    \* "heap" or "jumps"

MCInit == Init /\ program \in {"heap", "jumps"}

MCNext ==
    /\ Next
    /\ IF program = "heap" THEN ops' <= HeapOps ELSE used' = {} /\ ~use_sem'
    /\ UNCHANGED program

MCSpec == MCInit /\ [][MCNext]_<<program, vars>>
==============================================================================
