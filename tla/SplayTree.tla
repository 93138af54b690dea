------------------------------ MODULE SplayTree ------------------------------
(* The splay tree of lib/bcheck.c: a search tree of disjoint memory regions    *)
(* that every search, insertion and deletion reshapes.                         *)
EXTENDS Integers, Sequences, SequencesExt

Nil == [none |-> TRUE]
Node(start, size, left, right) ==
    [start |-> start, size |-> size, is_invalid |-> FALSE, left |-> left, right |-> right]

(* compare: where addr lies of the region of a node; compare_end, by "end": of *)
(* the address just behind it.                                                 *)
compare(by, addr, t) ==
    IF by = "end"
    THEN IF addr < t.start + t.size THEN -1 ELSE IF addr > t.start + t.size THEN 1 ELSE 0
    ELSE IF addr < t.start THEN -1 ELSE IF addr >= t.start + t.size THEN 1 ELSE 0

(* The nodes that the search has put aside, the smaller ones ls and the larger *)
(* ones rs in the order it met them, become the subtrees of the new root.      *)
Assemble(t, ls, rs) ==
    [t EXCEPT !.left  = FoldRight(LAMBDA n, x : [n EXCEPT !.right = x], ls, t.left),
              !.right = FoldRight(LAMBDA n, x : [n EXCEPT !.left = x], rs, t.right)]

RotateRight(t) == [t.left EXCEPT !.right = [t EXCEPT !.left = t.left.right]]
RotateLeft(t) == [t.right EXCEPT !.left = [t EXCEPT !.right = t.right.left]]

RECURSIVE SplayFrom(_, _, _, _, _)
SplayFrom(by, addr, t, ls, rs) ==
    LET c == compare(by, addr, t)
        next == IF c < 0 THEN t.left ELSE t.right
        t1 == IF compare(by, addr, next) # c THEN t
              ELSE IF c < 0 THEN RotateRight(t) ELSE RotateLeft(t)
        next1 == IF c < 0 THEN t1.left ELSE t1.right
    IN  IF c = 0 \/ next = Nil THEN Assemble(t, ls, rs)
        ELSE IF next1 = Nil THEN Assemble(t1, ls, rs)
        ELSE IF c < 0 THEN SplayFrom(by, addr, next1, ls, Append(rs, t1))
        ELSE SplayFrom(by, addr, next1, Append(ls, t1), rs)

(* The region at addr, or one next to it, becomes the root.                    *)
splay(addr, t) == IF t = Nil THEN Nil ELSE SplayFrom("region", addr, t, << >>, << >>)
splay_end(addr, t) == IF t = Nil THEN Nil ELSE SplayFrom("end", addr, t, << >>, << >>)

(* A region that begins inside one that is there is not added.                 *)
splay_insert(addr, size, tree) ==
    LET t == splay(addr, tree)
    IN  CASE t = Nil -> Node(addr, size, Nil, Nil)
          [] t # Nil /\ compare("region", addr, t) = 0 -> t
          [] t # Nil /\ compare("region", addr, t) < 0 ->
               Node(addr, size, t.left, [t EXCEPT !.left = Nil])
          [] t # Nil /\ compare("region", addr, t) > 0 ->
               Node(addr, size, [t EXCEPT !.right = Nil], t.right)

splay_delete(addr, tree) ==
    LET t == splay(addr, tree)
    IN  IF t = Nil \/ t.start # addr THEN t
        ELSE IF t.left = Nil THEN t.right
        ELSE [splay(addr, t.left) EXCEPT !.right = t.right]

(* A region that begins between two addresses, found without reshaping.        *)
RECURSIVE Between(_, _, _)
Between(t, lo, hi) ==
    IF t = Nil THEN Nil
    ELSE IF t.start < lo THEN Between(t.right, lo, hi)
    ELSE IF t.start > hi THEN Between(t.left, lo, hi)
    ELSE t

RECURSIVE DeleteBetween(_, _, _)
DeleteBetween(tree, lo, hi) ==
    LET t == Between(tree, lo, hi)
    IN  IF t = Nil THEN tree ELSE DeleteBetween(splay_delete(t.start, tree), lo, hi)

(* __bound_ptr_add (width 0) and __bound_ptr_indir<width>: what becomes of the *)
(* tree, and of the pointer p + offset: "ok", "invalid", or "unknown" if p is  *)
(* in no region.                                                               *)
Inside(p, t) == 0 <= p - t.start /\ p - t.start < t.size

\* Mutant: without the search for a region that ends at p.
FoundInside(p, tree) == IF Inside(p, tree) THEN tree ELSE splay(p, tree)

Found(p, tree) ==
    LET t1 == IF Inside(p, tree) THEN tree ELSE splay(p, tree)
    IN  IF Inside(p, t1) THEN t1 ELSE splay_end(p, t1)

Judged(p, offset, width, t) ==
    [tree |-> t,
     pointer |-> IF ~(0 <= p - t.start /\ p - t.start <= t.size) THEN "unknown"
                 ELSE IF t.is_invalid \/ p - t.start + offset + width > t.size THEN "invalid"
                 ELSE "ok"]

__bound_ptr(p, offset, width, tree) ==
    IF tree = Nil THEN [tree |-> Nil, pointer |-> "ok"]
    ELSE Judged(p, offset, width, Found(p, tree))

------------------------------------------------------------------------------
RECURSIVE Nodes(_)
Nodes(t) ==
    IF t = Nil THEN {}
    ELSE {[start |-> t.start, size |-> t.size, is_invalid |-> t.is_invalid]}
         \union Nodes(t.left) \union Nodes(t.right)
==============================================================================
