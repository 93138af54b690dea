--------------------------- MODULE SymStackProofs ---------------------------
(* Why the chains of the symbol tables find what the language says is        *)
(* visible, and no symbol is lost or freed twice: for any names, any number  *)
(* of symbols and any depth of blocks.                                       *)
EXTENDS SymStack, FiniteSetTheorems, WellFoundedInduction, TLAPS

Records == [v : Names \cup {Anon}, scope : 0..MaxDepth + 1, prev_tok : 0..MaxSyms]
OneScope == [Names -> 0..MaxSyms]
Blocks == [lstk : Nat, is_expr : BOOLEAN]

TableSet == [sym : [Syms -> Records], head : [Names -> 0..MaxSyms],
             local : Seq(Syms), global : Seq(Syms), free : [Syms -> Nat]]

(* The invariant is of tables T, of the scopes ss, and of where on the local *)
(* stack each scope begins.                                                  *)

NameAt(T, i) == T.sym[T.local[i]].v
PrevAt(T, i) == T.sym[T.local[i]].prev_tok
Stacked(T, s) == (\E i \in 1..Len(T.local) : T.local[i] = s) \/ (\E i \in 1..Len(T.global) : T.global[i] = s)

Distinct(q) == \A i, j \in 1..Len(q) : q[i] = q[j] => i = j

\* Each symbol lies on one stack, once, or is free.
Pool(T) ==
    /\ T \in TableSet
    /\ Distinct(T.local) /\ Distinct(T.global)
    /\ \A i \in 1..Len(T.local), j \in 1..Len(T.global) : T.local[i] # T.global[j]
    /\ \A s \in Syms : T.free[s] = IF Stacked(T, s) THEN 0 ELSE 1

\* The file scope F is on the global stack.
Filed(T, F) ==
    /\ \A v \in Names : F[v] # Nil =>
          /\ \E i \in 1..Len(T.global) : T.global[i] = F[v]
          /\ T.sym[F[v]].v = v /\ T.sym[F[v]].scope = 0 /\ T.sym[F[v]].prev_tok = Nil
    /\ \A i \in 1..Len(T.global) :
          LET y == T.sym[T.global[i]] IN y.v # Anon =>
              /\ y.scope = 0 => F[y.v] = T.global[i]
              /\ (\A k \in 1..(i - 1) : T.sym[T.global[k]].v # y.v) => y.prev_tok = Nil

\* The declarations of a scope lie on the local stack, above its beginning and below its end.
End(T, base, j) == IF j = Len(base) THEN Len(T.local) ELSE base[j + 1]

Scoped(T, ss, base) == \A j \in 2..Len(ss), v \in Names : ss[j][v] # Nil =>
    \E i \in 1..Len(T.local) :
        base[j] < i /\ i <= End(T, base, j) /\ T.local[i] = ss[j][v] /\ NameAt(T, i) = v

Headed(T, ss) == \A v \in Names : T.head[v] = Spec0!Lookup(ss, v)

\* Of the symbols of a name above the beginning of a scope, the lowest hides what is visible outside.
Hides(T, ss, base) == \A j \in 2..Len(ss), i \in 1..Len(T.local) :
    /\ NameAt(T, i) # Anon /\ base[j] < i
    /\ \A k \in 1..(i - 1) : base[j] < k => NameAt(T, k) # NameAt(T, i)
    => PrevAt(T, i) = Spec0!Lookup(SubSeq(ss, 1, j - 1), NameAt(T, i))

\* s is of the file scope, or a symbol of name v below place i.
Below(T, F, i, v, s) == s = F[v] \/ \E k \in 1..(i - 1) : T.local[k] = s /\ NameAt(T, k) = v

Down(T, F) == \A i \in 1..Len(T.local) :
    NameAt(T, i) # Anon => Below(T, F, i, NameAt(T, i), PrevAt(T, i))

\* The beginnings.
Ordered(T, ss, base) ==
    /\ ss \in Seq(OneScope) /\ base \in Seq(Nat) /\ Len(ss) >= 1 /\ Len(base) = Len(ss)
    /\ \A j \in 1..Len(base) : base[j] <= Len(T.local) /\ \A k \in 1..j : base[k] <= base[j]

Tidy(T, ss, base) ==
    /\ Pool(T) /\ Ordered(T, ss, base) /\ Filed(T, ss[1])
    /\ Scoped(T, ss, base) /\ Headed(T, ss) /\ Hides(T, ss, base) /\ Down(T, ss[1])

\* s is the next symbol of name v below place i.
NextBelow(T, F, i, v, s) ==
    /\ \A k \in 1..(i - 1) :
          NameAt(T, k) = v /\ (\A m \in (k + 1)..(i - 1) : NameAt(T, m) # v) => s = T.local[k]
    /\ (\A k \in 1..(i - 1) : NameAt(T, k) # v) => s = F[v]

\* A chain has all the symbols of its name that are on the local stack.
Chained(T, F) ==
    /\ \A i \in 1..Len(T.local) : NameAt(T, i) # Anon => NextBelow(T, F, i, NameAt(T, i), PrevAt(T, i))
    /\ \A v \in Names : NextBelow(T, F, Len(T.local) + 1, v, T.head[v])
    /\ \A i \in 1..Len(T.local) :
          NameAt(T, i) # Anon /\ T.sym[T.local[i]].scope = 0 => F[NameAt(T, i)] # Nil

\* The scopes are the file, the parameters, and the blocks.
BaseOf(ss, bs) == [j \in 1..Len(ss) |-> IF j <= 2 THEN 0 ELSE bs[j - 2].lstk]

Shape(T, ss, bs, p) ==
    /\ bs \in Seq(Blocks) /\ Len(bs) <= MaxDepth
    /\ Len(ss) = IF T.local = <<>> THEN 1 ELSE Len(bs) + 2
    /\ T.local = <<>> => bs = <<>>
    /\ \A j \in 1..Len(bs) : bs[j].lstk >= 1 /\ (bs[j].is_expr => p.exprs)

\* The invariant, of tables T, scopes ss and blocks bs, in a program of kind p.
Good(T, ss, bs, p) ==
    Shape(T, ss, bs, p) /\ Tidy(T, ss, BaseOf(ss, bs)) /\ (p.externals => Chained(T, ss[1]))

SymInv == program \in Programs /\ failed \in BOOLEAN /\ Good(Tables, scopes, blocks, program)

\* A program does not declare external names in functions and also have declarations that leave
\* their chains before they leave the stack.
NeverBoth == \A p \in Programs : ~(p.exprs /\ p.externals)

-----------------------------------------------------------------------------
(* What is visible *)

\* A set of natural numbers has a least element, and a greatest if it is bounded.
LEMMA LeastIn ==
    ASSUME NEW S, S \subseteq Nat, S # {}
    PROVE  \E i \in S : \A j \in S : i <= j
<1> DEFINE R == OpToRel(<, Nat)
<1>1. \A x, y \in Nat : <<y, x>> \notin R => x <= y
  BY DEF OpToRel
<1>2. IsWellFoundedOn(R, Nat)
  BY NatLessThanWellFounded
<1> HIDE DEF R
<1>3. PICK x \in S : \A y \in S : <<y, x>> \notin R
  BY <1>2, WFMin
<1> QED
  BY <1>1, <1>3

LEMMA GreatestIn ==
    ASSUME NEW n \in Nat, NEW S, S \subseteq 0..n, S # {}
    PROVE  \E i \in S : \A j \in S : j <= i
<1> DEFINE T == {n - i : i \in S}
<1>1. T \subseteq Nat /\ T # {}
  <2>1. PICK x : x \in S
    OBVIOUS
  <2>2. n - x \in T
    BY <2>1
  <2>3. ASSUME NEW t \in T PROVE t \in Nat
    <3>1. PICK i \in S : t = n - i
      BY <2>3
    <3>2. i \in 0..n
      BY <3>1
    <3> QED
      BY <3>1, <3>2
  <2> QED
    BY <2>2, <2>3
<1>2. PICK k \in T : \A j \in T : k <= j
  BY <1>1, LeastIn
<1>3. PICK i \in S : k = n - i
  BY <1>2
<1>4. ASSUME NEW j \in S PROVE j <= i
  <2>1. n - i <= n - j
    BY <1>2, <1>3
  <2> QED
    BY <2>1
<1> QED
  BY <1>4

\* The innermost declaration of v is that of the k-th scope, or there is none.
LEMMA LookupIs ==
    ASSUME NEW ss \in Seq(OneScope), NEW v \in Names
    PROVE  /\ \A k \in 1..Len(ss) : ss[k][v] # Nil /\ (\A j \in (k + 1)..Len(ss) : ss[j][v] = Nil) =>
                 Spec0!Lookup(ss, v) = ss[k][v]
           /\ (\A j \in 1..Len(ss) : ss[j][v] = Nil) => Spec0!Lookup(ss, v) = Nil
           /\ \/ \A j \in 1..Len(ss) : ss[j][v] = Nil
              \/ \E k \in 1..Len(ss) : ss[k][v] # Nil /\ \A j \in (k + 1)..Len(ss) : ss[j][v] = Nil
<1> DEFINE here == {i \in DOMAIN ss : ss[i][v] # Nil}
<1>1. Len(ss) \in Nat /\ DOMAIN ss = 1..Len(ss)
  OBVIOUS
<1>2. Spec0!Lookup(ss, v) = IF here = {} THEN Nil ELSE ss[CHOOSE i \in here : \A j \in here : j <= i][v]
  BY DEF Spec0!Lookup
<1>3. ASSUME NEW k \in 1..Len(ss), ss[k][v] # Nil, \A j \in (k + 1)..Len(ss) : ss[j][v] = Nil
      PROVE  Spec0!Lookup(ss, v) = ss[k][v]
  <2>1. k \in here /\ \A j \in here : j <= k
    BY <1>1, <1>3
  <2>2. \A i \in here : (\A j \in here : j <= i) => i = k
    BY <1>1, <2>1
  <2>3. (CHOOSE i \in here : \A j \in here : j <= i) = k
    BY <2>1, <2>2
  <2> QED
    BY <1>2, <2>1, <2>3
<1>4. (\A j \in 1..Len(ss) : ss[j][v] = Nil) => Spec0!Lookup(ss, v) = Nil
  BY <1>1, <1>2
<1>5. ASSUME ~ \A j \in 1..Len(ss) : ss[j][v] = Nil
      PROVE  \E k \in 1..Len(ss) : ss[k][v] # Nil /\ \A j \in (k + 1)..Len(ss) : ss[j][v] = Nil
  <2>1. here # {} /\ here \subseteq 0..Len(ss)
    BY <1>1, <1>5
  <2>2. PICK k \in here : \A j \in here : j <= k
    BY <1>1, <2>1, GreatestIn
  <2> QED
    BY <1>1, <2>2
<1> QED
  BY <1>3, <1>4, <1>5

\* Only the scopes up to the last that declares v matter.
LEMMA LookupOuter ==
    ASSUME NEW ss \in Seq(OneScope), NEW v \in Names, NEW m \in 0..Len(ss),
           \A j \in (m + 1)..Len(ss) : ss[j][v] = Nil
    PROVE  Spec0!Lookup(ss, v) = Spec0!Lookup(SubSeq(ss, 1, m), v)
<1> DEFINE outer == SubSeq(ss, 1, m)
<1>1. Len(ss) \in Nat /\ outer \in Seq(OneScope) /\ Len(outer) = m /\ \A j \in 1..m : outer[j] = ss[j]
  OBVIOUS
<1> HIDE DEF outer
<1>2. CASE \A j \in 1..m : outer[j][v] = Nil
  <2>1. \A j \in 1..Len(ss) : ss[j][v] = Nil
    BY <1>1, <1>2
  <2>2. Spec0!Lookup(ss, v) = Nil
    BY <2>1, LookupIs
  <2>3. Spec0!Lookup(outer, v) = Nil
    BY <1>1, <1>2, LookupIs
  <2> QED
    BY <2>2, <2>3 DEF outer
<1>3. ASSUME NEW k \in 1..m, outer[k][v] # Nil, \A j \in (k + 1)..m : outer[j][v] = Nil
      PROVE  Spec0!Lookup(ss, v) = Spec0!Lookup(outer, v)
  <2>1. k \in 1..Len(ss) /\ ss[k][v] # Nil /\ \A j \in (k + 1)..Len(ss) : ss[j][v] = Nil
    BY <1>1, <1>3
  <2>2. Spec0!Lookup(ss, v) = ss[k][v]
    BY <2>1, LookupIs
  <2>3. Spec0!Lookup(outer, v) = outer[k][v]
    BY <1>1, <1>3, LookupIs
  <2> QED
    BY <1>1, <2>2, <2>3
<1> QED
  BY <1>1, <1>2, <1>3, LookupIs DEF outer

\* A declaration in the innermost scope,
LEMMA LookupBind ==
    ASSUME NEW ss \in Seq(OneScope), Len(ss) >= 1, NEW v \in Names, NEW s \in Syms
    PROVE  LET bound == Spec0!Bind(ss, Len(ss), v, s)
           IN  /\ bound \in Seq(OneScope) /\ Len(bound) = Len(ss)
               /\ \A j \in 1..(Len(ss) - 1) : bound[j] = ss[j]
               /\ bound[Len(ss)][v] = s
               /\ \A w \in Names : w # v => bound[Len(ss)][w] = ss[Len(ss)][w]
               /\ Spec0!Lookup(bound, v) = s
               /\ \A w \in Names : w # v => Spec0!Lookup(bound, w) = Spec0!Lookup(ss, w)
<1> DEFINE n == Len(ss)
           scope == [ss[n] EXCEPT ![v] = s]
           bound == [ss EXCEPT ![n] = scope]
<1>1. n \in Nat /\ n \in 1..Len(ss) /\ ss[n] \in OneScope /\ Nil = 0 /\ s # Nil /\ s \in 0..MaxSyms
  BY BoundAssumption DEF Nil, Syms
<1>2. scope \in OneScope /\ scope[v] = s /\ \A w \in Names : w # v => scope[w] = ss[n][w]
  BY <1>1 DEF OneScope
<1>3. Spec0!Bind(ss, Len(ss), v, s) = bound
  BY DEF Spec0!Bind
<1> HIDE DEF scope
<1>4. bound \in Seq(OneScope) /\ Len(bound) = n /\ bound[n] = scope /\ \A j \in 1..(n - 1) : bound[j] = ss[j]
  BY <1>1, <1>2
<1> HIDE DEF bound
<1>5. Spec0!Lookup(bound, v) = s
  BY <1>1, <1>2, <1>4, LookupIs
<1>6. ASSUME NEW w \in Names, w # v PROVE Spec0!Lookup(bound, w) = Spec0!Lookup(ss, w)
  <2>1. \A j \in 1..n : bound[j][w] = ss[j][w]
    BY <1>1, <1>2, <1>4, <1>6
  <2>2. CASE \A j \in 1..n : ss[j][w] = Nil
    BY <2>1, <2>2, <1>4, LookupIs
  <2>3. ASSUME NEW k \in 1..n, ss[k][w] # Nil, \A j \in (k + 1)..n : ss[j][w] = Nil
        PROVE  Spec0!Lookup(bound, w) = Spec0!Lookup(ss, w)
    <3>1. bound[k][w] # Nil /\ \A j \in (k + 1)..n : bound[j][w] = Nil
      BY <2>1, <2>3, <1>1
    <3> QED
      BY <3>1, <2>1, <2>3, <1>4, LookupIs
  <2> QED
    BY <2>2, <2>3, LookupIs
<1> QED
  BY <1>2, <1>3, <1>4, <1>5, <1>6

\* and one in the file scope.
LEMMA LookupBindFile ==
    ASSUME NEW ss \in Seq(OneScope), Len(ss) >= 1, NEW v \in Names, NEW s \in Syms, ss[1][v] = Nil
    PROVE  LET bound == Spec0!Bind(ss, 1, v, s)
           IN  /\ bound \in Seq(OneScope) /\ Len(bound) = Len(ss)
               /\ \A j \in 2..Len(ss) : bound[j] = ss[j]
               /\ bound[1][v] = s
               /\ \A w \in Names : w # v => bound[1][w] = ss[1][w]
               /\ Spec0!Lookup(bound, v) = IF Spec0!Lookup(ss, v) = Nil THEN s ELSE Spec0!Lookup(ss, v)
               /\ \A w \in Names : w # v => Spec0!Lookup(bound, w) = Spec0!Lookup(ss, w)
<1> DEFINE n == Len(ss)
           scope == [ss[1] EXCEPT ![v] = s]
           bound == [ss EXCEPT ![1] = scope]
<1>1. n \in Nat /\ 1 \in 1..Len(ss) /\ ss[1] \in OneScope /\ Nil = 0 /\ s # Nil /\ s \in 0..MaxSyms
  BY BoundAssumption DEF Nil, Syms
<1>2. scope \in OneScope /\ scope[v] = s /\ \A w \in Names : w # v => scope[w] = ss[1][w]
  BY <1>1 DEF OneScope
<1>3. Spec0!Bind(ss, 1, v, s) = bound
  BY DEF Spec0!Bind
<1> HIDE DEF scope
<1>4. bound \in Seq(OneScope) /\ Len(bound) = n /\ bound[1] = scope /\ \A j \in 2..n : bound[j] = ss[j]
  BY <1>1, <1>2
<1> HIDE DEF bound
<1>5. Spec0!Lookup(bound, v) = IF Spec0!Lookup(ss, v) = Nil THEN s ELSE Spec0!Lookup(ss, v)
  <2>1. CASE \A j \in 1..n : ss[j][v] = Nil
    <3>1. \A j \in (1 + 1)..n : bound[j][v] = Nil
      BY <2>1, <1>4
    <3> QED
      BY <3>1, <2>1, <1>1, <1>2, <1>4, LookupIs
  <2>2. ASSUME NEW k \in 1..n, ss[k][v] # Nil, \A j \in (k + 1)..n : ss[j][v] = Nil
        PROVE  Spec0!Lookup(bound, v) = Spec0!Lookup(ss, v) /\ Spec0!Lookup(ss, v) # Nil
    <3>1. k \in 2..n
      BY <2>2
    <3>2. bound[k][v] = ss[k][v] /\ \A j \in (k + 1)..n : bound[j][v] = Nil
      BY <3>1, <2>2, <1>4
    <3> QED
      BY <3>2, <2>2, <1>4, LookupIs
  <2> QED
    BY <2>1, <2>2, LookupIs
<1>6. ASSUME NEW w \in Names, w # v PROVE Spec0!Lookup(bound, w) = Spec0!Lookup(ss, w)
  <2>1. \A j \in 1..n : bound[j][w] = ss[j][w]
    BY <1>1, <1>2, <1>4, <1>6
  <2>2. CASE \A j \in 1..n : ss[j][w] = Nil
    BY <2>1, <2>2, <1>4, LookupIs
  <2>3. ASSUME NEW k \in 1..n, ss[k][w] # Nil, \A j \in (k + 1)..n : ss[j][w] = Nil
        PROVE  Spec0!Lookup(bound, w) = Spec0!Lookup(ss, w)
    <3>1. bound[k][w] # Nil /\ \A j \in (k + 1)..n : bound[j][w] = Nil
      BY <2>1, <2>3, <1>1
    <3> QED
      BY <3>1, <2>1, <2>3, <1>4, LookupIs
  <2> QED
    BY <2>2, <2>3, LookupIs
<1> QED
  BY <1>2, <1>3, <1>4, <1>5, <1>6

-----------------------------------------------------------------------------
(* The table operations *)

Unused(T) == {s \in Syms : T.free[s] > 0}

LEMMA FreshIs ==
    ASSUME NEW T, Unused(T) # {}
    PROVE  Fresh(T) \in Syms /\ T.free[Fresh(T)] > 0
BY DEF Unused, Fresh

LEMMA TableFields ==
    ASSUME NEW T \in TableSet
    PROVE  /\ T.sym \in [Syms -> Records] /\ T.head \in [Names -> 0..MaxSyms]
           /\ T.local \in Seq(Syms) /\ T.global \in Seq(Syms) /\ T.free \in [Syms -> Nat]
           /\ Len(T.local) \in Nat /\ DOMAIN T.local = 1..Len(T.local)
           /\ Len(T.global) \in Nat /\ DOMAIN T.global = 1..Len(T.global)
           /\ \A i \in 1..Len(T.local) : T.local[i] \in Syms
           /\ \A i \in 1..Len(T.global) : T.global[i] \in Syms
BY DEF TableSet

LEMMA SymNumbers ==
    /\ Nil = 0 /\ Nil \in 0..MaxSyms /\ MaxSyms \in Nat /\ MaxDepth \in Nat /\ Anon \notin Names
    /\ \A s \in Syms : s \in 0..MaxSyms /\ s # Nil
    /\ \A s \in 0..MaxSyms : s # Nil => s \in Syms
BY BoundAssumption, AnonAssumption DEF Nil, Syms

LEMMA AppendIs ==
    ASSUME NEW S, NEW q \in Seq(S), NEW s \in S
    PROVE  /\ Len(Append(q, s)) = Len(q) + 1 /\ Append(q, s)[Len(q) + 1] = s
           /\ \A i \in 1..Len(q) : Append(q, s)[i] = q[i]
           /\ \A i \in 1..(Len(q) + 1) : i \in 1..Len(q) \/ i = Len(q) + 1
           /\ Distinct(q) /\ (\A i \in 1..Len(q) : q[i] # s) => Distinct(Append(q, s))
<1>1. Len(q) \in Nat /\ Len(Append(q, s)) = Len(q) + 1 /\ Append(q, s)[Len(q) + 1] = s
      /\ \A i \in 1..Len(q) : Append(q, s)[i] = q[i]
  OBVIOUS
<1>2. \A i \in 1..(Len(q) + 1) : i \in 1..Len(q) \/ i = Len(q) + 1
  BY <1>1
<1> QED
  BY <1>1, <1>2 DEF Distinct

\* Taking a symbol from the free list and putting it on a stack.
LEMMA PoolGrows ==
    ASSUME NEW T, Pool(T), NEW s \in Syms, T.free[s] > 0, NEW U \in TableSet,
           U.free = [T.free EXCEPT ![s] = @ - 1],
           \/ U.local = Append(T.local, s) /\ U.global = T.global
           \/ U.global = Append(T.global, s) /\ U.local = T.local
    PROVE  Pool(U) /\ Unused(U) = Unused(T) \ {s}
<1>1. T \in TableSet
  BY DEF Pool
<1>2. ~Stacked(T, s) /\ T.free[s] = 1 /\ U.free[s] = 0 /\ \A r \in Syms : r # s => U.free[r] = T.free[r]
  BY <1>1, TableFields DEF Pool
<1>3. CASE U.local = Append(T.local, s) /\ U.global = T.global
  <2>1. /\ Len(U.local) = Len(T.local) + 1 /\ U.local[Len(T.local) + 1] = s
        /\ \A i \in 1..Len(T.local) : U.local[i] = T.local[i]
        /\ \A i \in 1..Len(U.local) : i \in 1..Len(T.local) \/ i = Len(T.local) + 1
    BY <1>1, <1>3, TableFields, AppendIs
  <2>2. \A r \in Syms : Stacked(U, r) <=> r = s \/ Stacked(T, r)
    BY <1>1, <1>3, <2>1, TableFields DEF Stacked
  <2>3. \A i \in 1..Len(T.local) : T.local[i] # s
    BY <1>2 DEF Stacked
  <2>4. Distinct(U.local)
    <3>1. T.local \in Seq(Syms) /\ Distinct(T.local)
      BY <1>1, TableFields DEF Pool
    <3>2. Distinct(Append(T.local, s))
      BY <3>1, <2>3, AppendIs
    <3> QED
      BY <3>2, <1>3
  <2>5. ASSUME NEW i \in 1..Len(U.local), NEW j \in 1..Len(U.global)
        PROVE  U.local[i] # U.global[j]
    <3>1. \A k \in 1..Len(T.local), m \in 1..Len(T.global) : T.local[k] # T.global[m]
      BY DEF Pool
    <3>2. /\ \A k \in 1..Len(T.local) : T.local[k] # s
          /\ \A k \in 1..Len(T.global) : T.global[k] # s
      BY <1>2 DEF Stacked
    <3> QED
      BY <3>1, <3>2, <2>1, <1>3
  <2>6. \A r \in Syms : U.free[r] = IF Stacked(U, r) THEN 0 ELSE 1
    BY <1>2, <2>2 DEF Pool
  <2>7. Pool(U)
    BY <1>3, <2>4, <2>5, <2>6 DEF Pool
  <2> QED
    BY <1>2, <2>7 DEF Unused
<1>4. CASE U.global = Append(T.global, s) /\ U.local = T.local
  <2>1. /\ Len(U.global) = Len(T.global) + 1 /\ U.global[Len(T.global) + 1] = s
        /\ \A i \in 1..Len(T.global) : U.global[i] = T.global[i]
        /\ \A i \in 1..Len(U.global) : i \in 1..Len(T.global) \/ i = Len(T.global) + 1
    BY <1>1, <1>4, TableFields, AppendIs
  <2>2. \A r \in Syms : Stacked(U, r) <=> r = s \/ Stacked(T, r)
    BY <1>1, <1>4, <2>1, TableFields DEF Stacked
  <2>3. \A i \in 1..Len(T.global) : T.global[i] # s
    BY <1>2 DEF Stacked
  <2>4. Distinct(U.global)
    <3>1. T.global \in Seq(Syms) /\ Distinct(T.global)
      BY <1>1, TableFields DEF Pool
    <3>2. Distinct(Append(T.global, s))
      BY <3>1, <2>3, AppendIs
    <3> QED
      BY <3>2, <1>4
  <2>5. ASSUME NEW i \in 1..Len(U.local), NEW j \in 1..Len(U.global)
        PROVE  U.local[i] # U.global[j]
    <3>1. \A k \in 1..Len(T.local), m \in 1..Len(T.global) : T.local[k] # T.global[m]
      BY DEF Pool
    <3>2. /\ \A k \in 1..Len(T.local) : T.local[k] # s
          /\ \A k \in 1..Len(T.global) : T.global[k] # s
      BY <1>2 DEF Stacked
    <3> QED
      BY <3>1, <3>2, <2>1, <1>4
  <2>6. \A r \in Syms : U.free[r] = IF Stacked(U, r) THEN 0 ELSE 1
    BY <1>2, <2>2 DEF Pool
  <2>7. Pool(U)
    BY <1>4, <2>4, <2>5, <2>6 DEF Pool
  <2> QED
    BY <1>2, <2>7 DEF Unused
<1> QED
  BY <1>3, <1>4

\* U is T with s, which holds y, on top of the local or of the global stack.
OnTop(T, U, where, s, y) ==
    /\ U \in TableSet
    /\ U.sym = [T.sym EXCEPT ![s] = y] /\ U.free = [T.free EXCEPT ![s] = @ - 1]
    /\ U.local = IF where = "local" THEN Append(T.local, s) ELSE T.local
    /\ U.global = IF where = "local" THEN T.global ELSE Append(T.global, s)

LEMMA Push2Is ==
    ASSUME NEW T \in TableSet, Unused(T) # {}, NEW where \in {"local", "global"}, NEW v \in Names \cup {Anon},
           NEW scope \in 0..MaxDepth + 1, Pool(T)
    PROVE  LET U == sym_push2(T, where, v, scope)
           IN  /\ OnTop(T, U, where, Fresh(T), [v |-> v, scope |-> scope, prev_tok |-> Nil])
               /\ U.head = T.head /\ Pool(U) /\ Unused(U) = Unused(T) \ {Fresh(T)}
<1> DEFINE s == Fresh(T)
           y == [v |-> v, scope |-> scope, prev_tok |-> Nil]
           U == sym_push2(T, where, v, scope)
<1>1. s \in Syms /\ T.free[s] > 0
  BY FreshIs
<1>2. y \in Records
  BY SymNumbers DEF Records
<1>3. U = [T EXCEPT !.free[s] = @ - 1, !.sym[s] = y, ![where] = Append(@, s)]
  BY DEF sym_push2
<1> SUFFICES OnTop(T, U, where, s, y) /\ U.head = T.head /\ Pool(U) /\ Unused(U) = Unused(T) \ {s}
  OBVIOUS
<1> HIDE DEF s, y, U
<1>4. CASE where = "local"
  <2>1. U = [sym |-> [T.sym EXCEPT ![s] = y], head |-> T.head, local |-> Append(T.local, s),
             global |-> T.global, free |-> [T.free EXCEPT ![s] = @ - 1]]
    BY <1>3, <1>4 DEF TableSet
  <2>2. [T.sym EXCEPT ![s] = y] \in [Syms -> Records] /\ Append(T.local, s) \in Seq(Syms)
        /\ [T.free EXCEPT ![s] = @ - 1] \in [Syms -> Nat]
    BY <1>1, <1>2, TableFields
  <2>3. U \in TableSet
    BY <2>1, <2>2, TableFields DEF TableSet
  <2> QED
    BY <1>1, <1>4, <2>1, <2>3, PoolGrows DEF OnTop
<1>5. CASE where = "global"
  <2>1. U = [sym |-> [T.sym EXCEPT ![s] = y], head |-> T.head, local |-> T.local,
             global |-> Append(T.global, s), free |-> [T.free EXCEPT ![s] = @ - 1]]
    BY <1>3, <1>5 DEF TableSet
  <2>2. [T.sym EXCEPT ![s] = y] \in [Syms -> Records] /\ Append(T.global, s) \in Seq(Syms)
        /\ [T.free EXCEPT ![s] = @ - 1] \in [Syms -> Nat]
    BY <1>1, <1>2, TableFields
  <2>3. U \in TableSet
    BY <2>1, <2>2, TableFields DEF TableSet
  <2> QED
    BY <1>1, <1>5, <2>1, <2>3, PoolGrows DEF OnTop
<1> QED
  BY <1>4, <1>5

\* What PutFirst does to a symbol s that is on top.
LEMMA PutFirstIs ==
    ASSUME NEW T \in TableSet, NEW s \in Syms
    PROVE  LET U == PutFirst(T, s)
               v == T.sym[s].v
           IN  /\ v = Anon => U = T
               /\ v # Anon =>
                     /\ U \in TableSet /\ U.local = T.local /\ U.global = T.global /\ U.free = T.free
                     /\ U.head = [T.head EXCEPT ![v] = s]
                     /\ U.sym = [T.sym EXCEPT ![s] = [v |-> v, scope |-> T.sym[s].scope, prev_tok |-> T.head[v]]]
<1> DEFINE v == T.sym[s].v
           y == [v |-> v, scope |-> T.sym[s].scope, prev_tok |-> T.head[v]]
           U == PutFirst(T, s)
<1>1. T.sym[s] \in Records
  BY TableFields
<1>2. CASE v # Anon
  <2>1. v \in Names /\ T.head[v] \in 0..MaxSyms
    BY <1>1, <1>2, TableFields DEF Records
  <2>2. y \in Records /\ [T.sym[s] EXCEPT !.prev_tok = T.head[v]] = y
    BY <1>1, <2>1 DEF Records
  <2>3. U = [T EXCEPT !.sym[s].prev_tok = T.head[v], !.head[v] = s]
    BY <1>2 DEF PutFirst
  <2> HIDE DEF y, U, v
  <2>4. U = [sym |-> [T.sym EXCEPT ![s] = y], head |-> [T.head EXCEPT ![v] = s], local |-> T.local,
             global |-> T.global, free |-> T.free]
    BY <2>2, <2>3 DEF TableSet
  <2>5. [T.sym EXCEPT ![s] = y] \in [Syms -> Records] /\ [T.head EXCEPT ![v] = s] \in [Names -> 0..MaxSyms]
    BY <2>1, <2>2, TableFields, SymNumbers
  <2>6. U \in TableSet
    BY <2>4, <2>5, TableFields DEF TableSet
  <2> QED
    BY <1>2, <2>4, <2>6 DEF y, U, v
<1>3. CASE v = Anon
  BY <1>3 DEF PutFirst
<1> QED
  BY <1>2, <1>3

\* sym_push, and sym_copy of a symbol r: the symbol is on top, and its name finds it.
Hidden(T, v) == IF v = Anon THEN Nil ELSE T.head[v]
Found(T, v, s) == IF v = Anon THEN T.head ELSE [T.head EXCEPT ![v] = s]

LEMMA PushIs ==
    ASSUME NEW T, Pool(T), Unused(T) # {}, NEW v \in Names \cup {Anon}, NEW scope \in 0..MaxDepth + 1
    PROVE  LET U == sym_push(T, v, scope)
               s == Fresh(T)
           IN  /\ OnTop(T, U, StackInUse(T), s, [v |-> v, scope |-> scope, prev_tok |-> Hidden(T, v)])
               /\ U.head = Found(T, v, s) /\ Pool(U) /\ Unused(U) = Unused(T) \ {s}
<1> DEFINE s == Fresh(T)
           where == StackInUse(T)
           y == [v |-> v, scope |-> scope, prev_tok |-> Nil]
           P == sym_push2(T, where, v, scope)
           U == sym_push(T, v, scope)
<1>1. T \in TableSet /\ where \in {"local", "global"}
  BY DEF Pool, StackInUse
<1>2. OnTop(T, P, where, s, y) /\ P.head = T.head /\ Pool(P) /\ Unused(P) = Unused(T) \ {s}
  BY <1>1, Push2Is
<1>3. s \in Syms /\ T.free[s] > 0
  BY FreshIs
<1>4. U = PutFirst(P, s)
  BY DEF sym_push
<1>5. P \in TableSet /\ P.sym[s] = y
  BY <1>1, <1>2, <1>3, TableFields DEF OnTop
<1> HIDE DEF P, U, where
<1>6. CASE v = Anon
  <2>1. P.sym[s].v = Anon
    BY <1>5, <1>6
  <2>2. U = P
    BY <1>3, <1>4, <1>5, <2>1, PutFirstIs
  <2> QED
    BY <1>2, <1>6, <2>2 DEF Hidden, Found, U, where
<1>7. CASE v # Anon
  <2> DEFINE z == [v |-> v, scope |-> scope, prev_tok |-> T.head[v]]
  <2>1. /\ U \in TableSet /\ U.local = P.local /\ U.global = P.global /\ U.free = P.free
        /\ U.head = [P.head EXCEPT ![v] = s]
        /\ U.sym = [P.sym EXCEPT ![s] = z]
    BY <1>2, <1>3, <1>4, <1>5, <1>7, PutFirstIs
  <2>2. U.sym = [T.sym EXCEPT ![s] = z]
    BY <2>1, <1>2 DEF OnTop
  <2>3. Pool(U) /\ Unused(U) = Unused(P)
    BY <1>2, <2>1 DEF Pool, Stacked, Unused
  <2> QED
    BY <1>2, <1>7, <2>1, <2>2, <2>3 DEF OnTop, Hidden, Found, U, where
<1> QED
  BY <1>6, <1>7

\* Records with some of the fields of a table.
LEMMA HeadSet ==
    ASSUME NEW T \in TableSet, NEW h \in [Names -> 0..MaxSyms], NEW U, U = [T EXCEPT !.head = h]
    PROVE  U = [sym |-> T.sym, head |-> h, local |-> T.local, global |-> T.global, free |-> T.free]
BY DEF TableSet

LEMMA TopSet ==
    ASSUME NEW T \in TableSet, NEW s \in Syms, NEW y \in Records,
           NEW U, U = [T EXCEPT !.free[s] = @ - 1, !.sym[s] = y, !.local = Append(@, s)]
    PROVE  U = [sym |-> [T.sym EXCEPT ![s] = y], head |-> T.head, local |-> Append(T.local, s),
                global |-> T.global, free |-> [T.free EXCEPT ![s] = @ - 1]]
BY DEF TableSet

LEMMA CopyIs ==
    ASSUME NEW T, Pool(T), Unused(T) # {}, NEW r \in Syms, T.sym[r].v \in Names
    PROVE  LET U == sym_copy(T, r)
               s == Fresh(T)
               v == T.sym[r].v
           IN  /\ OnTop(T, U, "local", s, [v |-> v, scope |-> T.sym[r].scope, prev_tok |-> T.head[v]])
               /\ U.head = [T.head EXCEPT ![v] = s] /\ Pool(U) /\ Unused(U) = Unused(T) \ {s}
<1> DEFINE s == Fresh(T)
           v == T.sym[r].v
           y == [v |-> v, scope |-> T.sym[r].scope, prev_tok |-> T.head[v]]
           P == [T EXCEPT !.free[s] = @ - 1, !.sym[s] = T.sym[r], !.local = Append(@, s)]
           U == sym_copy(T, r)
<1>1. T \in TableSet /\ s \in Syms /\ T.free[s] > 0 /\ T.sym[r] \in Records /\ v # Anon
  BY FreshIs, TableFields, SymNumbers DEF Pool
<1> SUFFICES OnTop(T, U, "local", s, y) /\ U.head = [T.head EXCEPT ![v] = s] /\ Pool(U)
             /\ Unused(U) = Unused(T) \ {s}
  OBVIOUS
<1>2. U = PutFirst(P, s)
  BY DEF sym_copy
<1> HIDE DEF s, U
<1>3. P = [sym |-> [T.sym EXCEPT ![s] = T.sym[r]], head |-> T.head, local |-> Append(T.local, s),
           global |-> T.global, free |-> [T.free EXCEPT ![s] = @ - 1]]
  BY <1>1, TopSet
<1>4. /\ [T.sym EXCEPT ![s] = T.sym[r]] \in [Syms -> Records] /\ Append(T.local, s) \in Seq(Syms)
      /\ [T.free EXCEPT ![s] = @ - 1] \in [Syms -> Nat]
  BY <1>1, TableFields
<1> HIDE DEF P
<1>5. P \in TableSet /\ P.sym[s] = T.sym[r]
  BY <1>1, <1>3, <1>4, TableFields DEF TableSet
<1>6. /\ U \in TableSet /\ U.local = P.local /\ U.global = P.global /\ U.free = P.free
      /\ U.head = [P.head EXCEPT ![v] = s]
      /\ U.sym = [P.sym EXCEPT ![s] = [v |-> v, scope |-> T.sym[r].scope, prev_tok |-> P.head[v]]]
  BY <1>1, <1>2, <1>5, PutFirstIs
<1>7. U.sym = [T.sym EXCEPT ![s] = y]
  BY <1>3, <1>6
<1>8. Pool(U) /\ Unused(U) = Unused(T) \ {s}
  <2>1. U.free = [T.free EXCEPT ![s] = @ - 1] /\ U.local = Append(T.local, s) /\ U.global = T.global
    BY <1>3, <1>6
  <2>2. U \in TableSet /\ s \in Syms /\ T.free[s] > 0
    BY <1>1, <1>6
  <2> HIDE DEF v, y
  <2> QED
    BY <2>1, <2>2, PoolGrows
<1> QED
  BY <1>3, <1>6, <1>7, <1>8 DEF OnTop

\* The name of the lowest symbol above n goes to what that symbol hid.
Named(T, where, i, v) == T.sym[T[where][i]].v = v

Lowest(T, where, n, v, i) ==
    /\ i \in (n + 1)..Len(T[where]) /\ Named(T, where, i, v)
    /\ \A k \in (n + 1)..(i - 1) : ~Named(T, where, k, v)

LEMMA UnlinkedIs ==
    ASSUME NEW T, NEW where, T[where] \in Seq(Syms), NEW n \in Nat, NEW v \in Names
    PROVE  /\ (\A i \in (n + 1)..Len(T[where]) : ~Named(T, where, i, v)) =>
                 Unlinked(T, where, n)[v] = T.head[v]
           /\ \A i : Lowest(T, where, n, v, i) => Unlinked(T, where, n)[v] = T.sym[T[where][i]].prev_tok
           /\ (\A i \in (n + 1)..Len(T[where]) : ~Named(T, where, i, v)) \/ \E i : Lowest(T, where, n, v, i)
<1> DEFINE q == T[where]
           of == Above(T, where, n, v)
           lowest == CHOOSE i \in of : \A j \in of : i <= j
<1>1. Len(q) \in Nat /\ of = {i \in (n + 1)..Len(q) : Named(T, where, i, v)}
  BY DEF Above, Named
<1>2. Unlinked(T, where, n)[v] = IF of = {} THEN T.head[v] ELSE T.sym[q[lowest]].prev_tok
  BY DEF Unlinked
<1> HIDE DEF q, of
<1>3. ASSUME NEW i, Lowest(T, where, n, v, i)
      PROVE  Unlinked(T, where, n)[v] = T.sym[q[i]].prev_tok
  <2>1. i \in of /\ \A j \in of : i <= j
    BY <1>1, <1>3 DEF Lowest, q
  <2>2. \A k \in of : (\A j \in of : k <= j) => k = i
    BY <1>1, <2>1
  <2>3. lowest = i
    BY <2>1, <2>2
  <2> QED
    BY <1>2, <2>1, <2>3
<1>4. (\A i \in (n + 1)..Len(q) : ~Named(T, where, i, v)) => Unlinked(T, where, n)[v] = T.head[v]
  BY <1>1, <1>2
<1>5. ASSUME ~ \A i \in (n + 1)..Len(q) : ~Named(T, where, i, v)
      PROVE  \E i : Lowest(T, where, n, v, i)
  <2>1. of # {} /\ of \subseteq Nat
    BY <1>1, <1>5
  <2>2. PICK i \in of : \A j \in of : i <= j
    BY <2>1, LeastIn
  <2>3. Lowest(T, where, n, v, i)
    BY <1>1, <2>2 DEF Lowest, q
  <2> QED
    BY <2>3
<1> QED
  BY <1>3, <1>4, <1>5 DEF q

\* U is T after the symbols above n have left the local or the global stack.
Cut(T, U, where, n) ==
    /\ U \in TableSet /\ Pool(U)
    /\ U.local = IF where = "local" THEN SubSeq(T.local, 1, n) ELSE T.local
    /\ U.global = IF where = "local" THEN T.global ELSE SubSeq(T.global, 1, n)
    /\ \A s \in Syms : Stacked(U, s) => U.sym[s] = T.sym[s]

LEMMA FreedIs ==
    ASSUME NEW T, Pool(T), NEW where \in {"local", "global"}, NEW n \in Nat, n <= Len(T[where])
    PROVE  Cut(T, Freed(T, where, n), where, n) /\ Freed(T, where, n).head = T.head
<1> DEFINE q == T[where]
           places(s) == {i \in n + 1..Len(q) : q[i] = s}
           cleared == [s \in Syms |-> IF places(s) = {} THEN T.sym[s] ELSE Blank]
           free == [s \in Syms |-> T.free[s] + Cardinality(places(s))]
           U == Freed(T, where, n)
<1>1. T \in TableSet
  BY DEF Pool
<1>2. q \in Seq(Syms) /\ Distinct(q) /\ Len(q) \in Nat
  BY <1>1, TableFields DEF Pool
<1>3. U = [T EXCEPT !.sym = cleared, !.free = free, ![where] = SubSeq(@, 1, n)]
  BY DEF Freed
<1>4. ASSUME NEW s \in Syms
      PROVE  Cardinality(places(s)) = IF places(s) = {} THEN 0 ELSE 1
  <2>1. CASE places(s) = {}
    BY <2>1, FS_EmptySet
  <2>2. CASE places(s) # {}
    <3>1. PICK i : i \in places(s)
      BY <2>2
    <3>2. places(s) = {i}
      BY <3>1, <1>2 DEF Distinct
    <3>3. Cardinality({i}) = 1
      BY FS_Singleton
    <3> QED
      BY <2>2, <3>2, <3>3
  <2> QED
    BY <2>1, <2>2
<1>5. Blank \in Records
  BY SymNumbers DEF Blank, Records
<1>6. cleared \in [Syms -> Records]
  BY <1>1, <1>5, TableFields
<1>7. free \in [Syms -> Nat] /\ \A s \in Syms : free[s] = T.free[s] + (IF places(s) = {} THEN 0 ELSE 1)
  <2>1. ASSUME NEW s \in Syms
        PROVE  free[s] = T.free[s] + (IF places(s) = {} THEN 0 ELSE 1) /\ free[s] \in Nat
    <3>1. free[s] = T.free[s] + Cardinality(places(s)) /\ T.free[s] \in Nat
      BY <1>1, TableFields
    <3> HIDE DEF free, places
    <3> QED
      BY <3>1, <1>4
  <2>2. free = [s \in Syms |-> free[s]]
    OBVIOUS
  <2> HIDE DEF free, places
  <2> QED
    BY <2>1, <2>2
<1>8. /\ SubSeq(q, 1, n) \in Seq(Syms) /\ Len(SubSeq(q, 1, n)) = n
      /\ \A i \in 1..n : SubSeq(q, 1, n)[i] = q[i]
  BY <1>2
<1>9. \A s \in Syms : (\E i \in 1..n : q[i] = s) => places(s) = {}
  BY <1>2 DEF Distinct
<1>10. \A s \in Syms : (\E i \in 1..Len(q) : q[i] = s) <=> places(s) # {} \/ \E i \in 1..n : q[i] = s
  BY <1>2
<1>11. Distinct(SubSeq(q, 1, n))
  BY <1>2, <1>8 DEF Distinct
<1> HIDE DEF U, cleared, free, places
<1>12. CASE where = "local"
  <2>1. U = [sym |-> cleared, head |-> T.head, local |-> SubSeq(q, 1, n), global |-> T.global, free |-> free]
    BY <1>1, <1>3, <1>12 DEF TableSet
  <2>2. U \in TableSet
    BY <1>1, <1>6, <1>7, <1>8, <2>1, TableFields DEF TableSet
  <2>3. q = T.local
    BY <1>12
  <2>4. \A s \in Syms : Stacked(U, s) <=> (\E i \in 1..n : q[i] = s) \/ (\E i \in 1..Len(T.global) : T.global[i] = s)
    BY <1>8, <2>1 DEF Stacked
  <2>5. \A i \in 1..Len(q), j \in 1..Len(T.global) : q[i] # T.global[j]
    BY <2>3 DEF Pool
  <2>6. \A s \in Syms : Stacked(U, s) => places(s) = {}
    BY <1>9, <1>10, <2>4, <2>5
  <2>7. \A s \in Syms : T.free[s] = IF Stacked(T, s) THEN 0 ELSE 1
    BY DEF Pool
  <2>8. \A s \in Syms : Stacked(T, s) <=> Stacked(U, s) \/ places(s) # {}
    BY <1>10, <2>3, <2>4 DEF Stacked
  <2>9. ASSUME NEW s \in Syms PROVE U.free[s] = IF Stacked(U, s) THEN 0 ELSE 1
    <3>1. U.free[s] = T.free[s] + (IF places(s) = {} THEN 0 ELSE 1)
      BY <1>7, <2>1
    <3>2. T.free[s] = IF Stacked(U, s) \/ places(s) # {} THEN 0 ELSE 1
      BY <2>7, <2>8
    <3> QED
      BY <3>1, <3>2, <2>6
  <2>10. \A i \in 1..Len(U.local), j \in 1..Len(U.global) : U.local[i] # U.global[j]
    BY <1>2, <1>8, <2>1, <2>5
  <2>11. Pool(U)
    BY <1>1, <1>11, <2>1, <2>2, <2>9, <2>10 DEF Pool
  <2>12. \A s \in Syms : Stacked(U, s) => U.sym[s] = T.sym[s]
    BY <2>1, <2>6 DEF cleared
  <2>13. U.local = SubSeq(T.local, 1, n) /\ U.global = T.global /\ U.head = T.head
    BY <2>1, <2>3
  <2>14. Cut(T, U, where, n)
    BY <1>12, <2>2, <2>11, <2>12, <2>13 DEF Cut
  <2> QED
    BY <2>13, <2>14 DEF U
<1>13. CASE where = "global"
  <2>1. U = [sym |-> cleared, head |-> T.head, local |-> T.local, global |-> SubSeq(q, 1, n), free |-> free]
    BY <1>1, <1>3, <1>13 DEF TableSet
  <2>2. U \in TableSet
    BY <1>1, <1>6, <1>7, <1>8, <2>1, TableFields DEF TableSet
  <2>3. q = T.global
    BY <1>13
  <2>4. \A s \in Syms : Stacked(U, s) <=> (\E i \in 1..n : q[i] = s) \/ (\E i \in 1..Len(T.local) : T.local[i] = s)
    BY <1>8, <2>1 DEF Stacked
  <2>5. \A i \in 1..Len(q), j \in 1..Len(T.local) : q[i] # T.local[j]
    BY <2>3 DEF Pool
  <2>6. \A s \in Syms : Stacked(U, s) => places(s) = {}
    BY <1>9, <1>10, <2>4, <2>5
  <2>7. \A s \in Syms : T.free[s] = IF Stacked(T, s) THEN 0 ELSE 1
    BY DEF Pool
  <2>8. \A s \in Syms : Stacked(T, s) <=> Stacked(U, s) \/ places(s) # {}
    BY <1>10, <2>3, <2>4 DEF Stacked
  <2>9. ASSUME NEW s \in Syms PROVE U.free[s] = IF Stacked(U, s) THEN 0 ELSE 1
    <3>1. U.free[s] = T.free[s] + (IF places(s) = {} THEN 0 ELSE 1)
      BY <1>7, <2>1
    <3>2. T.free[s] = IF Stacked(U, s) \/ places(s) # {} THEN 0 ELSE 1
      BY <2>7, <2>8
    <3> QED
      BY <3>1, <3>2, <2>6
  <2>10. \A i \in 1..Len(U.local), j \in 1..Len(U.global) : U.local[i] # U.global[j]
    BY <1>2, <1>8, <2>1, <2>5
  <2>11. Pool(U)
    BY <1>1, <1>11, <2>1, <2>2, <2>9, <2>10 DEF Pool
  <2>12. \A s \in Syms : Stacked(U, s) => U.sym[s] = T.sym[s]
    BY <2>1, <2>6 DEF cleared
  <2>13. U.global = SubSeq(T.global, 1, n) /\ U.local = T.local /\ U.head = T.head
    BY <2>1, <2>3
  <2>14. Cut(T, U, where, n)
    BY <1>13, <2>2, <2>11, <2>12, <2>13 DEF Cut
  <2> QED
    BY <2>13, <2>14 DEF U
<1> QED
  BY <1>12, <1>13

LEMMA PopIs ==
    ASSUME NEW T, Pool(T), NEW where \in {"local", "global"}, NEW n \in Nat, n <= Len(T[where]),
           Unlinked(T, where, n) \in [Names -> 0..MaxSyms]
    PROVE  /\ Cut(T, sym_pop(T, where, n, FALSE), where, n)
           /\ sym_pop(T, where, n, FALSE).head = Unlinked(T, where, n)
           /\ sym_pop(T, where, n, TRUE) = [T EXCEPT !.head = Unlinked(T, where, n)]
           /\ Pool(sym_pop(T, where, n, TRUE))
<1> DEFINE U == [T EXCEPT !.head = Unlinked(T, where, n)]
<1>1. T \in TableSet
  BY DEF Pool
<1>2. U = [sym |-> T.sym, head |-> Unlinked(T, where, n), local |-> T.local, global |-> T.global, free |-> T.free]
  BY <1>1, HeadSet
<1>3. sym_pop(T, where, n, TRUE) = U /\ sym_pop(T, where, n, FALSE) = Freed(U, where, n)
  BY DEF sym_pop
<1> HIDE DEF U
<1>4. U \in TableSet
  BY <1>1, <1>2, TableFields DEF TableSet
<1>5. Pool(U)
  BY <1>2, <1>4 DEF Pool, Stacked
<1>6. U[where] = T[where]
  BY <1>2
<1>7. Cut(U, Freed(U, where, n), where, n) /\ Freed(U, where, n).head = U.head
  BY <1>5, <1>6, FreedIs
<1>8. Cut(T, Freed(U, where, n), where, n)
  BY <1>2, <1>7 DEF Cut
<1> QED
  BY <1>2, <1>3, <1>5, <1>7, <1>8 DEF U

-----------------------------------------------------------------------------
(* What keeps the tables in order *)

LEMMA SubSeqSame ==
    ASSUME NEW S, NEW p \in Seq(S), NEW q \in Seq(S), NEW m \in Nat, m <= Len(p), m <= Len(q),
           \A i \in 1..m : p[i] = q[i]
    PROVE  SubSeq(p, 1, m) = SubSeq(q, 1, m)
OBVIOUS

LEMMA OrderedIs ==
    ASSUME NEW T \in TableSet, NEW ss, NEW base, Ordered(T, ss, base)
    PROVE  /\ ss \in Seq(OneScope) /\ base \in Seq(Nat) /\ Len(ss) \in Nat /\ Len(ss) >= 1 /\ Len(base) = Len(ss)
           /\ \A j \in 1..Len(ss) : ss[j] \in OneScope /\ base[j] \in Nat /\ base[j] <= Len(T.local)
           /\ \A j \in 1..Len(ss) : \A k \in 1..j : base[k] <= base[j]
           /\ \A j \in 1..Len(ss) : End(T, base, j) \in Nat /\ End(T, base, j) <= Len(T.local)
<1>1. /\ ss \in Seq(OneScope) /\ base \in Seq(Nat) /\ Len(ss) \in Nat /\ Len(ss) >= 1 /\ Len(base) = Len(ss)
      /\ \A j \in 1..Len(ss) : ss[j] \in OneScope /\ base[j] \in Nat /\ base[j] <= Len(T.local)
      /\ \A j \in 1..Len(ss) : \A k \in 1..j : base[k] <= base[j]
  BY DEF Ordered
<1>2. Len(T.local) \in Nat
  BY TableFields
<1>3. ASSUME NEW j \in 1..Len(ss) PROVE End(T, base, j) \in Nat /\ End(T, base, j) <= Len(T.local)
  <2>1. CASE j = Len(ss)
    BY <2>1, <1>1, <1>2 DEF End
  <2>2. CASE j # Len(ss)
    <3>1. j + 1 \in 1..Len(ss)
      BY <2>2, <1>1
    <3> QED
      BY <3>1, <2>2, <1>1 DEF End
  <2> QED
    BY <2>1, <2>2
<1> QED
  BY <1>1, <1>3

\* A name finds a symbol of its own.
LEMMA HeadBelow ==
    ASSUME NEW T \in TableSet, NEW ss, NEW base, Ordered(T, ss, base), Scoped(T, ss, base), Headed(T, ss),
           NEW v \in Names
    PROVE  Below(T, ss[1], Len(T.local) + 1, v, T.head[v])
<1>1. T.head[v] = Spec0!Lookup(ss, v)
  BY DEF Headed
<1>2. CASE \A j \in 1..Len(ss) : ss[j][v] = Nil
  <2>1. 1 \in 1..Len(ss)
    BY OrderedIs
  <2>2. Spec0!Lookup(ss, v) = Nil
    BY <1>2, LookupIs, OrderedIs
  <2> QED
    BY <2>1, <2>2, <1>1, <1>2 DEF Below
<1>3. ASSUME NEW k \in 1..Len(ss), ss[k][v] # Nil, \A j \in (k + 1)..Len(ss) : ss[j][v] = Nil
      PROVE  Below(T, ss[1], Len(T.local) + 1, v, T.head[v])
  <2>1. T.head[v] = ss[k][v]
    BY <1>1, <1>3, LookupIs, OrderedIs
  <2>2. CASE k = 1
    BY <2>1, <2>2 DEF Below
  <2>3. CASE k # 1
    <3>1. k \in 2..Len(ss)
      BY <2>3, OrderedIs
    <3>2. PICK i \in 1..Len(T.local) : T.local[i] = ss[k][v] /\ NameAt(T, i) = v
      BY <3>1, <1>3 DEF Scoped
    <3>3. i \in 1..((Len(T.local) + 1) - 1)
      BY <3>2, TableFields
    <3> QED
      BY <2>1, <3>2, <3>3 DEF Below
  <2> QED
    BY <2>2, <2>3
<1> QED
  BY <1>2, <1>3, LookupIs, OrderedIs

\* A name that has no symbol above the beginning of scope j is as visible as it is outside j.
LEMMA OuterLookup ==
    ASSUME NEW T \in TableSet, NEW ss, NEW base, Ordered(T, ss, base), Scoped(T, ss, base),
           NEW j \in 2..Len(ss), NEW v \in Names,
           \A i \in 1..Len(T.local) : base[j] < i => NameAt(T, i) # v
    PROVE  Spec0!Lookup(ss, v) = Spec0!Lookup(SubSeq(ss, 1, j - 1), v)
<1>1. ASSUME NEW k \in ((j - 1) + 1)..Len(ss) PROVE ss[k][v] = Nil
  <2>1. k \in 2..Len(ss) /\ base[j] <= base[k] /\ base[j] \in Nat /\ base[k] \in Nat
    BY OrderedIs
  <2>2. SUFFICES ASSUME ss[k][v] # Nil PROVE FALSE
    OBVIOUS
  <2>3. PICK i \in 1..Len(T.local) : base[k] < i /\ NameAt(T, i) = v
    BY <2>1, <2>2 DEF Scoped
  <2> QED
    BY <2>1, <2>3
<1>2. j - 1 \in 0..Len(ss) /\ ss \in Seq(OneScope)
  BY OrderedIs
<1> QED
  BY <1>1, <1>2, LookupOuter

\* A new symbol leaves what is below it alone.
OneMore(T, U, s, y) ==
    LET n == Len(T.local)
    IN  /\ Len(U.local) = n + 1 /\ U.local[n + 1] = s /\ U.sym[s] = y /\ U.global = T.global
        /\ NameAt(U, n + 1) = y.v /\ PrevAt(U, n + 1) = y.prev_tok
        /\ \A i \in 1..(n + 1) : i \in 1..n \/ i = n + 1
        /\ \A i \in 1..n :
              /\ i \in 1..(n + 1) /\ U.local[i] = T.local[i] /\ U.sym[T.local[i]] = T.sym[T.local[i]]
              /\ NameAt(U, i) = NameAt(T, i) /\ PrevAt(U, i) = PrevAt(T, i)
        /\ \A i \in 1..Len(T.global) : U.sym[T.global[i]] = T.sym[T.global[i]]

LEMMA TopKeeps ==
    ASSUME NEW T, Pool(T), NEW U, NEW s \in Syms, T.free[s] > 0, NEW y, OnTop(T, U, "local", s, y)
    PROVE  OneMore(T, U, s, y)
<1>1. T \in TableSet /\ ~Stacked(T, s)
  BY TableFields DEF Pool
<1>2. /\ \A i \in 1..Len(T.local) : T.local[i] \in Syms /\ T.local[i] # s
      /\ \A i \in 1..Len(T.global) : T.global[i] \in Syms /\ T.global[i] # s
  BY <1>1, TableFields DEF Stacked
<1>3. U.local = Append(T.local, s) /\ U.global = T.global /\ U.sym = [T.sym EXCEPT ![s] = y]
  BY DEF OnTop
<1>4. U.sym[s] = y /\ \A r \in Syms : r # s => U.sym[r] = T.sym[r]
  BY <1>1, <1>3, TableFields
<1>5. /\ Len(U.local) = Len(T.local) + 1 /\ U.local[Len(T.local) + 1] = s
      /\ \A i \in 1..Len(T.local) : U.local[i] = T.local[i]
      /\ \A i \in 1..(Len(T.local) + 1) : i \in 1..Len(T.local) \/ i = Len(T.local) + 1
  BY <1>1, <1>3, TableFields, AppendIs
<1>6. \A i \in 1..Len(T.local) : i \in 1..(Len(T.local) + 1)
  BY <1>1, TableFields
<1> QED
  BY <1>2, <1>3, <1>4, <1>5, <1>6 DEF OneMore, NameAt, PrevAt

\* What the file scope has does not depend on the local symbols.
LEMMA FiledKept ==
    ASSUME NEW T \in TableSet, NEW F, Filed(T, F), NEW U, U.global = T.global,
           \A i \in 1..Len(T.global) : U.sym[T.global[i]] = T.sym[T.global[i]]
    PROVE  Filed(U, F)
<1>1. ASSUME NEW v \in Names, F[v] # Nil
      PROVE  /\ \E i \in 1..Len(U.global) : U.global[i] = F[v]
             /\ U.sym[F[v]].v = v /\ U.sym[F[v]].scope = 0 /\ U.sym[F[v]].prev_tok = Nil
  <2>1. PICK i \in 1..Len(T.global) : T.global[i] = F[v]
    BY <1>1 DEF Filed
  <2>2. U.sym[F[v]] = T.sym[F[v]]
    BY <2>1
  <2> QED
    BY <1>1, <2>2 DEF Filed
<1>2. ASSUME NEW i \in 1..Len(U.global), U.sym[U.global[i]].v # Anon
      PROVE  LET z == U.sym[U.global[i]] IN
             /\ z.scope = 0 => F[z.v] = U.global[i]
             /\ (\A k \in 1..(i - 1) : U.sym[U.global[k]].v # z.v) => z.prev_tok = Nil
  <2>1. i \in 1..Len(T.global) /\ U.sym[T.global[i]] = T.sym[T.global[i]]
    BY <1>2
  <2>2. \A k \in 1..(i - 1) : U.sym[T.global[k]] = T.sym[T.global[k]]
    BY <2>1, TableFields
  <2> QED
    BY <1>2, <2>1, <2>2 DEF Filed
<1> QED
  BY <1>1, <1>2 DEF Filed

\* A new local symbol that keeps what its name found, whether or not the name finds the symbol.
LEMMA TopTidy ==
    ASSUME NEW T, NEW ss, NEW base, Tidy(T, ss, base), NEW U, NEW s \in Syms, T.free[s] > 0,
           NEW y \in Records, OnTop(T, U, "local", s, y), Pool(U), y.v # Anon => y.prev_tok = T.head[y.v]
    PROVE  /\ Ordered(U, ss, base) /\ Filed(U, ss[1]) /\ Scoped(U, ss, base)
           /\ Hides(U, ss, base) /\ Down(U, ss[1])
<1>1. T \in TableSet /\ U \in TableSet /\ Pool(T) /\ Ordered(T, ss, base) /\ Scoped(T, ss, base)
  BY DEF Tidy, Pool
<1> DEFINE n == Len(T.local)
<1>2. n \in Nat
  BY <1>1, TableFields
<1>3. /\ Len(U.local) = n + 1 /\ U.local[n + 1] = s /\ U.sym[s] = y /\ U.global = T.global
      /\ NameAt(U, n + 1) = y.v /\ PrevAt(U, n + 1) = y.prev_tok
      /\ \A i \in 1..(n + 1) : i \in 1..n \/ i = n + 1
      /\ \A i \in 1..n :
            /\ i \in 1..(n + 1) /\ U.local[i] = T.local[i] /\ U.sym[T.local[i]] = T.sym[T.local[i]]
            /\ NameAt(U, i) = NameAt(T, i) /\ PrevAt(U, i) = PrevAt(T, i)
      /\ \A i \in 1..Len(T.global) : U.sym[T.global[i]] = T.sym[T.global[i]]
  BY <1>1, TopKeeps DEF OneMore
<1>4. y.v # Anon => y.v \in Names
  BY DEF Records
<1> HIDE DEF n
<1>5. Ordered(U, ss, base)
  BY <1>1, <1>2, <1>3, OrderedIs DEF Ordered, n
<1>6. Filed(U, ss[1])
  BY <1>1, <1>3, FiledKept DEF Tidy
<1>7. Scoped(U, ss, base)
  <2>1. SUFFICES ASSUME NEW j \in 2..Len(ss), NEW v \in Names, ss[j][v] # Nil
                 PROVE  \E i \in 1..Len(U.local) :
                            base[j] < i /\ i <= End(U, base, j) /\ U.local[i] = ss[j][v] /\ NameAt(U, i) = v
    BY DEF Scoped
  <2>2. PICK i \in 1..n : base[j] < i /\ i <= End(T, base, j) /\ T.local[i] = ss[j][v] /\ NameAt(T, i) = v
    BY <1>1, <2>1 DEF Scoped, n
  <2>3. i <= End(U, base, j)
    BY <2>2, <1>2, <1>3 DEF End, n
  <2> QED
    BY <2>2, <2>3, <1>3
<1>8. Down(U, ss[1])
  <2>1. SUFFICES ASSUME NEW i \in 1..(n + 1), NameAt(U, i) # Anon
                 PROVE  Below(U, ss[1], i, NameAt(U, i), PrevAt(U, i))
    BY <1>3 DEF Down
  <2>2. CASE i \in 1..n
    <3>1. Below(T, ss[1], i, NameAt(U, i), PrevAt(U, i))
      BY <2>1, <2>2, <1>3 DEF Tidy, Down, n
    <3>2. \A k \in 1..(i - 1) : k \in 1..n
      BY <2>2, <1>2
    <3> QED
      BY <3>1, <3>2, <1>3 DEF Below
  <2>3. CASE i = n + 1
    <3>1. Below(T, ss[1], n + 1, y.v, y.prev_tok)
      BY <2>1, <2>3, <1>1, <1>3, <1>4, HeadBelow DEF Tidy, n
    <3>2. \A k \in 1..((n + 1) - 1) : k \in 1..n
      BY <1>2
    <3> QED
      BY <2>3, <3>1, <3>2, <1>3 DEF Below
  <2> QED
    BY <2>2, <2>3, <1>3
<1>9. Hides(U, ss, base)
  <2>1. SUFFICES ASSUME NEW j \in 2..Len(ss), NEW i \in 1..(n + 1), NameAt(U, i) # Anon, base[j] < i,
                        \A k \in 1..(i - 1) : base[j] < k => NameAt(U, k) # NameAt(U, i)
                 PROVE  PrevAt(U, i) = Spec0!Lookup(SubSeq(ss, 1, j - 1), NameAt(U, i))
    BY <1>3 DEF Hides
  <2>2. CASE i \in 1..n
    <3>1. \A k \in 1..(i - 1) : base[j] < k => NameAt(T, k) # NameAt(T, i)
      <4>1. \A k \in 1..(i - 1) : k \in 1..n
        BY <2>2, <1>2
      <4> QED
        BY <4>1, <2>1, <2>2, <1>3
    <3>2. PrevAt(T, i) = Spec0!Lookup(SubSeq(ss, 1, j - 1), NameAt(T, i))
      BY <3>1, <2>1, <2>2, <1>3 DEF Tidy, Hides, n
    <3> QED
      BY <3>2, <2>2, <1>3
  <2>3. CASE i = n + 1
    <3>1. y.v \in Names /\ PrevAt(U, i) = T.head[y.v] /\ NameAt(U, i) = y.v
      BY <2>1, <2>3, <1>3, <1>4
    <3>2. \A k \in 1..n : base[j] < k => NameAt(T, k) # y.v
      <4>1. \A k \in 1..n : k \in 1..(i - 1)
        BY <2>3, <1>2
      <4> QED
        BY <4>1, <2>1, <3>1, <1>3
    <3>3. Spec0!Lookup(ss, y.v) = Spec0!Lookup(SubSeq(ss, 1, j - 1), y.v)
      BY <3>1, <3>2, <1>1, OuterLookup DEF n
    <3>4. T.head[y.v] = Spec0!Lookup(ss, y.v)
      BY <3>1 DEF Tidy, Headed
    <3> QED
      BY <3>1, <3>3, <3>4
  <2> QED
    BY <2>2, <2>3, <1>3
<1> QED
  BY <1>5, <1>6, <1>7, <1>8, <1>9

\* A symbol without a name that finds it is no declaration,
LEMMA DeadTidy ==
    ASSUME NEW T, NEW ss, NEW base, Tidy(T, ss, base), NEW U, NEW s \in Syms, T.free[s] > 0,
           NEW y \in Records, OnTop(T, U, "local", s, y), Pool(U), y.v # Anon => y.prev_tok = T.head[y.v],
           U.head = T.head
    PROVE  Tidy(U, ss, base)
<1>1. Headed(U, ss)
  BY DEF Tidy, Headed
<1> QED
  BY <1>1, TopTidy DEF Tidy

\* and one that its name finds is a declaration in the innermost scope.
LEMMA PushTidy ==
    ASSUME NEW T, NEW ss, NEW base, Tidy(T, ss, base), Len(ss) >= 2, NEW U, NEW s \in Syms, T.free[s] > 0,
           NEW y \in Records, OnTop(T, U, "local", s, y), Pool(U), y.v # Anon, y.prev_tok = T.head[y.v],
           U.head = [T.head EXCEPT ![y.v] = s]
    PROVE  Tidy(U, Spec0!Bind(ss, Len(ss), y.v, s), base)
<1> DEFINE v == y.v
           bound == Spec0!Bind(ss, Len(ss), v, s)
           n == Len(T.local)
<1>1. T \in TableSet /\ U \in TableSet /\ Pool(T) /\ Ordered(T, ss, base) /\ v \in Names
  BY DEF Tidy, Pool, Records
<1>2. /\ Ordered(U, ss, base) /\ Filed(U, ss[1]) /\ Scoped(U, ss, base)
      /\ Hides(U, ss, base) /\ Down(U, ss[1])
  BY TopTidy
<1>3. /\ ss \in Seq(OneScope) /\ Len(ss) \in Nat /\ Len(base) = Len(ss)
      /\ base[Len(ss)] \in Nat /\ base[Len(ss)] <= n /\ n \in Nat
  BY <1>1, TableFields, OrderedIs
<1>4. /\ bound \in Seq(OneScope) /\ Len(bound) = Len(ss)
      /\ \A j \in 1..(Len(ss) - 1) : bound[j] = ss[j]
      /\ bound[Len(ss)][v] = s
      /\ \A w \in Names : w # v => bound[Len(ss)][w] = ss[Len(ss)][w]
      /\ Spec0!Lookup(bound, v) = s
      /\ \A w \in Names : w # v => Spec0!Lookup(bound, w) = Spec0!Lookup(ss, w)
  BY <1>1, <1>3, LookupBind
<1> HIDE DEF v, bound
<1>5. bound[1] = ss[1]
  BY <1>3, <1>4
<1>6. Ordered(U, bound, base)
  BY <1>2, <1>4 DEF Ordered
<1>7. Headed(U, bound)
  <2>1. U.head[v] = s /\ \A w \in Names : w # v => U.head[w] = T.head[w]
    BY <1>1, TableFields DEF v
  <2>2. Headed(T, ss)
    BY DEF Tidy
  <2> QED
    BY <2>1, <2>2, <1>4 DEF Headed
<1>8. Hides(U, bound, base)
  <2>1. ASSUME NEW j \in 2..Len(ss) PROVE SubSeq(bound, 1, j - 1) = SubSeq(ss, 1, j - 1)
    <3>1. j - 1 \in Nat /\ j - 1 <= Len(ss) /\ j - 1 <= Len(bound)
      BY <1>3, <1>4
    <3>2. \A i \in 1..(j - 1) : bound[i] = ss[i]
      BY <1>3, <1>4
    <3> QED
      BY <3>1, <3>2, <1>3, <1>4, SubSeqSame
  <2>2. ASSUME NEW j \in 2..Len(ss), NEW i \in 1..Len(U.local), NameAt(U, i) # Anon, base[j] < i,
               \A k \in 1..(i - 1) : base[j] < k => NameAt(U, k) # NameAt(U, i)
        PROVE  PrevAt(U, i) = Spec0!Lookup(SubSeq(bound, 1, j - 1), NameAt(U, i))
    <3>1. PrevAt(U, i) = Spec0!Lookup(SubSeq(ss, 1, j - 1), NameAt(U, i))
      BY <2>2, <1>2 DEF Hides
    <3> QED
      BY <2>1, <3>1
  <2> QED
    BY <2>2, <1>4 DEF Hides
<1>9. Scoped(U, bound, base)
  <2>1. SUFFICES ASSUME NEW j \in 2..Len(ss), NEW w \in Names, bound[j][w] # Nil
                 PROVE  \E i \in 1..Len(U.local) :
                            base[j] < i /\ i <= End(U, base, j) /\ U.local[i] = bound[j][w] /\ NameAt(U, i) = w
    BY <1>4 DEF Scoped
  <2>2. CASE j = Len(ss) /\ w = v
    <3>1. /\ Len(U.local) = n + 1 /\ U.local[n + 1] = s /\ NameAt(U, n + 1) = v
      <4>1. OneMore(T, U, s, y)
        BY <1>1, TopKeeps
      <4> QED
        BY <4>1 DEF OneMore, v
    <3>2. n + 1 \in 1..Len(U.local) /\ base[j] < n + 1 /\ n + 1 <= End(U, base, j)
      BY <2>2, <3>1, <1>3 DEF End
    <3> QED
      BY <2>2, <3>1, <3>2, <1>4
  <2>3. CASE ~(j = Len(ss) /\ w = v)
    <3>1. bound[j][w] = ss[j][w]
      BY <2>1, <2>3, <1>3, <1>4
    <3> QED
      BY <3>1, <2>1, <1>2 DEF Scoped
  <2> QED
    BY <2>2, <2>3
<1> QED
  BY <1>2, <1>5, <1>6, <1>7, <1>8, <1>9 DEF Tidy, bound, v

-----------------------------------------------------------------------------
(* A scope opens and closes *)

LEMMA OpenTidy ==
    ASSUME NEW T, NEW ss, NEW base, Tidy(T, ss, base)
    PROVE  Tidy(T, Append(ss, Spec0!Empty), Append(base, Len(T.local)))
<1> DEFINE n == Len(ss)
           after == Append(ss, Spec0!Empty)
           begins == Append(base, Len(T.local))
<1>1. T \in TableSet /\ Ordered(T, ss, base)
  BY DEF Tidy, Pool
<1>2. Spec0!Empty \in OneScope /\ \A v \in Names : Spec0!Empty[v] = Nil
  BY SymNumbers DEF OneScope, Spec0!Empty
<1>3. /\ ss \in Seq(OneScope) /\ base \in Seq(Nat) /\ n \in Nat /\ n >= 1 /\ Len(base) = n
      /\ \A j \in 1..n : ss[j] \in OneScope /\ base[j] \in Nat /\ base[j] <= Len(T.local)
      /\ \A j \in 1..n : \A k \in 1..j : base[k] <= base[j]
      /\ Len(T.local) \in Nat
  BY <1>1, OrderedIs, TableFields
<1>4. /\ after \in Seq(OneScope) /\ Len(after) = n + 1
      /\ \A j \in 1..n : after[j] = ss[j]
      /\ \A v \in Names : after[n + 1][v] = Nil
  BY <1>2, <1>3
<1>5. /\ begins \in Seq(Nat) /\ Len(begins) = n + 1
      /\ \A j \in 1..n : begins[j] = base[j]
      /\ begins[n + 1] = Len(T.local)
  BY <1>3
<1>6. \A m \in 0..n : SubSeq(after, 1, m) = SubSeq(ss, 1, m)
  BY <1>3, <1>4, SubSeqSame
<1>7. SubSeq(ss, 1, n) = ss
  BY <1>3
<1> HIDE DEF n, after, begins
<1>8. \A j \in 1..(n + 1) : j \in 1..n \/ j = n + 1
  BY <1>3
<1>9. Ordered(T, after, begins)
  <2>1. ASSUME NEW j \in 1..(n + 1)
        PROVE  begins[j] <= Len(T.local) /\ \A k \in 1..j : begins[k] <= begins[j]
    <3>1. CASE j \in 1..n
      BY <3>1, <1>3, <1>5
    <3>2. CASE j = n + 1
      BY <3>2, <1>3, <1>5, <1>8
    <3> QED
      BY <3>1, <3>2, <1>8
  <2> QED
    BY <2>1, <1>3, <1>4, <1>5 DEF Ordered
<1>10. Filed(T, after[1])
  <2>1. after[1] = ss[1]
    BY <1>3, <1>4
  <2> QED
    BY <2>1 DEF Tidy
<1>11. Down(T, after[1])
  <2>1. after[1] = ss[1]
    BY <1>3, <1>4
  <2> QED
    BY <2>1 DEF Tidy
<1>12. Scoped(T, after, begins)
  <2>1. SUFFICES ASSUME NEW j \in 2..(n + 1), NEW v \in Names, after[j][v] # Nil
                 PROVE  \E i \in 1..Len(T.local) :
                            begins[j] < i /\ i <= End(T, begins, j) /\ T.local[i] = after[j][v] /\ NameAt(T, i) = v
    BY <1>4 DEF Scoped
  <2>2. j \in 2..n
    BY <2>1, <1>3, <1>4
  <2>3. PICK i \in 1..Len(T.local) :
            base[j] < i /\ i <= End(T, base, j) /\ T.local[i] = ss[j][v] /\ NameAt(T, i) = v
    BY <2>1, <2>2, <1>3, <1>4 DEF Tidy, Scoped, n
  <2>4. End(T, begins, j) = End(T, base, j)
    <3>1. CASE j = n
      BY <3>1, <1>3, <1>5 DEF End
    <3>2. CASE j # n
      <4>1. j + 1 \in 1..n
        BY <2>2, <3>2, <1>3
      <4> QED
        BY <2>2, <3>2, <4>1, <1>3, <1>5 DEF End
    <3> QED
      BY <3>1, <3>2
  <2> QED
    BY <2>2, <2>3, <2>4, <1>3, <1>4, <1>5
<1>13. Headed(T, after)
  <2>1. SUFFICES ASSUME NEW v \in Names PROVE T.head[v] = Spec0!Lookup(after, v)
    BY DEF Headed
  <2>2. \A j \in (n + 1)..Len(after) : after[j][v] = Nil
    BY <1>3, <1>4
  <2>3. Spec0!Lookup(after, v) = Spec0!Lookup(SubSeq(after, 1, n), v)
    BY <2>2, <1>3, <1>4, LookupOuter
  <2>4. SubSeq(after, 1, n) = ss
    BY <1>3, <1>6, <1>7
  <2>5. T.head[v] = Spec0!Lookup(ss, v)
    BY DEF Tidy, Headed
  <2> QED
    BY <2>3, <2>4, <2>5
<1>14. Hides(T, after, begins)
  <2>1. SUFFICES ASSUME NEW j \in 2..(n + 1), NEW i \in 1..Len(T.local), NameAt(T, i) # Anon, begins[j] < i,
                        \A k \in 1..(i - 1) : begins[j] < k => NameAt(T, k) # NameAt(T, i)
                 PROVE  PrevAt(T, i) = Spec0!Lookup(SubSeq(after, 1, j - 1), NameAt(T, i))
    BY <1>4 DEF Hides
  <2>2. j \in 2..n
    BY <2>1, <1>3, <1>5
  <2>3. SubSeq(after, 1, j - 1) = SubSeq(ss, 1, j - 1) /\ begins[j] = base[j]
    <3>1. j - 1 \in 0..n /\ j \in 1..n
      BY <2>2, <1>3
    <3> QED
      BY <3>1, <1>5, <1>6
  <2>4. PrevAt(T, i) = Spec0!Lookup(SubSeq(ss, 1, j - 1), NameAt(T, i))
    BY <2>1, <2>2, <2>3 DEF Tidy, Hides, n
  <2> QED
    BY <2>3, <2>4
<1> QED
  BY <1>9, <1>10, <1>11, <1>12, <1>13, <1>14 DEF Tidy, n, after, begins

\* The symbols that leave their chains bring back what is visible outside the innermost scope.
LEMMA UnlinkedType ==
    ASSUME NEW T \in TableSet, NEW where \in {"local", "global"}, NEW n \in Nat
    PROVE  Unlinked(T, where, n) \in [Names -> 0..MaxSyms]
<1>1. T[where] \in Seq(Syms) /\ \A i \in 1..Len(T[where]) : T.sym[T[where][i]].prev_tok \in 0..MaxSyms
  <2>1. \A s \in Syms : T.sym[s].prev_tok \in 0..MaxSyms
    BY TableFields DEF Records
  <2>2. T[where] \in Seq(Syms) /\ \A i \in 1..Len(T[where]) : T[where][i] \in Syms
    BY TableFields
  <2> QED
    BY <2>1, <2>2
<1>2. ASSUME NEW v \in Names PROVE Unlinked(T, where, n)[v] \in 0..MaxSyms
  <2>1. \A i \in (n + 1)..Len(T[where]) : i \in 1..Len(T[where])
    BY <1>1
  <2>2. T.head[v] \in 0..MaxSyms
    BY TableFields
  <2>3. \A i : Lowest(T, where, n, v, i) => i \in 1..Len(T[where])
    BY <2>1 DEF Lowest
  <2>4. CASE \A i \in (n + 1)..Len(T[where]) : ~Named(T, where, i, v)
    <3>1. Unlinked(T, where, n)[v] = T.head[v]
      BY <2>4, <1>1, UnlinkedIs
    <3> QED
      BY <3>1, <2>2
  <2>5. CASE \E i : Lowest(T, where, n, v, i)
    <3>1. PICK i : Lowest(T, where, n, v, i)
      BY <2>5
    <3>2. Unlinked(T, where, n)[v] = T.sym[T[where][i]].prev_tok
      BY <3>1, <1>1, UnlinkedIs
    <3> QED
      BY <3>1, <3>2, <2>3, <1>1
  <2> QED
    BY <2>4, <2>5, <1>1, UnlinkedIs
<1>3. Unlinked(T, where, n) = [v \in Names |-> Unlinked(T, where, n)[v]]
  BY DEF Unlinked
<1> QED
  BY <1>2, <1>3

LEMMA CloseHead ==
    ASSUME NEW T, NEW ss, NEW base, Tidy(T, ss, base), Len(ss) >= 2, NEW v \in Names
    PROVE  Unlinked(T, "local", base[Len(ss)])[v] = Spec0!Lookup(SubSeq(ss, 1, Len(ss) - 1), v)
<1> DEFINE m == Len(ss)
           n == base[m]
           q == T.local
<1>1. T \in TableSet /\ Ordered(T, ss, base) /\ Scoped(T, ss, base)
  BY DEF Tidy, Pool
<1>2. m \in 2..Len(ss) /\ n \in Nat /\ n <= Len(q) /\ Len(q) \in Nat /\ q \in Seq(Syms)
  BY <1>1, OrderedIs, TableFields
<1>3. T["local"] = q
  OBVIOUS
<1> HIDE DEF m, n, q
<1>4. CASE \A i \in (n + 1)..Len(q) : ~Named(T, "local", i, v)
  <2>1. Unlinked(T, "local", n)[v] = T.head[v]
    BY <1>2, <1>3, <1>4, UnlinkedIs
  <2>2. \A i \in 1..Len(T.local) : base[m] < i => NameAt(T, i) # v
    BY <1>2, <1>3, <1>4 DEF NameAt, Named, q, n
  <2>3. Spec0!Lookup(ss, v) = Spec0!Lookup(SubSeq(ss, 1, m - 1), v)
    BY <2>2, <1>1, <1>2, OuterLookup
  <2> QED
    BY <2>1, <2>3 DEF Tidy, Headed, m, n
<1>5. ASSUME NEW i, Lowest(T, "local", n, v, i)
      PROVE  Unlinked(T, "local", n)[v] = Spec0!Lookup(SubSeq(ss, 1, m - 1), v)
  <2>1. Unlinked(T, "local", n)[v] = T.sym[q[i]].prev_tok
    BY <1>2, <1>3, <1>5, UnlinkedIs
  <2>2. i \in 1..Len(T.local) /\ base[m] < i /\ NameAt(T, i) = v /\ v # Anon
    BY <1>2, <1>3, <1>5, SymNumbers DEF NameAt, Lowest, Named, q, n
  <2>3. \A k \in 1..(i - 1) : base[m] < k => NameAt(T, k) # NameAt(T, i)
    <3>1. SUFFICES ASSUME NEW k \in 1..(i - 1), base[m] < k PROVE NameAt(T, k) # v
      BY <2>2
    <3>2. k \in (n + 1)..(i - 1)
      BY <3>1, <2>2, <1>2 DEF n
    <3> QED
      BY <3>2, <1>3, <1>5 DEF NameAt, Lowest, Named, q
  <2>4. PrevAt(T, i) = Spec0!Lookup(SubSeq(ss, 1, m - 1), NameAt(T, i))
    BY <2>2, <2>3, <1>2 DEF Tidy, Hides
  <2> QED
    BY <2>1, <2>2, <2>4 DEF PrevAt, q
<1>6. Unlinked(T, "local", n)[v] = Spec0!Lookup(SubSeq(ss, 1, m - 1), v)
  <2>1. T["local"] \in Seq(Syms)
    BY <1>2, <1>3
  <2>2. (\A i \in (n + 1)..Len(q) : ~Named(T, "local", i, v)) \/ \E i : Lowest(T, "local", n, v, i)
    BY <2>1, <1>2, UnlinkedIs DEF q
  <2> QED
    BY <2>2, <1>4, <1>5 DEF m, n
<1> QED
  BY <1>6 DEF m, n

\* What is left when the innermost scope is gone.
LEMMA OuterIs ==
    ASSUME NEW T \in TableSet, NEW ss, NEW base, Ordered(T, ss, base), Len(ss) >= 2
    PROVE  LET m == Len(ss) - 1
               outer == SubSeq(ss, 1, m)
               begins == SubSeq(base, 1, m)
           IN  /\ outer \in Seq(OneScope) /\ begins \in Seq(Nat) /\ m \in Nat /\ m >= 1
               /\ Len(outer) = m /\ Len(begins) = m
               /\ \A j \in 1..m : outer[j] = ss[j] /\ begins[j] = base[j]
               /\ \A j \in 1..m : SubSeq(outer, 1, j - 1) = SubSeq(ss, 1, j - 1)
               /\ \A j \in 1..m : \A k \in 1..j : begins[k] <= begins[j] /\ begins[j] \in Nat /\ begins[j] <= base[m + 1]
               /\ base[m + 1] \in Nat /\ base[m + 1] <= Len(T.local)
               /\ \A j \in 1..m : End(T, base, j) <= base[m + 1]
<1> DEFINE m == Len(ss) - 1
           outer == SubSeq(ss, 1, m)
           begins == SubSeq(base, 1, m)
<1>1. /\ ss \in Seq(OneScope) /\ base \in Seq(Nat) /\ Len(ss) \in Nat /\ Len(base) = Len(ss)
      /\ \A j \in 1..Len(ss) : base[j] \in Nat /\ base[j] <= Len(T.local)
      /\ \A j \in 1..Len(ss) : \A k \in 1..j : base[k] <= base[j]
  BY OrderedIs
<1>2. m \in Nat /\ m >= 1 /\ m <= Len(ss) /\ Len(ss) = m + 1 /\ m + 1 \in 1..Len(ss) /\ \A j \in 1..m : j \in 1..Len(ss)
  BY <1>1
<1>3. /\ outer \in Seq(OneScope) /\ begins \in Seq(Nat)
      /\ Len(outer) = m /\ Len(begins) = m
      /\ \A j \in 1..m : outer[j] = ss[j] /\ begins[j] = base[j]
  BY <1>1, <1>2
<1> HIDE DEF m, outer, begins
<1>4. ASSUME NEW j \in 1..m PROVE SubSeq(outer, 1, j - 1) = SubSeq(ss, 1, j - 1)
  <2>1. j - 1 \in Nat /\ j - 1 <= Len(outer) /\ j - 1 <= Len(ss) /\ \A i \in 1..(j - 1) : i \in 1..m
    BY <1>2, <1>3
  <2> QED
    BY <2>1, <1>1, <1>3, SubSeqSame
<1>5. ASSUME NEW j \in 1..m
      PROVE  (\A k \in 1..j : begins[k] <= begins[j]) /\ begins[j] \in Nat /\ begins[j] <= base[m + 1]
  <2>1. j \in 1..(m + 1) /\ \A k \in 1..j : k \in 1..m
    BY <1>2
  <2> QED
    BY <2>1, <1>1, <1>2, <1>3
<1>6. base[m + 1] \in Nat /\ base[m + 1] <= Len(T.local)
  BY <1>1, <1>2
<1>7. ASSUME NEW j \in 1..m PROVE End(T, base, j) <= base[m + 1]
  <2>1. j + 1 \in 1..(m + 1) /\ j # Len(base)
    BY <1>1, <1>2
  <2> QED
    BY <2>1, <1>1, <1>2 DEF End
<1> QED
  BY <1>2, <1>3, <1>4, <1>5, <1>6, <1>7 DEF m, outer, begins

\* A scope of a statement expression closes: its symbols stay on the stack.
LEMMA KeepTidy ==
    ASSUME NEW T, NEW ss, NEW base, Tidy(T, ss, base), Len(ss) >= 2, NEW U, Pool(U),
           U.sym = T.sym, U.local = T.local, U.global = T.global,
           U.head = Unlinked(T, "local", base[Len(ss)])
    PROVE  Tidy(U, SubSeq(ss, 1, Len(ss) - 1), SubSeq(base, 1, Len(ss) - 1))
<1> DEFINE m == Len(ss) - 1
           outer == SubSeq(ss, 1, m)
           begins == SubSeq(base, 1, m)
<1>1. T \in TableSet /\ U \in TableSet /\ Ordered(T, ss, base)
  BY DEF Tidy, Pool
<1>2. /\ outer \in Seq(OneScope) /\ begins \in Seq(Nat) /\ m \in Nat /\ m >= 1
      /\ Len(outer) = m /\ Len(begins) = m
      /\ \A j \in 1..m : outer[j] = ss[j] /\ begins[j] = base[j]
      /\ \A j \in 1..m : SubSeq(outer, 1, j - 1) = SubSeq(ss, 1, j - 1)
      /\ \A j \in 1..m : \A k \in 1..j : begins[k] <= begins[j] /\ begins[j] \in Nat /\ begins[j] <= base[m + 1]
      /\ base[m + 1] \in Nat /\ base[m + 1] <= Len(T.local)
      /\ \A j \in 1..m : End(T, base, j) <= base[m + 1]
  BY <1>1, OuterIs
<1>3. Len(ss) \in Nat /\ Len(ss) = m + 1 /\ Len(base) = Len(ss) /\ Len(T.local) \in Nat
  BY <1>1, OrderedIs, TableFields
<1>4. Headed(U, outer)
  BY CloseHead DEF Headed
<1> HIDE DEF m, outer, begins
<1>5. Ordered(U, outer, begins)
  <2>1. ASSUME NEW j \in 1..m PROVE begins[j] <= Len(U.local)
    <3>1. j \in 1..j
      BY <2>1, <1>2
    <3> QED
      BY <3>1, <1>2, <1>3
  <2> QED
    BY <2>1, <1>2 DEF Ordered
<1>6. outer[1] = ss[1]
  BY <1>2
<1>7. Filed(U, outer[1])
  BY <1>6 DEF Tidy, Filed
<1>8. Down(U, outer[1])
  BY <1>6 DEF Tidy, Down, Below, NameAt, PrevAt
<1>9. Scoped(U, outer, begins)
  <2>1. SUFFICES ASSUME NEW j \in 2..m, NEW v \in Names, outer[j][v] # Nil
                 PROVE  \E i \in 1..Len(U.local) :
                            begins[j] < i /\ i <= End(U, begins, j) /\ U.local[i] = outer[j][v] /\ NameAt(U, i) = v
    BY <1>2 DEF Scoped
  <2>2. j \in 2..Len(ss) /\ j \in 1..m
    BY <1>2, <1>3
  <2>3. PICK i \in 1..Len(T.local) :
            base[j] < i /\ i <= End(T, base, j) /\ T.local[i] = ss[j][v] /\ NameAt(T, i) = v
    BY <2>1, <2>2, <1>2 DEF Tidy, Scoped
  <2>4. i <= End(U, begins, j)
    <3>1. CASE j = m
      BY <3>1, <2>3, <1>2 DEF End
    <3>2. CASE j # m
      BY <3>2, <2>2, <2>3, <1>2, <1>3 DEF End
    <3> QED
      BY <3>1, <3>2
  <2> QED
    BY <2>2, <2>3, <2>4, <1>2 DEF NameAt
<1>10. Hides(U, outer, begins)
  <2>1. SUFFICES ASSUME NEW j \in 2..m, NEW i \in 1..Len(U.local), NameAt(U, i) # Anon, begins[j] < i,
                        \A k \in 1..(i - 1) : begins[j] < k => NameAt(U, k) # NameAt(U, i)
                 PROVE  PrevAt(U, i) = Spec0!Lookup(SubSeq(outer, 1, j - 1), NameAt(U, i))
    BY <1>2 DEF Hides
  <2>2. j \in 2..Len(ss) /\ j \in 1..m
    BY <1>2, <1>3
  <2>3. SubSeq(outer, 1, j - 1) = SubSeq(ss, 1, j - 1) /\ begins[j] = base[j]
    BY <2>2, <1>2
  <2>4. PrevAt(T, i) = Spec0!Lookup(SubSeq(ss, 1, j - 1), NameAt(T, i))
    BY <2>1, <2>2, <2>3 DEF Tidy, Hides, NameAt
  <2> QED
    BY <2>3, <2>4 DEF NameAt, PrevAt
<1> QED
  BY <1>4, <1>5, <1>7, <1>8, <1>9, <1>10 DEF Tidy, m, outer, begins

\* What is below the beginning of a scope is left alone when its symbols go.
LEMMA CutKeeps ==
    ASSUME NEW T \in TableSet, NEW n \in Nat, n <= Len(T.local), NEW U, Cut(T, U, "local", n)
    PROVE  /\ U \in TableSet /\ Len(U.local) = n /\ U.global = T.global
           /\ \A i \in 1..n :
                 /\ i \in 1..Len(T.local) /\ U.local[i] = T.local[i] /\ U.sym[T.local[i]] = T.sym[T.local[i]]
                 /\ NameAt(U, i) = NameAt(T, i) /\ PrevAt(U, i) = PrevAt(T, i)
           /\ \A i \in 1..Len(T.global) : U.sym[T.global[i]] = T.sym[T.global[i]]
<1>1. U \in TableSet /\ U.local = SubSeq(T.local, 1, n) /\ U.global = T.global
      /\ \A s \in Syms : Stacked(U, s) => U.sym[s] = T.sym[s]
  BY DEF Cut
<1>2. T.local \in Seq(Syms) /\ T.global \in Seq(Syms) /\ Len(T.local) \in Nat
  BY TableFields
<1>3. Len(U.local) = n /\ \A i \in 1..n : i \in 1..Len(T.local) /\ U.local[i] = T.local[i]
  BY <1>1, <1>2
<1>4. ASSUME NEW i \in 1..n PROVE U.sym[T.local[i]] = T.sym[T.local[i]]
  <2>1. T.local[i] \in Syms
    BY <1>2, <1>3
  <2>2. Stacked(U, T.local[i])
    BY <1>3 DEF Stacked
  <2> QED
    BY <2>1, <2>2, <1>1
<1>5. ASSUME NEW i \in 1..Len(T.global) PROVE U.sym[T.global[i]] = T.sym[T.global[i]]
  <2>1. T.global[i] \in Syms
    BY <1>2
  <2>2. Stacked(U, T.global[i])
    BY <1>1 DEF Stacked
  <2> QED
    BY <2>1, <2>2, <1>1
<1> QED
  BY <1>1, <1>3, <1>4, <1>5 DEF NameAt, PrevAt

\* Any other scope closes: its symbols are freed.
LEMMA CloseTidy ==
    ASSUME NEW T, NEW ss, NEW base, Tidy(T, ss, base), Len(ss) >= 2, NEW U,
           Cut(T, U, "local", base[Len(ss)]), U.head = Unlinked(T, "local", base[Len(ss)])
    PROVE  Tidy(U, SubSeq(ss, 1, Len(ss) - 1), SubSeq(base, 1, Len(ss) - 1))
<1> DEFINE m == Len(ss) - 1
           n == base[m + 1]
           outer == SubSeq(ss, 1, m)
           begins == SubSeq(base, 1, m)
<1>1. T \in TableSet /\ U \in TableSet /\ Pool(U) /\ Ordered(T, ss, base)
  BY DEF Tidy, Pool, Cut
<1>2. /\ outer \in Seq(OneScope) /\ begins \in Seq(Nat) /\ m \in Nat /\ m >= 1
      /\ Len(outer) = m /\ Len(begins) = m
      /\ \A j \in 1..m : outer[j] = ss[j] /\ begins[j] = base[j]
      /\ \A j \in 1..m : SubSeq(outer, 1, j - 1) = SubSeq(ss, 1, j - 1)
      /\ \A j \in 1..m : \A k \in 1..j : begins[k] <= begins[j] /\ begins[j] \in Nat /\ begins[j] <= n
      /\ n \in Nat /\ n <= Len(T.local)
      /\ \A j \in 1..m : End(T, base, j) <= n
  BY <1>1, OuterIs
<1>3. Len(ss) \in Nat /\ Len(ss) = m + 1 /\ Len(base) = Len(ss) /\ Len(T.local) \in Nat
  BY <1>1, OrderedIs, TableFields
<1>4. Headed(U, outer)
  BY CloseHead DEF Headed
<1>5. /\ Len(U.local) = n /\ U.global = T.global
      /\ \A i \in 1..n :
            /\ i \in 1..Len(T.local) /\ U.local[i] = T.local[i] /\ U.sym[T.local[i]] = T.sym[T.local[i]]
            /\ NameAt(U, i) = NameAt(T, i) /\ PrevAt(U, i) = PrevAt(T, i)
      /\ \A i \in 1..Len(T.global) : U.sym[T.global[i]] = T.sym[T.global[i]]
  BY <1>1, <1>2, <1>3, CutKeeps
<1> HIDE DEF m, n, outer, begins
<1>6. Ordered(U, outer, begins)
  <2>1. ASSUME NEW j \in 1..m PROVE begins[j] <= Len(U.local)
    <3>1. j \in 1..j
      BY <2>1, <1>2
    <3> QED
      BY <3>1, <1>2, <1>5
  <2> QED
    BY <2>1, <1>2 DEF Ordered
<1>7. outer[1] = ss[1]
  BY <1>2
<1>8. Filed(U, outer[1])
  <2>1. Filed(T, ss[1])
    BY DEF Tidy
  <2> QED
    BY <2>1, <1>1, <1>5, <1>7, FiledKept
<1>9. Down(U, outer[1])
  <2>1. SUFFICES ASSUME NEW i \in 1..n, NameAt(U, i) # Anon
                 PROVE  Below(U, ss[1], i, NameAt(U, i), PrevAt(U, i))
    BY <1>5, <1>7 DEF Down
  <2>2. Below(T, ss[1], i, NameAt(U, i), PrevAt(U, i))
    BY <2>1, <1>5 DEF Tidy, Down
  <2>3. \A k \in 1..(i - 1) : k \in 1..n
    BY <1>2
  <2> QED
    BY <2>2, <2>3, <1>5 DEF Below
<1>10. Scoped(U, outer, begins)
  <2>1. SUFFICES ASSUME NEW j \in 2..m, NEW v \in Names, outer[j][v] # Nil
                 PROVE  \E i \in 1..Len(U.local) :
                            begins[j] < i /\ i <= End(U, begins, j) /\ U.local[i] = outer[j][v] /\ NameAt(U, i) = v
    BY <1>2 DEF Scoped
  <2>2. j \in 2..Len(ss) /\ j \in 1..m
    BY <1>2, <1>3
  <2>3. PICK i \in 1..Len(T.local) :
            base[j] < i /\ i <= End(T, base, j) /\ T.local[i] = ss[j][v] /\ NameAt(T, i) = v
    BY <2>1, <2>2, <1>2 DEF Tidy, Scoped
  <2>4. End(T, base, j) \in Nat /\ End(T, base, j) <= n
    BY <2>2, <1>1, <1>2, <1>3, OrderedIs
  <2>5. i \in 1..n
    BY <2>3, <2>4, <1>2
  <2>6. i <= End(U, begins, j)
    <3>1. CASE j = m
      <4>1. End(U, begins, m) = n
        BY <1>2, <1>5 DEF End
      <4> QED
        BY <3>1, <4>1, <2>5, <1>2
    <3>2. CASE j # m
      <4>1. j + 1 \in 1..m /\ j # m + 1
        BY <3>2, <2>2, <1>2
      <4>2. End(U, begins, j) = base[j + 1] /\ End(T, base, j) = base[j + 1]
        BY <3>2, <4>1, <1>2, <1>3 DEF End
      <4> QED
        BY <4>2, <2>3
    <3> QED
      BY <3>1, <3>2
  <2> QED
    BY <2>2, <2>3, <2>5, <2>6, <1>2, <1>5
<1>11. Hides(U, outer, begins)
  <2>1. SUFFICES ASSUME NEW j \in 2..m, NEW i \in 1..n, NameAt(U, i) # Anon, begins[j] < i,
                        \A k \in 1..(i - 1) : begins[j] < k => NameAt(U, k) # NameAt(U, i)
                 PROVE  PrevAt(U, i) = Spec0!Lookup(SubSeq(outer, 1, j - 1), NameAt(U, i))
    BY <1>2, <1>5 DEF Hides
  <2>2. j \in 2..Len(ss) /\ j \in 1..m
    BY <1>2, <1>3
  <2>3. SubSeq(outer, 1, j - 1) = SubSeq(ss, 1, j - 1) /\ begins[j] = base[j]
    BY <2>2, <1>2
  <2>4. i \in 1..Len(T.local) /\ NameAt(T, i) = NameAt(U, i) /\ PrevAt(T, i) = PrevAt(U, i)
    BY <1>5
  <2>5. \A k \in 1..(i - 1) : base[j] < k => NameAt(T, k) # NameAt(T, i)
    <3>1. \A k \in 1..(i - 1) : k \in 1..n
      BY <1>2
    <3> QED
      BY <3>1, <2>1, <2>3, <2>4, <1>5
  <2>6. PrevAt(T, i) = Spec0!Lookup(SubSeq(ss, 1, j - 1), NameAt(T, i))
    BY <2>1, <2>2, <2>3, <2>4, <2>5 DEF Tidy, Hides
  <2> QED
    BY <2>3, <2>4, <2>6
<1> QED
  BY <1>1, <1>4, <1>6, <1>8, <1>9, <1>10, <1>11 DEF Tidy, m, outer, begins

-----------------------------------------------------------------------------
(* The file scope *)

\* Between functions the names find what the file scope has.
LEMMA FileTidy ==
    ASSUME NEW U, Pool(U), U.local = <<>>, NEW ss \in Seq(OneScope), NEW base \in Seq(Nat),
           Len(ss) = 1, Len(base) = 1, base[1] = 0, Filed(U, ss[1]), \A v \in Names : U.head[v] = ss[1][v]
    PROVE  Tidy(U, ss, base) /\ Chained(U, ss[1])
<1>1. Len(U.local) = 0
  OBVIOUS
<1>2. Ordered(U, ss, base)
  BY ONLY <1>1, ss \in Seq(OneScope), base \in Seq(Nat), Len(ss) = 1, Len(base) = 1, base[1] = 0 DEF Ordered
<1>3. Scoped(U, ss, base) /\ Hides(U, ss, base) /\ Down(U, ss[1])
  BY ONLY <1>1, Len(ss) = 1 DEF Scoped, Hides, Down
<1>4. ASSUME NEW v \in Names PROVE Spec0!Lookup(ss, v) = ss[1][v]
  <2>1. 1 \in 1..Len(ss) /\ \A j \in 1..Len(ss) : j = 1
    OBVIOUS
  <2>2. \A j \in (1 + 1)..Len(ss) : ss[j][v] = Nil
    OBVIOUS
  <2> QED
    BY <2>1, <2>2, LookupIs
<1>5. Headed(U, ss)
  BY <1>4 DEF Headed
<1>6. Chained(U, ss[1])
  BY <1>1 DEF Chained, NextBelow
<1> QED
  BY <1>2, <1>3, <1>5, <1>6 DEF Tidy

\* A unit begins with empty tables.
LEMMA EmptyTidy ==
    ASSUME NEW U, Pool(U), U.local = <<>>, U.global = <<>>, U.head = Spec0!Empty,
           NEW base \in Seq(Nat), Len(base) = 1, base[1] = 0
    PROVE  Tidy(U, <<Spec0!Empty>>, base) /\ Chained(U, Spec0!Empty)
<1> DEFINE ss == <<Spec0!Empty>>
<1>1. Spec0!Empty \in OneScope /\ \A v \in Names : Spec0!Empty[v] = Nil
  BY SymNumbers DEF OneScope, Spec0!Empty
<1>2. ss \in Seq(OneScope) /\ Len(ss) = 1 /\ ss[1] = Spec0!Empty
  BY <1>1
<1>3. Len(U.global) = 0
  OBVIOUS
<1>4. Filed(U, ss[1])
  BY <1>1, <1>2, <1>3 DEF Filed
<1> HIDE DEF ss
<1>5. Tidy(U, ss, base) /\ Chained(U, ss[1])
  BY <1>1, <1>2, <1>4, FileTidy
<1> QED
  BY <1>2, <1>5 DEF ss

\* A new global symbol leaves those below it alone.
OneMoreGlobal(T, U, s) ==
    LET n == Len(T.global)
    IN  /\ n \in Nat /\ Len(U.global) = n + 1 /\ U.global[n + 1] = s
        /\ \A i \in 1..n : i \in 1..(n + 1) /\ U.global[i] = T.global[i] /\ T.global[i] \in Syms /\ T.global[i] # s
        /\ \A i \in 1..(n + 1) : i \in 1..n \/ i = n + 1
        /\ \A i \in 1..Len(T.local) : T.local[i] \in Syms /\ T.local[i] # s

LEMMA GlobalTop ==
    ASSUME NEW T, Pool(T), NEW U, NEW s \in Syms, T.free[s] > 0, U.global = Append(T.global, s)
    PROVE  OneMoreGlobal(T, U, s)
<1>1. T \in TableSet /\ ~Stacked(T, s)
  BY TableFields DEF Pool
<1>2. /\ \A i \in 1..Len(T.local) : T.local[i] \in Syms /\ T.local[i] # s
      /\ \A i \in 1..Len(T.global) : T.global[i] \in Syms /\ T.global[i] # s
  BY <1>1, TableFields DEF Stacked
<1>3. /\ Len(U.global) = Len(T.global) + 1 /\ U.global[Len(T.global) + 1] = s
      /\ \A i \in 1..Len(T.global) : U.global[i] = T.global[i]
      /\ \A i \in 1..(Len(T.global) + 1) : i \in 1..Len(T.global) \/ i = Len(T.global) + 1
  BY <1>1, TableFields, AppendIs
<1>4. Len(T.global) \in Nat /\ \A i \in 1..Len(T.global) : i \in 1..(Len(T.global) + 1)
  BY <1>1, TableFields
<1> QED
  BY <1>2, <1>3, <1>4 DEF OneMoreGlobal

\* It declares its name in the file scope,
LEMMA FiledMore ==
    ASSUME NEW T, Pool(T), NEW F \in OneScope, Filed(T, F), NEW U, NEW s \in Syms, T.free[s] > 0,
           U.global = Append(T.global, s), \A i \in 1..Len(T.global) : U.sym[T.global[i]] = T.sym[T.global[i]],
           NEW v \in Names, F[v] = Nil, U.sym[s].v = v, U.sym[s].scope = 0, U.sym[s].prev_tok = Nil,
           NEW G, G[v] = s, \A w \in Names : w # v => G[w] = F[w]
    PROVE  Filed(U, G)
<1> DEFINE n == Len(T.global)
<1>1. /\ n \in Nat /\ Len(U.global) = n + 1 /\ U.global[n + 1] = s
      /\ \A i \in 1..n : i \in 1..(n + 1) /\ U.global[i] = T.global[i] /\ T.global[i] \in Syms /\ T.global[i] # s
      /\ \A i \in 1..(n + 1) : i \in 1..n \/ i = n + 1
  <2>1. OneMoreGlobal(T, U, s)
    BY GlobalTop
  <2> QED
    BY <2>1 DEF OneMoreGlobal
<1>2. \A i \in 1..n : U.sym[T.global[i]] = T.sym[T.global[i]]
  OBVIOUS
<1>3. /\ \A w \in Names : F[w] # Nil =>
            /\ \E i \in 1..n : T.global[i] = F[w]
            /\ T.sym[F[w]].v = w /\ T.sym[F[w]].scope = 0 /\ T.sym[F[w]].prev_tok = Nil
      /\ \A i \in 1..n : T.sym[T.global[i]].v # Anon =>
            /\ T.sym[T.global[i]].scope = 0 => F[T.sym[T.global[i]].v] = T.global[i]
            /\ (\A k \in 1..(i - 1) : T.sym[T.global[k]].v # T.sym[T.global[i]].v) =>
                  T.sym[T.global[i]].prev_tok = Nil
  BY DEF Filed
<1>4. \A i \in 1..n : T.sym[T.global[i]].v # Anon => T.sym[T.global[i]].v \in Names
  <2>1. \A r \in Syms : T.sym[r] \in Records
    BY TableFields DEF Pool
  <2> QED
    BY <2>1, <1>1 DEF Records
<1> HIDE DEF n
<1>5. ASSUME NEW w \in Names, G[w] # Nil
      PROVE  /\ \E i \in 1..(n + 1) : U.global[i] = G[w]
             /\ U.sym[G[w]].v = w /\ U.sym[G[w]].scope = 0 /\ U.sym[G[w]].prev_tok = Nil
  <2>1. CASE w = v
    <3>1. n + 1 \in 1..(n + 1)
      BY <1>1
    <3> QED
      BY <2>1, <3>1, <1>1
  <2>2. CASE w # v
    <3>1. F[w] # Nil /\ G[w] = F[w]
      BY <1>5, <2>2
    <3>2. PICK i \in 1..n : T.global[i] = F[w]
      BY <3>1, <1>3
    <3>3. U.sym[F[w]] = T.sym[F[w]] /\ U.global[i] = F[w] /\ i \in 1..(n + 1)
      BY <3>2, <1>1, <1>2
    <3>4. T.sym[F[w]].v = w /\ T.sym[F[w]].scope = 0 /\ T.sym[F[w]].prev_tok = Nil
      BY <3>1, <1>3
    <3> QED
      BY <3>1, <3>3, <3>4
  <2> QED
    BY <2>1, <2>2
<1>6. ASSUME NEW i \in 1..(n + 1), U.sym[U.global[i]].v # Anon
      PROVE  LET z == U.sym[U.global[i]] IN
             /\ z.scope = 0 => G[z.v] = U.global[i]
             /\ (\A k \in 1..(i - 1) : U.sym[U.global[k]].v # z.v) => z.prev_tok = Nil
  <2>1. CASE i \in 1..n
    <3>1. U.global[i] = T.global[i] /\ U.sym[U.global[i]] = T.sym[T.global[i]] /\ T.global[i] # Nil
      BY <2>1, <1>1, <1>2, SymNumbers
    <3>2. T.sym[T.global[i]].v \in Names
      BY <2>1, <3>1, <1>4, <1>6
    <3>3. T.sym[T.global[i]].scope = 0 => G[T.sym[T.global[i]].v] = T.global[i]
      BY <2>1, <3>1, <3>2, <1>3, SymNumbers
    <3>4. \A k \in 1..(i - 1) : U.sym[U.global[k]] = T.sym[T.global[k]]
      <4>1. \A k \in 1..(i - 1) : k \in 1..n
        BY <2>1, <1>1
      <4> QED
        BY <4>1, <1>1, <1>2
    <3>5. (\A k \in 1..(i - 1) : T.sym[T.global[k]].v # T.sym[T.global[i]].v) => T.sym[T.global[i]].prev_tok = Nil
      BY <2>1, <3>1, <1>3, <1>6
    <3> QED
      BY <3>1, <3>3, <3>4, <3>5
  <2>2. CASE i = n + 1
    BY <2>2, <1>1
  <2> QED
    BY <2>1, <2>2, <1>1
<1>7. U.global = Append(T.global, s) /\ Len(U.global) = n + 1
  BY <1>1
<1>8. \A w \in Names : G[w] # Nil =>
        /\ \E i \in 1..Len(U.global) : U.global[i] = G[w]
        /\ U.sym[G[w]].v = w /\ U.sym[G[w]].scope = 0 /\ U.sym[G[w]].prev_tok = Nil
  BY <1>5, <1>7
<1>9. \A i \in 1..Len(U.global) :
        LET z == U.sym[U.global[i]] IN z.v # Anon =>
            /\ z.scope = 0 => G[z.v] = U.global[i]
            /\ (\A k \in 1..(i - 1) : U.sym[U.global[k]].v # z.v) => z.prev_tok = Nil
  BY <1>6, <1>7
<1> QED
  BY ONLY <1>8, <1>9 DEF Filed

\* unless it is a parameter of a prototype, or has no name.
LEMMA FiledDead ==
    ASSUME NEW T, Pool(T), NEW F \in OneScope, Filed(T, F), NEW U, NEW s \in Syms, T.free[s] > 0,
           U.global = Append(T.global, s), \A i \in 1..Len(T.global) : U.sym[T.global[i]] = T.sym[T.global[i]],
           U.sym[s].v # Anon =>
               U.sym[s].v \in Names /\ U.sym[s].scope # 0 /\ U.sym[s].prev_tok = F[U.sym[s].v]
    PROVE  Filed(U, F)
<1> DEFINE n == Len(T.global)
<1>1. /\ n \in Nat /\ Len(U.global) = n + 1 /\ U.global[n + 1] = s
      /\ \A i \in 1..n : i \in 1..(n + 1) /\ U.global[i] = T.global[i] /\ T.global[i] \in Syms /\ T.global[i] # s
      /\ \A i \in 1..(n + 1) : i \in 1..n \/ i = n + 1
  <2>1. OneMoreGlobal(T, U, s)
    BY GlobalTop
  <2> QED
    BY <2>1 DEF OneMoreGlobal
<1>2. \A i \in 1..n : U.sym[T.global[i]] = T.sym[T.global[i]]
  OBVIOUS
<1>3. /\ \A w \in Names : F[w] # Nil =>
            /\ \E i \in 1..n : T.global[i] = F[w]
            /\ T.sym[F[w]].v = w /\ T.sym[F[w]].scope = 0 /\ T.sym[F[w]].prev_tok = Nil
      /\ \A i \in 1..n : T.sym[T.global[i]].v # Anon =>
            /\ T.sym[T.global[i]].scope = 0 => F[T.sym[T.global[i]].v] = T.global[i]
            /\ (\A k \in 1..(i - 1) : T.sym[T.global[k]].v # T.sym[T.global[i]].v) =>
                  T.sym[T.global[i]].prev_tok = Nil
  BY DEF Filed
<1> HIDE DEF n
<1>5. ASSUME NEW w \in Names, F[w] # Nil
      PROVE  /\ \E i \in 1..(n + 1) : U.global[i] = F[w]
             /\ U.sym[F[w]].v = w /\ U.sym[F[w]].scope = 0 /\ U.sym[F[w]].prev_tok = Nil
  <2>1. PICK i \in 1..n : T.global[i] = F[w]
    BY <1>5, <1>3
  <2>2. U.sym[F[w]] = T.sym[F[w]] /\ U.global[i] = F[w] /\ i \in 1..(n + 1)
    BY <2>1, <1>1, <1>2
  <2>3. T.sym[F[w]].v = w /\ T.sym[F[w]].scope = 0 /\ T.sym[F[w]].prev_tok = Nil
    BY <1>5, <1>3
  <2> QED
    BY <2>2, <2>3
<1>6. ASSUME NEW i \in 1..(n + 1), U.sym[U.global[i]].v # Anon
      PROVE  LET z == U.sym[U.global[i]] IN
             /\ z.scope = 0 => F[z.v] = U.global[i]
             /\ (\A k \in 1..(i - 1) : U.sym[U.global[k]].v # z.v) => z.prev_tok = Nil
  <2>0. \A k \in 1..(i - 1) : U.sym[U.global[k]] = T.sym[T.global[k]] /\ k \in 1..n
    <3>1. \A k \in 1..(i - 1) : k \in 1..n
      BY <1>1
    <3> QED
      BY <3>1, <1>1, <1>2
  <2>1. CASE i \in 1..n
    <3>1. U.global[i] = T.global[i] /\ U.sym[U.global[i]] = T.sym[T.global[i]]
      BY <2>1, <1>1, <1>2
    <3>2. T.sym[T.global[i]].scope = 0 => F[T.sym[T.global[i]].v] = T.global[i]
      BY <2>1, <3>1, <1>3, <1>6
    <3>3. (\A k \in 1..(i - 1) : T.sym[T.global[k]].v # T.sym[T.global[i]].v) => T.sym[T.global[i]].prev_tok = Nil
      BY <2>1, <3>1, <1>3, <1>6
    <3> QED
      BY <2>0, <3>1, <3>2, <3>3
  <2>2. CASE i = n + 1
    <3> DEFINE e == U.sym[s].v
    <3>1. e \in Names /\ U.sym[s].scope # 0 /\ U.sym[s].prev_tok = F[e] /\ U.global[i] = s
      BY <2>2, <1>1, <1>6
    <3> HIDE DEF e
    <3>2. ASSUME \A k \in 1..(i - 1) : U.sym[U.global[k]].v # e
          PROVE  F[e] = Nil
      <4>1. SUFFICES ASSUME F[e] # Nil PROVE FALSE
        OBVIOUS
      <4>2. PICK k \in 1..n : T.global[k] = F[e]
        BY <4>1, <3>1, <1>3
      <4>3. k \in 1..(i - 1) /\ T.sym[F[e]].v = e
        BY <4>1, <4>2, <3>1, <2>2, <1>1, <1>3
      <4>4. U.sym[U.global[k]].v = e
        BY <4>2, <4>3, <2>0
      <4> QED
        BY <4>3, <4>4, <3>2
    <3> QED
      BY <3>1, <3>2 DEF e
  <2> QED
    BY <2>1, <2>2, <1>1
<1>7. Len(U.global) = n + 1
  BY <1>1
<1>8. \A w \in Names : F[w] # Nil =>
        /\ \E i \in 1..Len(U.global) : U.global[i] = F[w]
        /\ U.sym[F[w]].v = w /\ U.sym[F[w]].scope = 0 /\ U.sym[F[w]].prev_tok = Nil
  BY <1>5, <1>7
<1>9. \A i \in 1..Len(U.global) :
        LET z == U.sym[U.global[i]] IN z.v # Anon =>
            /\ z.scope = 0 => F[z.v] = U.global[i]
            /\ (\A k \in 1..(i - 1) : U.sym[U.global[k]].v # z.v) => z.prev_tok = Nil
  BY <1>6, <1>7
<1> QED
  BY ONLY <1>8, <1>9 DEF Filed

-----------------------------------------------------------------------------
(* The chains *)

\* What is next below a place depends on the symbols below it.
LEMMA NextSame ==
    ASSUME NEW T, NEW U, NEW F, NEW i \in Nat, NEW v, NEW r, NextBelow(T, F, i, v, r),
           \A k \in 1..(i - 1) : U.local[k] = T.local[k] /\ NameAt(U, k) = NameAt(T, k)
    PROVE  NextBelow(U, F, i, v, r)
<1>1. \A k \in 1..(i - 1) : \A m \in (k + 1)..(i - 1) : m \in 1..(i - 1)
  OBVIOUS
<1> QED
  BY <1>1 DEF NextBelow

\* A symbol of another name makes no difference.
LEMMA NextOver ==
    ASSUME NEW T, NEW F, NEW i \in Nat, i >= 1, NEW v, NEW r, NextBelow(T, F, i, v, r), NameAt(T, i) # v
    PROVE  NextBelow(T, F, i + 1, v, r)
<1>1. (i + 1) - 1 = i /\ \A k \in 1..i : k \in 1..(i - 1) \/ k = i
  OBVIOUS
<1>2. ASSUME NEW k \in 1..i, NameAt(T, k) = v, \A m \in (k + 1)..i : NameAt(T, m) # v
      PROVE  r = T.local[k]
  <2>1. k \in 1..(i - 1) /\ \A m \in (k + 1)..(i - 1) : m \in (k + 1)..i
    BY <1>1, <1>2
  <2> QED
    BY <2>1, <1>2 DEF NextBelow
<1>3. (\A k \in 1..i : NameAt(T, k) # v) => r = F[v]
  <2>1. \A k \in 1..(i - 1) : k \in 1..i
    OBVIOUS
  <2> QED
    BY <2>1 DEF NextBelow
<1> QED
  BY <1>1, <1>2, <1>3 DEF NextBelow

\* One of the name comes first.
LEMMA NextHere ==
    ASSUME NEW T, NEW F, NEW i \in Nat, i >= 1, NEW v, NameAt(T, i) = v
    PROVE  NextBelow(T, F, i + 1, v, T.local[i])
<1>1. (i + 1) - 1 = i /\ i \in 1..i
  OBVIOUS
<1>2. ASSUME NEW k \in 1..i, \A m \in (k + 1)..i : NameAt(T, m) # v PROVE k = i
  <2>1. SUFFICES ASSUME k # i PROVE FALSE
    OBVIOUS
  <2>2. i \in (k + 1)..i
    BY <2>1
  <2> QED
    BY <2>2, <1>2
<1> QED
  BY <1>1, <1>2 DEF NextBelow

LEMMA ChainedTop ==
    ASSUME NEW T, Pool(T), NEW F, Chained(T, F), NEW U, NEW s \in Syms, T.free[s] > 0,
           NEW y \in Records, OnTop(T, U, "local", s, y),
           y.v # Anon => y.prev_tok = T.head[y.v] /\ (y.scope = 0 => F[y.v] # Nil),
           U.head = Found(T, y.v, s)
    PROVE  Chained(U, F)
<1> DEFINE n == Len(T.local)
<1>1. T \in TableSet /\ n \in Nat
  BY TableFields DEF Pool
<1>2. /\ Len(U.local) = n + 1 /\ U.local[n + 1] = s /\ U.sym[s] = y
      /\ NameAt(U, n + 1) = y.v /\ PrevAt(U, n + 1) = y.prev_tok
      /\ \A i \in 1..(n + 1) : i \in 1..n \/ i = n + 1
      /\ \A i \in 1..n :
            /\ i \in 1..(n + 1) /\ U.local[i] = T.local[i] /\ U.sym[T.local[i]] = T.sym[T.local[i]]
            /\ NameAt(U, i) = NameAt(T, i) /\ PrevAt(U, i) = PrevAt(T, i)
  <2>1. OneMore(T, U, s, y)
    BY TopKeeps
  <2> QED
    BY <2>1 DEF OneMore
<1>3. y.v # Anon => y.v \in Names
  BY DEF Records
<1>4. \A v \in Names : NextBelow(T, F, n + 1, v, T.head[v])
  BY DEF Chained
<1>5. \A v \in Names : NextBelow(U, F, n + 1, v, T.head[v])
  <2>1. \A k \in 1..((n + 1) - 1) : U.local[k] = T.local[k] /\ NameAt(U, k) = NameAt(T, k)
    BY <1>1, <1>2
  <2> QED
    BY <2>1, <1>1, <1>4, NextSame
<1>6. ASSUME NEW i \in 1..(n + 1), NameAt(U, i) # Anon
      PROVE  NextBelow(U, F, i, NameAt(U, i), PrevAt(U, i))
  <2>1. CASE i \in 1..n
    <3>1. NextBelow(T, F, i, NameAt(U, i), PrevAt(U, i))
      BY <2>1, <1>2, <1>6 DEF Chained
    <3>2. i \in Nat /\ \A k \in 1..(i - 1) : U.local[k] = T.local[k] /\ NameAt(U, k) = NameAt(T, k)
      BY <2>1, <1>1, <1>2
    <3> QED
      BY <3>1, <3>2, NextSame
  <2>2. CASE i = n + 1
    BY <2>2, <1>2, <1>3, <1>5, <1>6
  <2> QED
    BY <2>1, <2>2, <1>2
<1>7. ASSUME NEW v \in Names PROVE NextBelow(U, F, (n + 1) + 1, v, U.head[v])
  <2>1. CASE v = y.v
    <3>1. U.head[v] = s /\ NameAt(U, n + 1) = v
      <4>1. T.head \in [Names -> 0..MaxSyms] /\ v # Anon
        BY <1>1, SymNumbers, TableFields
      <4>2. U.head = [T.head EXCEPT ![v] = s]
        BY <2>1, <4>1 DEF Found
      <4>3. U.head[v] = s
        BY <4>1, <4>2
      <4> QED
        BY <2>1, <4>3, <1>2
    <3>2. NextBelow(U, F, (n + 1) + 1, v, U.local[n + 1])
      <4>1. n + 1 \in Nat /\ n + 1 >= 1
        BY <1>1
      <4> HIDE DEF n
      <4> QED
        BY <3>1, <4>1, NextHere
    <3> QED
      BY <3>1, <3>2, <1>2
  <2>2. CASE v # y.v
    <3>1. U.head[v] = T.head[v]
      BY <2>2, <1>1, <1>3, TableFields DEF Found
    <3>2. NameAt(U, n + 1) # v
      BY <2>2, <1>2
    <3>3. NextBelow(U, F, (n + 1) + 1, v, T.head[v])
      BY <3>2, <1>1, <1>5, NextOver
    <3> QED
      BY <3>1, <3>3
  <2> QED
    BY <2>1, <2>2
<1>8. ASSUME NEW i \in 1..(n + 1), NameAt(U, i) # Anon, U.sym[U.local[i]].scope = 0 PROVE F[NameAt(U, i)] # Nil
  <2>1. CASE i \in 1..n
    <3>1. NameAt(T, i) # Anon /\ T.sym[T.local[i]].scope = 0 /\ NameAt(U, i) = NameAt(T, i)
      BY <2>1, <1>2, <1>8
    <3> QED
      BY <2>1, <3>1 DEF Chained
  <2>2. CASE i = n + 1
    BY <2>2, <1>2, <1>8
  <2> QED
    BY <2>1, <2>2, <1>2
<1> HIDE DEF n
<1> QED
  BY <1>2, <1>6, <1>7, <1>8 DEF Chained

\* What the names find, when the symbols above n are gone, is next below n + 1.
LEMMA NextUnlinked ==
    ASSUME NEW T \in TableSet, NEW F, Chained(T, F), NEW n \in Nat, n <= Len(T.local), NEW v \in Names
    PROVE  NextBelow(T, F, n + 1, v, Unlinked(T, "local", n)[v])
<1> DEFINE q == T.local
           u == Unlinked(T, "local", n)[v]
<1>1. Len(q) \in Nat /\ T["local"] \in Seq(Syms) /\ \A i : Named(T, "local", i, v) <=> NameAt(T, i) = v
  BY TableFields DEF NameAt, Named
\* If none of the symbols from n + 1 to below m has the name, what is next below m is next below n + 1.
<1>2. ASSUME NEW m \in Nat, n + 1 <= m, NEW r, NextBelow(T, F, m, v, r), \A k \in (n + 1)..(m - 1) : NameAt(T, k) # v
      PROVE  NextBelow(T, F, n + 1, v, r)
  <2>1. ASSUME NEW k \in 1..n, NameAt(T, k) = v, \A j \in (k + 1)..n : NameAt(T, j) # v
        PROVE  r = q[k]
    <3>1. k \in 1..(m - 1) /\ \A j \in (k + 1)..(m - 1) : j \in (k + 1)..n \/ j \in (n + 1)..(m - 1)
      BY <1>2
    <3> QED
      BY <3>1, <2>1, <1>2 DEF NextBelow
  <2>2. ASSUME \A k \in 1..n : NameAt(T, k) # v PROVE r = F[v]
    <3>1. \A k \in 1..(m - 1) : k \in 1..n \/ k \in (n + 1)..(m - 1)
      BY <1>2
    <3> QED
      BY <3>1, <2>2, <1>2 DEF NextBelow
  <2>3. (n + 1) - 1 = n
    OBVIOUS
  <2> QED
    BY <2>1, <2>2, <2>3 DEF NextBelow
<1>3. CASE \A i \in (n + 1)..Len(T["local"]) : ~Named(T, "local", i, v)
  <2>1. u = T.head[v]
    BY <1>1, <1>3, UnlinkedIs
  <2>2. NextBelow(T, F, Len(q) + 1, v, T.head[v])
    BY DEF Chained
  <2>3. \A k \in (n + 1)..((Len(q) + 1) - 1) : NameAt(T, k) # v
    BY <1>1, <1>3
  <2>4. Len(q) + 1 \in Nat /\ n + 1 <= Len(q) + 1
    BY <1>1
  <2> QED
    BY <2>1, <2>2, <2>3, <2>4, <1>2
<1>4. ASSUME NEW i, Lowest(T, "local", n, v, i)
      PROVE  NextBelow(T, F, n + 1, v, u)
  <2>1. u = PrevAt(T, i)
    BY <1>1, <1>4, UnlinkedIs DEF PrevAt
  <2>2. i \in 1..Len(q) /\ i \in Nat /\ n + 1 <= i /\ NameAt(T, i) = v /\ v # Anon
    BY <1>1, <1>4, SymNumbers DEF Lowest
  <2>3. NextBelow(T, F, i, v, PrevAt(T, i))
    BY <2>2 DEF Chained
  <2>4. \A k \in (n + 1)..(i - 1) : NameAt(T, k) # v
    BY <1>1, <1>4 DEF Lowest
  <2> QED
    BY <2>1, <2>2, <2>3, <2>4, <1>2
<1>5. (\A i \in (n + 1)..Len(T["local"]) : ~Named(T, "local", i, v)) \/ \E i : Lowest(T, "local", n, v, i)
  BY <1>1, UnlinkedIs
<1> QED
  BY <1>3, <1>4, <1>5

LEMMA ChainedClose ==
    ASSUME NEW T \in TableSet, NEW F, Chained(T, F), NEW n \in Nat, n <= Len(T.local), NEW U,
           Cut(T, U, "local", n), U.head = Unlinked(T, "local", n)
    PROVE  Chained(U, F)
<1>1. /\ Len(U.local) = n
      /\ \A i \in 1..n :
            /\ i \in 1..Len(T.local) /\ U.local[i] = T.local[i] /\ U.sym[T.local[i]] = T.sym[T.local[i]]
            /\ NameAt(U, i) = NameAt(T, i) /\ PrevAt(U, i) = PrevAt(T, i)
  BY CutKeeps
<1>2. ASSUME NEW i \in 1..n, NameAt(U, i) # Anon
      PROVE  NextBelow(U, F, i, NameAt(U, i), PrevAt(U, i))
  <2>1. NextBelow(T, F, i, NameAt(U, i), PrevAt(U, i))
    BY <1>1, <1>2 DEF Chained
  <2>2. i \in Nat /\ \A k \in 1..(i - 1) : U.local[k] = T.local[k] /\ NameAt(U, k) = NameAt(T, k)
    BY <1>1, <1>2
  <2> QED
    BY <2>1, <2>2, NextSame
<1>3. ASSUME NEW v \in Names PROVE NextBelow(U, F, n + 1, v, U.head[v])
  <2>1. NextBelow(T, F, n + 1, v, U.head[v])
    BY NextUnlinked
  <2>2. n + 1 \in Nat /\ \A k \in 1..((n + 1) - 1) : U.local[k] = T.local[k] /\ NameAt(U, k) = NameAt(T, k)
    BY <1>1
  <2> QED
    BY <2>1, <2>2, NextSame
<1>4. ASSUME NEW i \in 1..n, NameAt(U, i) # Anon, U.sym[U.local[i]].scope = 0 PROVE F[NameAt(U, i)] # Nil
  BY <1>1, <1>4 DEF Chained
<1> QED
  BY <1>1, <1>2, <1>3, <1>4 DEF Chained

\* The chain of a name is what its definition says: the functions that the definition chooses from exist.
IsChain(T, v, f, n) ==
    f = [k \in 0..n |-> IF k = 0 THEN T.head[v] ELSE IF f[k - 1] = Nil THEN Nil ELSE T.sym[f[k - 1]].prev_tok]

LEMMA ChainIs ==
    ASSUME NEW T, NEW v
    PROVE  LET c == Chain(T, v)
           IN  /\ c[0] = T.head[v]
               /\ \A n \in 1..MaxSyms : c[n] = IF c[n - 1] = Nil THEN Nil ELSE T.sym[c[n - 1]].prev_tok
<1> DEFINE none == {n \in Nat : ~ \E f : IsChain(T, v, f, n)}
<1>1. none = {}
  <2>1. SUFFICES ASSUME none # {} PROVE FALSE
    OBVIOUS
  <2>2. PICK n \in none : \A m \in none : n <= m
    <3>1. none \subseteq Nat
      OBVIOUS
    <3> QED
      BY <2>1, <3>1, LeastIn
  <2>3. n \in Nat /\ ~ \E f : IsChain(T, v, f, n)
    BY <2>2
  <2>4. CASE n = 0
    <3> DEFINE f == [k \in 0..0 |-> T.head[v]]
    <3>1. IsChain(T, v, f, 0)
      BY DEF IsChain
    <3> QED
      BY <2>3, <2>4, <3>1
  <2>5. CASE n # 0
    <3>1. n - 1 \in Nat /\ n - 1 \notin none
      BY <2>2, <2>3, <2>5
    <3>2. PICK f : IsChain(T, v, f, n - 1)
      BY <3>1
    <3> DEFINE g == [k \in 0..n |-> IF k = 0 THEN T.head[v]
                                    ELSE IF f[k - 1] = Nil THEN Nil ELSE T.sym[f[k - 1]].prev_tok]
    <3>3. ASSUME NEW k \in 0..(n - 1) PROVE g[k] = f[k]
      <4>1. k \in 0..n
        BY <2>3, <3>3
      <4> QED
        BY <4>1, <3>2 DEF IsChain
    <3>4. ASSUME NEW k \in 0..n, k # 0 PROVE g[k - 1] = f[k - 1]
      <4>1. k - 1 \in 0..(n - 1)
        BY <2>3, <3>4
      <4> QED
        BY <4>1, <3>3
    <3>5. IsChain(T, v, g, n)
      BY <3>4 DEF IsChain
    <3> QED
      BY <2>3, <3>5
  <2> QED
    BY <2>4, <2>5
<1>2. \E f : IsChain(T, v, f, MaxSyms)
  BY <1>1, SymNumbers
<1>3. Chain(T, v) = CHOOSE f : IsChain(T, v, f, MaxSyms)
  BY DEF Chain, IsChain
<1>4. IsChain(T, v, Chain(T, v), MaxSyms)
  BY <1>2, <1>3
<1> DEFINE c == Chain(T, v)
<1>5. c = [k \in 0..MaxSyms |-> IF k = 0 THEN T.head[v]
                                ELSE IF c[k - 1] = Nil THEN Nil ELSE T.sym[c[k - 1]].prev_tok]
  BY <1>4 DEF IsChain
<1> HIDE DEF c
<1>6. 0 \in 0..MaxSyms /\ \A n \in 1..MaxSyms : n \in 0..MaxSyms /\ n # 0
  BY SymNumbers
<1> QED
  BY <1>5, <1>6 DEF c

\* No stack is longer than the pool.
LEMMA StackBound ==
    ASSUME NEW T, Pool(T)
    PROVE  /\ Len(T.local) <= MaxSyms
           /\ \A i \in 1..Len(T.global) : Len(T.local) < MaxSyms
<1>1. T.local \in Seq(Syms) /\ T.global \in Seq(Syms) /\ Len(T.local) \in Nat /\ Distinct(T.local)
  BY TableFields DEF Pool
<1>2. /\ IsFiniteSet(Syms) /\ Cardinality(Syms) = MaxSyms
      /\ IsFiniteSet(1..Len(T.local)) /\ Cardinality(1..Len(T.local)) = Len(T.local)
  <2>1. 1 \in Int /\ MaxSyms \in Int /\ Len(T.local) \in Int
    BY <1>1, SymNumbers
  <2>2. IsFiniteSet(1..MaxSyms) /\ Cardinality(1..MaxSyms) = IF 1 > MaxSyms THEN 0 ELSE MaxSyms - 1 + 1
    BY <2>1, FS_Interval
  <2>3. IsFiniteSet(1..Len(T.local)) /\ Cardinality(1..Len(T.local)) = IF 1 > Len(T.local) THEN 0 ELSE Len(T.local) - 1 + 1
    BY <2>1, FS_Interval
  <2> QED
    BY <1>1, <2>2, <2>3, SymNumbers DEF Syms
<1>3. Len(T.local) <= MaxSyms
  <2>1. SUFFICES ASSUME Len(T.local) > MaxSyms PROVE FALSE
    BY <1>1, SymNumbers
  <2>2. T.local \in [1..Len(T.local) -> Syms] /\ Cardinality(Syms) < Cardinality(1..Len(T.local))
    BY <2>1, <1>1, <1>2
  <2>3. \E i, j \in 1..Len(T.local) : i # j /\ T.local[i] = T.local[j]
    BY <2>2, <1>2, FS_PigeonHole
  <2> QED
    BY <2>3, <1>1 DEF Distinct
<1>4. ASSUME NEW g \in 1..Len(T.global) PROVE Len(T.local) < MaxSyms
  <2> DEFINE r == T.global[g]
             q == Append(T.local, r)
  <2>1. r \in Syms /\ \A i \in 1..Len(T.local) : T.local[i] # r
    BY <1>1 DEF Pool
  <2>2. Distinct(q) /\ q \in Seq(Syms) /\ Len(q) = Len(T.local) + 1
    BY <1>1, <2>1, AppendIs
  <2>3. SUFFICES ASSUME Len(T.local) >= MaxSyms PROVE FALSE
    BY <1>1, SymNumbers
  <2> HIDE DEF q
  <2>4. IsFiniteSet(1..Len(q)) /\ Cardinality(1..Len(q)) = Len(q)
    <3>1. 1 \in Int /\ Len(q) \in Int /\ ~(1 > Len(q))
      BY <1>1, <2>2
    <3> QED
      BY <3>1, FS_Interval
  <2>5. Len(q) > MaxSyms
    BY <1>1, <2>2, <2>3, SymNumbers
  <2>6. q \in [1..Len(q) -> Syms] /\ Cardinality(Syms) < Cardinality(1..Len(q))
    BY <2>2, <2>4, <2>5, <1>2
  <2>7. \E i, j \in 1..Len(q) : i # j /\ q[i] = q[j]
    BY <2>4, <2>6, <1>2, FS_PigeonHole
  <2> QED
    BY <2>2, <2>7 DEF Distinct
<1> QED
  BY <1>3, <1>4

\* The n-th symbol of a chain is on the local stack, at least n below the top, or is of the file scope.
OnChain(T, F, v, n, r) ==
    \/ r = Nil
    \/ r = F[v] /\ n <= Len(T.local)
    \/ \E i \in 1..Len(T.local) : i + n <= Len(T.local) /\ T.local[i] = r /\ NameAt(T, i) = v

LEMMA ChainDescends ==
    ASSUME NEW T, NEW ss, NEW base, Tidy(T, ss, base), NEW v \in Names
    PROVE  \A n \in 0..MaxSyms : OnChain(T, ss[1], v, n, Chain(T, v)[n])
<1> DEFINE c == Chain(T, v)
           F == ss[1]
           off == {n \in 0..MaxSyms : ~OnChain(T, F, v, n, c[n])}
<1>1. T \in TableSet /\ Len(T.local) \in Nat
  BY TableFields DEF Tidy, Pool
<1>2. c[0] = T.head[v] /\ \A n \in 1..MaxSyms : c[n] = IF c[n - 1] = Nil THEN Nil ELSE T.sym[c[n - 1]].prev_tok
  BY ChainIs
<1>3. Below(T, F, Len(T.local) + 1, v, T.head[v])
  BY <1>1, HeadBelow DEF Tidy
<1> HIDE DEF c, F
<1>4. off = {}
  <2>1. SUFFICES ASSUME off # {} PROVE FALSE
    OBVIOUS
  <2>2. PICK n \in off : \A m \in off : n <= m
    <3>1. off \subseteq Nat
      BY SymNumbers
    <3> QED
      BY <2>1, <3>1, LeastIn
  <2>3. n \in 0..MaxSyms /\ ~OnChain(T, F, v, n, c[n])
    BY <2>2
  <2>4. n # 0
    <3>1. SUFFICES ASSUME n = 0 PROVE FALSE
      OBVIOUS
    <3>2. CASE c[0] = F[v]
      BY <2>3, <3>1, <3>2, <1>1 DEF OnChain
    <3>3. CASE c[0] # F[v]
      <4>1. PICK i \in 1..((Len(T.local) + 1) - 1) : T.local[i] = c[0] /\ NameAt(T, i) = v
        BY <3>3, <1>2, <1>3 DEF Below
      <4>2. i \in 1..Len(T.local) /\ i + 0 <= Len(T.local)
        BY <4>1, <1>1
      <4> QED
        BY <2>3, <3>1, <4>1, <4>2 DEF OnChain
    <3> QED
      BY <3>2, <3>3
  <2>5. n - 1 \in 0..MaxSyms /\ n \in 1..MaxSyms /\ n \in Nat
    BY <2>3, <2>4, SymNumbers
  <2>6. OnChain(T, F, v, n - 1, c[n - 1])
    <3>1. n - 1 \notin off
      BY <2>2, <2>5
    <3> QED
      BY <2>5, <3>1
  <2>7. c[n - 1] # Nil /\ c[n] = T.sym[c[n - 1]].prev_tok /\ c[n] # Nil
    BY <2>3, <2>5, <1>2 DEF OnChain
  <2>8. CASE c[n - 1] = F[v]
    <3>1. T.sym[F[v]].prev_tok = Nil
      BY <2>7, <2>8 DEF Tidy, Filed, F
    <3> QED
      BY <2>7, <2>8, <3>1
  <2>9. CASE c[n - 1] # F[v]
    <3>1. PICK i \in 1..Len(T.local) :
              i + (n - 1) <= Len(T.local) /\ T.local[i] = c[n - 1] /\ NameAt(T, i) = v
      BY <2>6, <2>7, <2>9 DEF OnChain
    <3>2. c[n] = PrevAt(T, i) /\ v # Anon
      BY <2>7, <3>1, SymNumbers DEF PrevAt
    <3>3. Below(T, F, i, v, c[n])
      BY <3>1, <3>2 DEF Tidy, Down, F
    <3>4. CASE c[n] = F[v]
      <4>1. n <= Len(T.local)
        BY <3>1, <2>5, <1>1
      <4> QED
        BY <2>3, <3>4, <4>1 DEF OnChain
    <3>5. CASE c[n] # F[v]
      <4>1. PICK k \in 1..(i - 1) : T.local[k] = c[n] /\ NameAt(T, k) = v
        BY <3>3, <3>5 DEF Below
      <4>2. k \in 1..Len(T.local) /\ k + n <= Len(T.local)
        BY <3>1, <4>1, <2>5, <1>1
      <4> QED
        BY <2>3, <4>1, <4>2 DEF OnChain
    <3> QED
      BY <3>4, <3>5
  <2> QED
    BY <2>8, <2>9
<1> QED
  BY <1>4 DEF c, F

\* A chain ends within the pool.
LEMMA ChainEnds ==
    ASSUME NEW T, NEW ss, NEW base, Tidy(T, ss, base), NEW v \in Names
    PROVE  Chain(T, v)[MaxSyms] = Nil
<1> DEFINE r == Chain(T, v)[MaxSyms]
<1>1. T \in TableSet /\ Pool(T) /\ Len(T.local) \in Nat /\ MaxSyms \in 0..MaxSyms
  BY SymNumbers, TableFields DEF Tidy, Pool
<1>2. OnChain(T, ss[1], v, MaxSyms, r)
  BY <1>1, ChainDescends
<1> HIDE DEF r
<1>3. SUFFICES ASSUME r # Nil PROVE FALSE
  BY DEF r
<1>4. CASE r = ss[1][v] /\ MaxSyms <= Len(T.local)
  <2>1. PICK i \in 1..Len(T.global) : T.global[i] = r
    BY <1>3, <1>4 DEF Tidy, Filed
  <2>2. Len(T.local) < MaxSyms
    BY <1>1, <2>1, StackBound
  <2> QED
    BY <2>2, <1>1, <1>4, SymNumbers
<1>5. ASSUME NEW i \in 1..Len(T.local), i + MaxSyms <= Len(T.local) PROVE FALSE
  <2>1. Len(T.local) <= MaxSyms
    BY <1>1, StackBound
  <2> QED
    BY <2>1, <1>1, <1>5, SymNumbers
<1> QED
  BY <1>2, <1>3, <1>4, <1>5 DEF OnChain

-----------------------------------------------------------------------------
(* External names *)

\* Where a chain leaves the local symbols: before that, it runs through symbols of blocks and parameters.
LEMMA FirstGlobalIs ==
    ASSUME NEW T, NEW ss, NEW base, Tidy(T, ss, base), NEW v \in Names
    PROVE  LET c == Chain(T, v)
               n == FirstGlobal(T, v)
           IN  /\ n \in 0..MaxSyms
               /\ c[n] = Nil \/ T.sym[c[n]].scope = 0
               /\ \A m \in 0..(n - 1) : c[m] # Nil /\ T.sym[c[m]].scope # 0
<1> DEFINE c == Chain(T, v)
           outside == {n \in 0..MaxSyms : c[n] = Nil \/ T.sym[c[n]].scope = 0}
           n == FirstGlobal(T, v)
<1>1. outside # {} /\ outside \subseteq Nat
  BY ChainEnds, SymNumbers
<1>2. n = CHOOSE k \in outside : \A m \in outside : k <= m
  BY DEF FirstGlobal
<1>3. n \in outside /\ \A m \in outside : n <= m
  <2> HIDE DEF outside, n
  <2>1. \E k \in outside : \A m \in outside : k <= m
    BY <1>1, LeastIn
  <2> QED
    BY <1>2, <2>1
<1> HIDE DEF n
<1>4. \A m \in 0..(n - 1) : m \in 0..MaxSyms /\ ~(n <= m)
  BY <1>3, SymNumbers
<1> HIDE DEF c
<1>5. \A m \in 0..(n - 1) : c[m] # Nil /\ T.sym[c[m]].scope # 0
  BY <1>3, <1>4
<1>6. n \in 0..MaxSyms /\ (c[n] = Nil \/ T.sym[c[n]].scope = 0)
  BY <1>3
<1> QED
  BY <1>5, <1>6 DEF n, c

\* If it does not find a global symbol, there is none.
LEMMA NoneGlobal ==
    ASSUME NEW T, NEW ss, NEW base, Tidy(T, ss, base), NEW v \in Names
    PROVE  LET r == Chain(T, v)[FirstGlobal(T, v)]
           IN  /\ r = Nil => ss[1][v] = Nil
               /\ r # Nil => r \in Syms /\ T.sym[r].v = v /\ T.sym[r].scope = 0
               /\ r # Nil /\ Chained(T, ss[1]) => ss[1][v] # Nil
<1> DEFINE c == Chain(T, v)
           n == FirstGlobal(T, v)
           F == ss[1]
           r == c[n]
<1>1. T \in TableSet /\ Len(T.local) \in Nat
  BY TableFields DEF Tidy, Pool
<1>2. c[0] = T.head[v] /\ \A k \in 1..MaxSyms : c[k] = IF c[k - 1] = Nil THEN Nil ELSE T.sym[c[k - 1]].prev_tok
  BY ChainIs
<1>3. /\ n \in 0..MaxSyms /\ (r = Nil \/ T.sym[r].scope = 0)
      /\ \A m \in 0..(n - 1) : c[m] # Nil /\ T.sym[c[m]].scope # 0
  BY FirstGlobalIs
<1>4. \A m \in 0..MaxSyms : OnChain(T, F, v, m, c[m])
  BY ChainDescends
<1>5. Filed(T, F) /\ Down(T, F) /\ Below(T, F, Len(T.local) + 1, v, T.head[v])
  BY <1>1, HeadBelow DEF Tidy
<1> HIDE DEF c, n, F
<1>6. ASSUME r = Nil, F[v] # Nil PROVE FALSE
  <2>1. n = 0 \/ n - 1 \in 0..(n - 1)
    BY <1>3
  <2>2. CASE n = 0
    <3>1. T.head[v] # F[v]
      BY <1>2, <1>6, <2>2
    <3>2. PICK i \in 1..((Len(T.local) + 1) - 1) : T.local[i] = T.head[v]
      BY <1>5, <3>1 DEF Below
    <3>3. T.local[i] \in Syms
      BY <1>1, <3>2, TableFields
    <3> QED
      BY <1>2, <1>6, <2>2, <3>2, <3>3, SymNumbers
  <2>3. CASE n # 0
    <3>1. n \in 1..MaxSyms /\ n - 1 \in 0..MaxSyms /\ n - 1 \in 0..(n - 1)
      BY <1>3, <2>3, SymNumbers
    <3>2. c[n - 1] # Nil /\ T.sym[c[n - 1]].scope # 0 /\ T.sym[c[n - 1]].prev_tok = Nil
      BY <1>2, <1>3, <1>6, <3>1
    <3>3. c[n - 1] # F[v]
      BY <1>5, <1>6, <3>2 DEF Filed
    <3>4. PICK i \in 1..Len(T.local) : T.local[i] = c[n - 1] /\ NameAt(T, i) = v
      BY <1>4, <3>1, <3>2, <3>3 DEF OnChain
    <3>5. Below(T, F, i, v, Nil)
      BY <1>5, <3>2, <3>4, SymNumbers DEF Down, PrevAt
    <3>6. PICK k \in 1..(i - 1) : T.local[k] = Nil
      BY <1>6, <3>5 DEF Below
    <3>7. T.local[k] \in Syms
      BY <1>1, <3>6, TableFields
    <3> QED
      BY <3>6, <3>7, SymNumbers
  <2> QED
    BY <2>2, <2>3
<1>7. ASSUME r # Nil
      PROVE  r \in Syms /\ T.sym[r].v = v /\ T.sym[r].scope = 0 /\ (Chained(T, F) => F[v] # Nil)
  <2>1. OnChain(T, F, v, n, r) /\ T.sym[r].scope = 0
    BY <1>3, <1>4, <1>7
  <2>2. CASE r = F[v]
    <3>1. PICK i \in 1..Len(T.global) : T.global[i] = r
      BY <1>5, <1>7, <2>2 DEF Filed
    <3> QED
      BY <1>1, <1>5, <1>7, <2>1, <2>2, <3>1, TableFields DEF Filed
  <2>3. ASSUME NEW i \in 1..Len(T.local), T.local[i] = r, NameAt(T, i) = v
        PROVE  r \in Syms /\ T.sym[r].v = v /\ (Chained(T, F) => F[v] # Nil)
    <3>1. r \in Syms /\ T.sym[r].v = v
      BY <1>1, <2>3, TableFields DEF NameAt
    <3>2. Chained(T, F) => F[v] # Nil
      BY <2>1, <2>3, SymNumbers DEF Chained
    <3> QED
      BY <3>1, <3>2
  <2> QED
    BY <1>7, <2>1, <2>2, <2>3 DEF OnChain
<1> QED
  BY <1>6, <1>7 DEF c, n, F

\* A chain that is at its end has passed all the local symbols of its name.
LEMMA NoneBelow ==
    ASSUME NEW T \in TableSet, NEW F, NEW i \in 1..(Len(T.local) + 1), NEW v, NextBelow(T, F, i, v, Nil)
    PROVE  \A k \in 1..(i - 1) : NameAt(T, k) # v
<1> DEFINE of == {k \in 1..(i - 1) : NameAt(T, k) = v}
<1>1. Len(T.local) \in Nat /\ \A k \in 1..(i - 1) : T.local[k] \in Syms
  BY TableFields
<1>2. SUFFICES ASSUME of # {} PROVE FALSE
  OBVIOUS
<1>3. of \subseteq 0..(i - 1) /\ i - 1 \in Nat
  BY <1>1
<1>4. PICK k \in of : \A m \in of : m <= k
  BY <1>2, <1>3, GreatestIn
<1>5. k \in 1..(i - 1) /\ NameAt(T, k) = v
  BY <1>4
<1>6. \A m \in (k + 1)..(i - 1) : NameAt(T, m) # v
  <2>1. SUFFICES ASSUME NEW m \in (k + 1)..(i - 1), NameAt(T, m) = v PROVE FALSE
    OBVIOUS
  <2>2. m \in 1..(i - 1) /\ ~(m <= k)
    BY <1>5, <2>1
  <2> QED
    BY <1>4, <2>1, <2>2
<1>7. Nil = T.local[k]
  BY <1>5, <1>6 DEF NextBelow
<1> QED
  BY <1>1, <1>5, <1>7, SymNumbers

\* U is T but for the symbol that r hides.
Relinked(T, U, r, x) ==
    /\ U \in TableSet /\ U.head = T.head /\ U.local = T.local /\ U.global = T.global /\ U.free = T.free
    /\ U.sym = [T.sym EXCEPT ![r] = [v |-> T.sym[r].v, scope |-> T.sym[r].scope, prev_tok |-> x]]

LEMMA PrevSet ==
    ASSUME NEW T \in TableSet, NEW r \in Syms, NEW x \in 0..MaxSyms, NEW U, U = [T EXCEPT !.sym[r].prev_tok = x]
    PROVE  Relinked(T, U, r, x)
<1> DEFINE y == [v |-> T.sym[r].v, scope |-> T.sym[r].scope, prev_tok |-> x]
<1>1. T.sym[r] \in Records
  BY TableFields
<1>2. y \in Records /\ [T.sym[r] EXCEPT !.prev_tok = x] = y
  BY <1>1 DEF Records
<1> HIDE DEF y
<1>3. U = [sym |-> [T.sym EXCEPT ![r] = y], head |-> T.head, local |-> T.local,
           global |-> T.global, free |-> T.free]
  BY <1>2 DEF TableSet
<1>4. [T.sym EXCEPT ![r] = y] \in [Syms -> Records]
  BY <1>2, TableFields
<1>5. U \in TableSet
  BY <1>3, <1>4, TableFields DEF TableSet
<1> QED
  BY <1>3, <1>5 DEF Relinked, y

\* U is T with the global symbol s of name v, at the end of the chain of v.
LastOf(T, U, v, s) ==
    /\ U \in TableSet /\ Pool(U) /\ Unused(U) = Unused(T) \ {s}
    /\ U.global = Append(T.global, s) /\ U.local = T.local
    /\ \A i \in 1..Len(T.global) : U.sym[T.global[i]] = T.sym[T.global[i]]
    /\ U.sym[s].v = v /\ U.sym[s].scope = 0 /\ U.sym[s].prev_tok = Nil
    /\ \A w \in Names : U.head[w] = IF w = v /\ T.head[w] = Nil THEN s ELSE T.head[w]
    /\ \A i \in 1..Len(T.local) :
          /\ NameAt(U, i) = NameAt(T, i) /\ U.sym[T.local[i]].scope = T.sym[T.local[i]].scope
          /\ PrevAt(U, i) = IF NameAt(T, i) = v /\ PrevAt(T, i) = Nil THEN s ELSE PrevAt(T, i)

LEMMA GlobalPushIs ==
    ASSUME NEW T, NEW ss, NEW base, Tidy(T, ss, base), Chained(T, ss[1]), Unused(T) # {}, NEW v \in Names,
           Chain(T, v)[FirstGlobal(T, v)] = Nil
    PROVE  LastOf(T, global_identifier_push(T, v), v, Fresh(T))
<1> DEFINE c == Chain(T, v)
           n == FirstGlobal(T, v)
           F == ss[1]
           s == Fresh(T)
           y == [v |-> v, scope |-> 0, prev_tok |-> Nil]
           G == sym_push2(T, "global", v, 0)
           P == [G EXCEPT !.sym[s].prev_tok = c[n]]
           U == global_identifier_push(T, v)
<1>1. T \in TableSet /\ Pool(T) /\ Len(T.local) \in Nat
  BY TableFields DEF Tidy, Pool
<1>2. s \in Syms /\ T.free[s] > 0 /\ v # Anon
  BY FreshIs, SymNumbers
<1>3. c[0] = T.head[v] /\ \A k \in 1..MaxSyms : c[k] = IF c[k - 1] = Nil THEN Nil ELSE T.sym[c[k - 1]].prev_tok
  BY ChainIs
<1>4. n \in 0..MaxSyms /\ c[n] = Nil /\ \A m \in 0..(n - 1) : c[m] # Nil /\ T.sym[c[m]].scope # 0
  BY FirstGlobalIs
<1>5. \A m \in 0..MaxSyms : OnChain(T, F, v, m, c[m])
  BY ChainDescends
<1>6. F[v] = Nil
  BY NoneGlobal
<1>7. U = IF n = 0 THEN [P EXCEPT !.head[v] = s] ELSE [P EXCEPT !.sym[c[n - 1]].prev_tok = s]
  BY DEF global_identifier_push
<1>8. OnTop(T, G, "global", s, y) /\ G.head = T.head /\ Pool(G) /\ Unused(G) = Unused(T) \ {s}
  <2>1. 0 \in 0..MaxDepth + 1 /\ "global" \in {"local", "global"} /\ v \in Names \cup {Anon}
    BY SymNumbers
  <2> QED
    BY <1>1, <2>1, Push2Is
<1> HIDE DEF c, n, F, s, G, U
<1>9. /\ G \in TableSet /\ G.sym = [T.sym EXCEPT ![s] = y] /\ G.local = T.local /\ G.global = Append(T.global, s)
  BY <1>8 DEF OnTop
<1>10. OneMoreGlobal(T, G, s)
  BY <1>1, <1>2, <1>9, GlobalTop
<1>11. G.sym[s] = y /\ \A r \in Syms : r # s => G.sym[r] = T.sym[r]
  BY <1>1, <1>2, <1>9, TableFields
<1>12. /\ P \in TableSet /\ P.head = G.head /\ P.local = G.local /\ P.global = G.global /\ P.free = G.free
       /\ P.sym = [G.sym EXCEPT ![s] = [v |-> G.sym[s].v, scope |-> G.sym[s].scope, prev_tok |-> Nil]]
  <2>1. P = [G EXCEPT !.sym[s].prev_tok = Nil]
    BY <1>4
  <2> HIDE DEF P
  <2>2. Relinked(G, P, s, Nil)
    BY <2>1, <1>2, <1>9, PrevSet, SymNumbers
  <2> QED
    BY <2>2 DEF Relinked
<1> HIDE DEF P
<1>13. P.sym[s] = y /\ \A r \in Syms : r # s => P.sym[r] = T.sym[r]
  BY <1>2, <1>9, <1>11, <1>12, TableFields
<1>14. Pool(P) /\ Unused(P) = Unused(T) \ {s}
  BY <1>8, <1>12 DEF Pool, Stacked, Unused
<1>15. /\ \A i \in 1..Len(T.local) : T.local[i] \in Syms /\ T.local[i] # s
       /\ \A i \in 1..Len(T.global) : T.global[i] \in Syms /\ T.global[i] # s
  BY <1>10 DEF OneMoreGlobal
<1>16. CASE n = 0
  <2>1. U = [P EXCEPT !.head[v] = s]
    BY <1>7, <1>16
  <2>2. T.head[v] = Nil
    BY <1>3, <1>4, <1>16
  <2>3. [P.head EXCEPT ![v] = s] \in [Names -> 0..MaxSyms] /\ T.head \in [Names -> 0..MaxSyms]
    BY <1>1, <1>2, <1>12, TableFields, SymNumbers
  <2>4. U = [sym |-> P.sym, head |-> [P.head EXCEPT ![v] = s], local |-> P.local, global |-> P.global, free |-> P.free]
    BY <2>1, <2>3, <1>12 DEF TableSet
  <2>5. U \in TableSet
    BY <2>3, <2>4, <1>12, TableFields DEF TableSet
  <2>6. Pool(U) /\ Unused(U) = Unused(T) \ {s}
    BY <2>4, <2>5, <1>14 DEF Pool, Stacked, Unused
  <2>7. \A i \in 1..Len(T.local) : NameAt(T, i) # v
    <3>1. NextBelow(T, F, Len(T.local) + 1, v, Nil)
      BY <2>2 DEF Chained, F
    <3>2. Len(T.local) + 1 \in 1..(Len(T.local) + 1) /\ (Len(T.local) + 1) - 1 = Len(T.local)
      BY <1>1
    <3> QED
      BY <3>1, <3>2, <1>1, NoneBelow
  <2>8. \A i \in 1..Len(T.local) : U.sym[T.local[i]] = T.sym[T.local[i]] /\ U.local[i] = T.local[i]
    BY <2>4, <1>9, <1>12, <1>13, <1>15
  <2>9. \A i \in 1..Len(T.global) : U.sym[T.global[i]] = T.sym[T.global[i]]
    BY <2>4, <1>13, <1>15
  <2>10. \A w \in Names : U.head[w] = IF w = v /\ T.head[w] = Nil THEN s ELSE T.head[w]
    BY <2>2, <2>3, <2>4, <1>8, <1>12
  <2>11. U.global = Append(T.global, s) /\ U.local = T.local /\ U.sym[s] = y
    BY <2>4, <1>9, <1>12, <1>13
  <2>12. LastOf(T, U, v, s)
    BY <2>5, <2>6, <2>7, <2>8, <2>9, <2>10, <2>11 DEF LastOf, NameAt, PrevAt
  <2> QED
    BY <2>12 DEF U, s
<1>17. CASE n # 0
  <2> DEFINE r == c[n - 1]
  <2>1. n \in 1..MaxSyms /\ n - 1 \in 0..MaxSyms /\ n - 1 \in 0..(n - 1) /\ 0 \in 0..(n - 1)
    BY <1>4, <1>17, SymNumbers
  <2>2. r # Nil /\ T.sym[r].scope # 0 /\ T.sym[r].prev_tok = Nil
    BY <2>1, <1>3, <1>4
  <2>3. T.head[v] # Nil
    BY <2>1, <1>3, <1>4
  <2>4. PICK at \in 1..Len(T.local) : T.local[at] = r /\ NameAt(T, at) = v
    BY <2>1, <2>2, <1>5, <1>6 DEF OnChain
  <2>5. U = [P EXCEPT !.sym[r].prev_tok = s]
    BY <1>7, <1>17
  <2> HIDE DEF r
  <2>6. r \in Syms /\ r # s /\ P.sym[r] = T.sym[r] /\ T.sym[r].v = v
    BY <2>4, <1>13, <1>15 DEF NameAt
  <2> DEFINE z == [v |-> P.sym[r].v, scope |-> P.sym[r].scope, prev_tok |-> s]
  <2>7. /\ U \in TableSet /\ U.head = P.head /\ U.local = P.local /\ U.global = P.global /\ U.free = P.free
        /\ U.sym = [P.sym EXCEPT ![r] = z]
    <3>1. Relinked(P, U, r, s)
      BY <2>5, <2>6, <1>2, <1>12, PrevSet, SymNumbers
    <3> QED
      BY <3>1 DEF Relinked
  <2>8. U.sym[r] = z /\ \A x \in Syms : x # r => U.sym[x] = P.sym[x]
    <3>1. P.sym \in [Syms -> Records]
      BY <1>12, TableFields
    <3> HIDE DEF z
    <3> QED
      BY <3>1, <2>6, <2>7
  <2>9. Pool(U) /\ Unused(U) = Unused(T) \ {s}
    BY <2>7, <1>14 DEF Pool, Stacked, Unused
  <2>10. \A i \in 1..Len(T.global) : U.sym[T.global[i]] = T.sym[T.global[i]]
    <3>1. \A i \in 1..Len(T.global) : T.global[i] # r
      BY <2>4, <1>1 DEF Pool
    <3> QED
      BY <3>1, <2>8, <1>13, <1>15
  <2>11. ASSUME NEW i \in 1..Len(T.local)
         PROVE  /\ NameAt(U, i) = NameAt(T, i) /\ U.sym[T.local[i]].scope = T.sym[T.local[i]].scope
                /\ PrevAt(U, i) = IF NameAt(T, i) = v /\ PrevAt(T, i) = Nil THEN s ELSE PrevAt(T, i)
    <3>1. U.local[i] = T.local[i]
      BY <2>7, <1>9, <1>12
    <3>2. CASE i = at
      <4>1. U.sym[T.local[i]] = z /\ T.sym[T.local[i]] = P.sym[r]
        BY <3>2, <2>4, <2>6, <2>8
      <4> QED
        BY <3>1, <3>2, <4>1, <2>2, <2>4, <2>6 DEF NameAt, PrevAt
    <3>3. CASE i # at
      <4>1. T.local[i] # r /\ T.local[i] \in Syms
        BY <3>3, <2>4, <1>1, <1>15 DEF Pool, Distinct
      <4>2. U.sym[T.local[i]] = T.sym[T.local[i]]
        BY <4>1, <2>8, <1>13, <1>15
      <4>3. ~(NameAt(T, i) = v /\ PrevAt(T, i) = Nil)
        <5>1. SUFFICES ASSUME NameAt(T, i) = v, PrevAt(T, i) = Nil PROVE FALSE
          OBVIOUS
        <5>2. PrevAt(T, at) = Nil
          BY <2>2, <2>4 DEF PrevAt
        <5>3. NextBelow(T, F, i, v, Nil) /\ NextBelow(T, F, at, v, Nil)
          BY <5>1, <5>2, <2>4, <1>2 DEF Chained, F
        <5>4. i \in 1..(Len(T.local) + 1) /\ at \in 1..(Len(T.local) + 1)
          BY <1>1
        <5>5. (\A k \in 1..(i - 1) : NameAt(T, k) # v) /\ (\A k \in 1..(at - 1) : NameAt(T, k) # v)
          BY <5>3, <5>4, <1>1, NoneBelow
        <5>6. i \in 1..(at - 1) \/ at \in 1..(i - 1)
          BY <3>3, <1>1
        <5> QED
          BY <5>1, <5>5, <5>6, <2>4
      <4> QED
        BY <3>1, <4>2, <4>3 DEF NameAt, PrevAt
    <3> QED
      BY <3>2, <3>3
  <2>12. U.global = Append(T.global, s) /\ U.local = T.local /\ U.sym[s] = y
    BY <2>6, <2>7, <2>8, <1>2, <1>9, <1>12, <1>13
  <2>13. \A w \in Names : U.head[w] = IF w = v /\ T.head[w] = Nil THEN s ELSE T.head[w]
    BY <2>3, <2>7, <1>8, <1>12
  <2>14. LastOf(T, U, v, s)
    BY <2>7, <2>9, <2>10, <2>11, <2>12, <2>13 DEF LastOf
  <2> QED
    BY <2>14 DEF U, s
<1> QED
  BY <1>16, <1>17

\* A global symbol at the end of its chain is a declaration in the file scope.
LEMMA LastTidy ==
    ASSUME NEW T, NEW ss, NEW base, Tidy(T, ss, base), NEW v \in Names, ss[1][v] = Nil,
           NEW s \in Syms, T.free[s] > 0, NEW U, LastOf(T, U, v, s)
    PROVE  Tidy(U, Spec0!Bind(ss, 1, v, s), base)
<1> DEFINE F == ss[1]
           bound == Spec0!Bind(ss, 1, v, s)
           n == Len(T.local)
<1>1. T \in TableSet /\ Pool(T) /\ U \in TableSet /\ Pool(U) /\ Ordered(T, ss, base) /\ n \in Nat
  BY TableFields DEF Tidy, Pool, LastOf
<1>2. /\ ss \in Seq(OneScope) /\ Len(ss) \in Nat /\ Len(ss) >= 1 /\ Len(base) = Len(ss) /\ F \in OneScope
  BY <1>1, OrderedIs
<1>3. /\ bound \in Seq(OneScope) /\ Len(bound) = Len(ss)
      /\ \A j \in 2..Len(ss) : bound[j] = ss[j]
      /\ bound[1][v] = s
      /\ \A w \in Names : w # v => bound[1][w] = F[w]
      /\ Spec0!Lookup(bound, v) = IF Spec0!Lookup(ss, v) = Nil THEN s ELSE Spec0!Lookup(ss, v)
      /\ \A w \in Names : w # v => Spec0!Lookup(bound, w) = Spec0!Lookup(ss, w)
  BY <1>2, LookupBindFile
<1>4. /\ U.global = Append(T.global, s) /\ U.local = T.local
      /\ \A i \in 1..Len(T.global) : U.sym[T.global[i]] = T.sym[T.global[i]]
      /\ U.sym[s].v = v /\ U.sym[s].scope = 0 /\ U.sym[s].prev_tok = Nil
      /\ \A w \in Names : U.head[w] = IF w = v /\ T.head[w] = Nil THEN s ELSE T.head[w]
      /\ \A i \in 1..n :
            /\ NameAt(U, i) = NameAt(T, i)
            /\ PrevAt(U, i) = IF NameAt(T, i) = v /\ PrevAt(T, i) = Nil THEN s ELSE PrevAt(T, i)
  BY DEF LastOf
<1>5. \A i \in 1..n : NameAt(T, i) # Anon => NameAt(T, i) \in Names
  <2>1. \A i \in 1..n : T.sym[T.local[i]] \in Records
    BY <1>1, TableFields
  <2> QED
    BY <2>1 DEF NameAt, Records
<1>6. Filed(T, F) /\ Scoped(T, ss, base) /\ Headed(T, ss) /\ Hides(T, ss, base) /\ Down(T, F) /\ F[v] = Nil
  BY DEF Tidy
<1>7. \A j \in 2..Len(ss), w \in Names :
          Spec0!Lookup(SubSeq(bound, 1, j - 1), w) =
              IF w = v /\ Spec0!Lookup(SubSeq(ss, 1, j - 1), w) = Nil THEN s ELSE Spec0!Lookup(SubSeq(ss, 1, j - 1), w)
  <2>1. SUFFICES ASSUME NEW j \in 2..Len(ss), NEW w \in Names
                 PROVE  Spec0!Lookup(SubSeq(bound, 1, j - 1), w) =
                            IF w = v /\ Spec0!Lookup(SubSeq(ss, 1, j - 1), w) = Nil THEN s
                            ELSE Spec0!Lookup(SubSeq(ss, 1, j - 1), w)
    OBVIOUS
  <2> DEFINE outer == SubSeq(ss, 1, j - 1)
             inner == Spec0!Bind(outer, 1, v, s)
  <2>2. /\ outer \in Seq(OneScope) /\ Len(outer) = j - 1 /\ j - 1 \in Nat /\ j - 1 >= 1 /\ j - 1 <= Len(ss)
        /\ \A i \in 1..(j - 1) : outer[i] = ss[i]
    BY <1>2
  <2>3. outer[1][v] = Nil
    BY <2>2, <1>6
  <2> HIDE DEF outer, bound, F
  <2>4. /\ inner \in Seq(OneScope) /\ Len(inner) = j - 1
        /\ \A i \in 2..(j - 1) : inner[i] = outer[i]
        /\ inner[1] = [outer[1] EXCEPT ![v] = s]
        /\ Spec0!Lookup(inner, v) = IF Spec0!Lookup(outer, v) = Nil THEN s ELSE Spec0!Lookup(outer, v)
        /\ \A x \in Names : x # v => Spec0!Lookup(inner, x) = Spec0!Lookup(outer, x)
    <3>1. inner[1] = [outer[1] EXCEPT ![v] = s]
      BY <2>2 DEF Spec0!Bind
    <3>2. outer \in Seq(OneScope) /\ Len(outer) >= 1 /\ outer[1][v] = Nil /\ Len(outer) = j - 1
      BY <2>2, <2>3
    <3>3. /\ inner \in Seq(OneScope) /\ Len(inner) = Len(outer)
          /\ \A i \in 2..Len(outer) : inner[i] = outer[i]
          /\ Spec0!Lookup(inner, v) = IF Spec0!Lookup(outer, v) = Nil THEN s ELSE Spec0!Lookup(outer, v)
          /\ \A x \in Names : x # v => Spec0!Lookup(inner, x) = Spec0!Lookup(outer, x)
      BY ONLY <3>2, LookupBindFile, v \in Names, s \in Syms
    <3> QED
      BY <3>1, <3>2, <3>3
  <2>5. bound[1] = [ss[1] EXCEPT ![v] = s]
    BY <1>2 DEF bound, Spec0!Bind
  <2>6. \A i \in 1..(j - 1) : inner[i] = bound[i]
    <3>1. \A i \in 1..(j - 1) : i = 1 \/ i \in 2..(j - 1)
      BY <2>2
    <3>2. \A i \in 2..(j - 1) : i \in 2..Len(ss)
      BY <2>2, <1>2
    <3> HIDE DEF inner
    <3> QED
      BY <3>1, <3>2, <2>2, <2>4, <2>5, <1>3
  <2>7. SubSeq(bound, 1, j - 1) = SubSeq(inner, 1, j - 1) /\ SubSeq(inner, 1, j - 1) = inner
    <3> HIDE DEF inner
    <3> QED
      BY <2>2, <2>4, <2>6, <1>3, SubSeqSame
  <2> QED
    BY <2>4, <2>7 DEF outer
<1> HIDE DEF F, bound, n
<1>8. Ordered(U, bound, base)
  BY <1>1, <1>3, <1>4 DEF Ordered
<1>9. Filed(U, bound[1])
  <2> DEFINE G == bound[1]
  <2>1. G[v] = s /\ \A w \in Names : w # v => G[w] = F[w]
    BY <1>3
  <2>2. /\ U.global = Append(T.global, s) /\ \A i \in 1..Len(T.global) : U.sym[T.global[i]] = T.sym[T.global[i]]
        /\ U.sym[s].v = v /\ U.sym[s].scope = 0 /\ U.sym[s].prev_tok = Nil
    BY <1>4
  <2>3. F \in OneScope /\ Filed(T, F) /\ F[v] = Nil /\ Pool(T)
    BY <1>1, <1>2, <1>6
  <2> HIDE DEF G
  <2>4. Filed(U, G)
    BY <2>1, <2>2, <2>3, FiledMore
  <2> QED
    BY <2>4 DEF G
<1>10. Scoped(U, bound, base)
  <2>1. SUFFICES ASSUME NEW j \in 2..Len(ss), NEW w \in Names, bound[j][w] # Nil
                 PROVE  \E i \in 1..n : base[j] < i /\ i <= End(U, base, j) /\ U.local[i] = bound[j][w] /\ NameAt(U, i) = w
    <3>1. Len(bound) = Len(ss) /\ U.local = T.local
      BY <1>3, <1>4
    <3> QED
      BY ONLY <2>1, <3>1 DEF Scoped, n
  <2>2. PICK i \in 1..n : base[j] < i /\ i <= End(T, base, j) /\ T.local[i] = ss[j][w] /\ NameAt(T, i) = w
    BY <2>1, <1>3, <1>6 DEF Scoped, n
  <2>3. End(U, base, j) = End(T, base, j)
    BY <1>4 DEF End
  <2> QED
    BY <2>2, <2>3, <1>3, <1>4
<1>11. Headed(U, bound)
  BY <1>3, <1>4, <1>6 DEF Headed
<1>12. Hides(U, bound, base)
  <2>1. SUFFICES ASSUME NEW j \in 2..Len(ss), NEW i \in 1..n, NameAt(U, i) # Anon, base[j] < i,
                        \A k \in 1..(i - 1) : base[j] < k => NameAt(U, k) # NameAt(U, i)
                 PROVE  PrevAt(U, i) = Spec0!Lookup(SubSeq(bound, 1, j - 1), NameAt(U, i))
    BY <1>3, <1>4 DEF Hides, n
  <2>2. NameAt(T, i) = NameAt(U, i) /\ NameAt(T, i) \in Names
    BY <2>1, <1>4, <1>5
  <2>3. \A k \in 1..(i - 1) : base[j] < k => NameAt(T, k) # NameAt(T, i)
    <3>1. \A k \in 1..(i - 1) : k \in 1..n
      BY <1>1
    <3> QED
      BY <3>1, <2>1, <2>2, <1>4
  <2>4. PrevAt(T, i) = Spec0!Lookup(SubSeq(ss, 1, j - 1), NameAt(T, i))
    BY <2>1, <2>2, <2>3, <1>6 DEF Hides, n
  <2>5. PrevAt(U, i) = IF NameAt(T, i) = v /\ PrevAt(T, i) = Nil THEN s ELSE PrevAt(T, i)
    BY <1>4
  <2> QED
    BY <2>2, <2>4, <2>5, <1>7
<1>13. Down(U, bound[1])
  <2>1. SUFFICES ASSUME NEW i \in 1..n, NameAt(U, i) # Anon
                 PROVE  Below(U, bound[1], i, NameAt(U, i), PrevAt(U, i))
    BY <1>4 DEF Down, n
  <2>2. /\ NameAt(T, i) = NameAt(U, i) /\ NameAt(T, i) \in Names
        /\ PrevAt(U, i) = IF NameAt(T, i) = v /\ PrevAt(T, i) = Nil THEN s ELSE PrevAt(T, i)
    BY <2>1, <1>4, <1>5
  <2>3. Below(T, F, i, NameAt(T, i), PrevAt(T, i))
    BY <2>1, <2>2, <1>6 DEF Down, n
  <2>4. \A k \in 1..(i - 1) : U.local[k] = T.local[k] /\ NameAt(U, k) = NameAt(T, k)
    <3>1. \A k \in 1..(i - 1) : k \in 1..n
      BY <1>1
    <3> QED
      BY <3>1, <1>4
  <2>5. CASE NameAt(T, i) = v /\ PrevAt(T, i) = Nil
    BY <2>2, <2>5, <1>3 DEF Below
  <2>6. CASE ~(NameAt(T, i) = v /\ PrevAt(T, i) = Nil)
    <3>1. PrevAt(T, i) = F[NameAt(T, i)] => PrevAt(T, i) = bound[1][NameAt(T, i)]
      BY <2>2, <2>6, <1>3, <1>6
    <3> QED
      BY <3>1, <2>2, <2>3, <2>4, <2>6 DEF Below
  <2> QED
    BY <2>5, <2>6
<1> QED
  BY <1>1, <1>8, <1>9, <1>10, <1>11, <1>12, <1>13 DEF Tidy, bound

LEMMA LastChained ==
    ASSUME NEW T, NEW F, Pool(T), Chained(T, F), NEW v \in Names, F[v] = Nil,
           NEW s \in Syms, NEW U, LastOf(T, U, v, s),
           NEW G, G[v] = s, \A w \in Names : w # v => G[w] = F[w]
    PROVE  Chained(U, G)
<1> DEFINE n == Len(T.local)
<1>1. T \in TableSet /\ n \in Nat /\ \A i \in 1..n : T.local[i] \in Syms
  BY TableFields DEF Pool
<1>2. /\ U.local = T.local
      /\ \A w \in Names : U.head[w] = IF w = v /\ T.head[w] = Nil THEN s ELSE T.head[w]
      /\ \A i \in 1..n :
            /\ NameAt(U, i) = NameAt(T, i) /\ U.sym[T.local[i]].scope = T.sym[T.local[i]].scope
            /\ PrevAt(U, i) = IF NameAt(T, i) = v /\ PrevAt(T, i) = Nil THEN s ELSE PrevAt(T, i)
  BY DEF LastOf
<1>3. \A i \in 1..n : NameAt(T, i) # Anon => NameAt(T, i) \in Names
  <2>1. \A i \in 1..n : T.sym[T.local[i]] \in Records
    BY <1>1, TableFields
  <2> QED
    BY <2>1 DEF NameAt, Records
<1>4. /\ \A i \in 1..n : NameAt(T, i) # Anon => NextBelow(T, F, i, NameAt(T, i), PrevAt(T, i))
      /\ \A w \in Names : NextBelow(T, F, n + 1, w, T.head[w])
      /\ \A i \in 1..n : NameAt(T, i) # Anon /\ T.sym[T.local[i]].scope = 0 => F[NameAt(T, i)] # Nil
  BY DEF Chained
<1> HIDE DEF n
<1>5. ASSUME NEW i \in 1..(n + 1), NEW w \in Names, NEW r, NextBelow(T, F, i, w, r)
      PROVE  NextBelow(U, G, i, w, IF w = v /\ r = Nil THEN s ELSE r)
  <2>1. \A k \in 1..(i - 1) : k \in 1..n /\ U.local[k] = T.local[k] /\ NameAt(U, k) = NameAt(T, k)
    <3>1. \A k \in 1..(i - 1) : k \in 1..n
      BY <1>1
    <3> QED
      BY <3>1, <1>2
  <2>2. ASSUME NEW k \in 1..(i - 1), NameAt(U, k) = w, \A m \in (k + 1)..(i - 1) : NameAt(U, m) # w
        PROVE  (IF w = v /\ r = Nil THEN s ELSE r) = U.local[k]
    <3>1. \A m \in (k + 1)..(i - 1) : m \in 1..(i - 1)
      BY <1>1
    <3>2. r = T.local[k]
      BY <2>1, <2>2, <3>1, <1>5 DEF NextBelow
    <3>3. r # Nil
      BY <2>1, <3>2, <1>1, SymNumbers
    <3> QED
      BY <2>1, <3>2, <3>3
  <2>3. ASSUME \A k \in 1..(i - 1) : NameAt(U, k) # w
        PROVE  (IF w = v /\ r = Nil THEN s ELSE r) = G[w]
    <3>1. r = F[w]
      BY <2>1, <2>3, <1>5 DEF NextBelow
    <3> QED
      BY <3>1
  <2> QED
    BY <2>2, <2>3 DEF NextBelow
<1>6. ASSUME NEW i \in 1..n, NameAt(U, i) # Anon PROVE NextBelow(U, G, i, NameAt(U, i), PrevAt(U, i))
  <2>1. i \in 1..(n + 1) /\ NameAt(U, i) = NameAt(T, i) /\ NameAt(T, i) \in Names
    BY <1>1, <1>2, <1>3, <1>6
  <2>2. NextBelow(T, F, i, NameAt(T, i), PrevAt(T, i))
    BY <2>1, <1>4, <1>6
  <2>3. NextBelow(U, G, i, NameAt(T, i), IF NameAt(T, i) = v /\ PrevAt(T, i) = Nil THEN s ELSE PrevAt(T, i))
    BY <2>1, <2>2, <1>5
  <2> QED
    BY <2>1, <2>3, <1>2
<1>7. ASSUME NEW w \in Names PROVE NextBelow(U, G, n + 1, w, U.head[w])
  <2>1. n + 1 \in 1..(n + 1)
    BY <1>1
  <2>2. NextBelow(U, G, n + 1, w, IF w = v /\ T.head[w] = Nil THEN s ELSE T.head[w])
    BY <2>1, <1>4, <1>5
  <2> QED
    BY <2>2, <1>2
<1>8. ASSUME NEW i \in 1..n, NameAt(U, i) # Anon, U.sym[U.local[i]].scope = 0 PROVE G[NameAt(U, i)] # Nil
  <2>1. NameAt(T, i) \in Names /\ NameAt(T, i) # Anon /\ T.sym[T.local[i]].scope = 0 /\ NameAt(U, i) = NameAt(T, i)
    BY <1>2, <1>3, <1>8
  <2>2. F[NameAt(T, i)] # Nil
    BY <2>1, <1>4
  <2>3. NameAt(T, i) # v
    BY <2>2
  <2> QED
    BY <2>1, <2>2, <2>3
<1>9. Len(U.local) = n
  BY <1>2 DEF n
<1> QED
  BY <1>6, <1>7, <1>8, <1>9 DEF Chained

-----------------------------------------------------------------------------
(* The actions *)

LEMMA RoomIs ==
    ASSUME HasRoom(1) \/ HasRoom(2)
    PROVE  ~failed /\ Unused(Tables) # {} /\ (HasRoom(2) => \A s : Unused(Tables) \ {s} # {})
<1> DEFINE room == Unused(Tables)
<1>1. room = {s \in Syms : sym_free_first[s] > 0}
  BY DEF Unused, Tables
<1> HIDE DEF room
<1>2. ~failed /\ Cardinality(room) >= 1 /\ (HasRoom(2) => Cardinality(room) >= 2)
  <2>1. IsFiniteSet(Syms)
    BY SymNumbers, FS_Interval DEF Syms
  <2>2. IsFiniteSet(room)
    BY <2>1, <1>1, FS_Subset
  <2>3. Cardinality(room) \in Nat
    BY <2>2, FS_CardinalityType
  <2> QED
    BY <2>3, <1>1 DEF HasRoom
<1>3. room # {}
  <2>1. SUFFICES ASSUME room = {} PROVE FALSE
    OBVIOUS
  <2>2. Cardinality(room) = 0
    BY <2>1, FS_EmptySet
  <2> QED
    BY <2>2, <1>2
<1>4. ASSUME HasRoom(2), NEW s PROVE room \ {s} # {}
  <2>1. SUFFICES ASSUME room \ {s} = {} PROVE FALSE
    OBVIOUS
  <2>2. room \in SUBSET {s} /\ IsFiniteSet({s}) /\ Cardinality({s}) = 1
    BY <2>1, FS_Singleton
  <2>3. Cardinality(room) <= 1
    BY <2>2, FS_Subset
  <2>4. IsFiniteSet(room)
    BY <2>2, FS_Subset
  <2>5. Cardinality(room) \in Nat
    BY <2>4, FS_CardinalityType
  <2> QED
    BY <2>3, <2>5, <1>2, <1>4
<1> QED
  BY <1>2, <1>3, <1>4 DEF room

LEMMA BecomeIs ==
    ASSUME NEW T \in TableSet, Become(T)
    PROVE  Tables' = T
BY DEF Become, Tables, TableSet

LEMMA SeqSame ==
    ASSUME NEW S, NEW p \in Seq(S), NEW q \in Seq(S), Len(p) = Len(q), \A i \in 1..Len(p) : p[i] = q[i]
    PROVE  p = q
OBVIOUS

LEMMA BaseIs ==
    ASSUME NEW ss \in Seq(OneScope), NEW bs \in Seq(Blocks), Len(ss) > 2 => Len(ss) = Len(bs) + 2
    PROVE  /\ BaseOf(ss, bs) \in Seq(Nat) /\ Len(BaseOf(ss, bs)) = Len(ss)
           /\ \A j \in 1..Len(ss) :
                 /\ j <= 2 => BaseOf(ss, bs)[j] = 0
                 /\ j > 2 => j - 2 \in 1..Len(bs) /\ BaseOf(ss, bs)[j] = bs[j - 2].lstk /\ bs[j - 2].lstk \in Nat
<1> DEFINE n == Len(ss)
           base == BaseOf(ss, bs)
<1>1. Len(bs) \in Nat /\ n \in Nat /\ \A i \in 1..Len(bs) : bs[i] \in Blocks
  OBVIOUS
<1>2. \A i \in 1..Len(bs) : bs[i].lstk \in Nat
  BY <1>1 DEF Blocks
<1>3. \A j \in 1..n : j > 2 => j - 2 \in 1..Len(bs)
  BY <1>1
<1>4. base = [j \in 1..n |-> IF j <= 2 THEN 0 ELSE bs[j - 2].lstk]
  BY DEF BaseOf
<1> HIDE DEF n, base
<1>5. \A j \in 1..n : base[j] = (IF j <= 2 THEN 0 ELSE bs[j - 2].lstk) /\ base[j] \in Nat
  BY <1>1, <1>2, <1>3, <1>4
<1>6. base \in [1..n -> Nat]
  BY <1>4, <1>5
<1>7. base \in Seq(Nat) /\ Len(base) = n
  BY <1>1, <1>6
<1>8. \A j \in 1..n :
         /\ j <= 2 => base[j] = 0
         /\ j > 2 => j - 2 \in 1..Len(bs) /\ base[j] = bs[j - 2].lstk /\ bs[j - 2].lstk \in Nat
  BY <1>1, <1>2, <1>3, <1>5
<1> QED
  BY <1>7, <1>8 DEF n, base

\* In a function a symbol goes to the local stack, elsewhere to the global one.
LEMMA InUse == StackInUse(Tables) = IF InFunction THEN "local" ELSE "global"
BY DEF StackInUse, Tables, InFunction

LEMMA InvFacts ==
    ASSUME SymInv
    PROVE  /\ program \in Programs /\ failed \in BOOLEAN
           /\ Good(Tables, scopes, blocks, program)
           /\ Shape(Tables, scopes, blocks, program)
           /\ Tidy(Tables, scopes, BaseOf(scopes, blocks)) /\ Pool(Tables) /\ Tables \in TableSet
           /\ Tables.local = local_stack /\ Tables.global = global_stack /\ Tables.head = head /\ Tables.sym = sym
           /\ Tables.free = sym_free_first
           /\ scopes \in Seq(OneScope) /\ Len(scopes) \in Nat /\ Len(scopes) >= 1
           /\ blocks \in Seq(Blocks) /\ Len(blocks) \in Nat /\ Len(blocks) <= MaxDepth
           /\ Len(scopes) = (IF InFunction THEN Len(blocks) + 2 ELSE 1)
           /\ (blocks # <<>> => Len(blocks) >= 1)
           /\ Len(local_stack) \in Nat /\ local_stack \in Seq(Syms) /\ (InFunction <=> Len(local_stack) >= 1)
           /\ local_scope \in 0..MaxDepth + 1 /\ local_scope + 1 \in 0..MaxDepth + 1
           /\ (program.externals => Chained(Tables, scopes[1]))
<1>1. program \in Programs /\ failed \in BOOLEAN /\ Good(Tables, scopes, blocks, program)
  BY DEF SymInv
<1>2. /\ Shape(Tables, scopes, blocks, program) /\ Tidy(Tables, scopes, BaseOf(scopes, blocks))
      /\ (program.externals => Chained(Tables, scopes[1]))
  BY <1>1 DEF Good
<1>3. Pool(Tables) /\ Tables \in TableSet /\ Ordered(Tables, scopes, BaseOf(scopes, blocks))
  BY <1>2 DEF Tidy, Pool
<1>4. /\ Tables.local = local_stack /\ Tables.global = global_stack /\ Tables.head = head /\ Tables.sym = sym
      /\ Tables.free = sym_free_first
  BY DEF Tables
<1>5. scopes \in Seq(OneScope) /\ Len(scopes) \in Nat /\ Len(scopes) >= 1
  BY <1>3, OrderedIs
<1>6. Len(local_stack) \in Nat /\ local_stack \in Seq(Syms)
  BY <1>3, <1>4, TableFields
<1>7. InFunction <=> Len(local_stack) >= 1
  BY <1>6 DEF InFunction
<1>8. /\ blocks \in Seq(Blocks) /\ Len(blocks) <= MaxDepth
      /\ Len(scopes) = (IF InFunction THEN Len(blocks) + 2 ELSE 1)
  BY <1>2, <1>4 DEF Shape, InFunction
<1>9. Len(blocks) \in Nat /\ (blocks # <<>> => Len(blocks) >= 1)
  BY <1>8
<1>10. local_scope \in 0..MaxDepth + 1 /\ local_scope + 1 \in 0..MaxDepth + 1
  BY <1>8, <1>9, SymNumbers DEF local_scope
<1> QED
  BY <1>1, <1>2, <1>3, <1>4, <1>5, <1>6, <1>7, <1>8, <1>9, <1>10

\* The next state, and that every name finds what its scopes say.
LEMMA Lands ==
    ASSUME NEW T, NEW ss, NEW bs, SymInv, Good(T, ss, bs, program),
           Become(T), scopes' = ss, blocks' = bs, program' = program, failed' \in BOOLEAN
    PROVE  SymInv' /\ Spec0!Publish
<1>1. T \in TableSet /\ Headed(T, ss) /\ program \in Programs
  BY DEF Good, Tidy, Pool, SymInv
<1>2. Tables' = T
  BY <1>1, BecomeIs
<1>3. SymInv'
  BY <1>1, <1>2 DEF SymInv
<1>4. head' \in [Names -> 0..MaxSyms] /\ \A v \in Names : head'[v] = Spec0!Lookup(ss, v)
  BY <1>1, TableFields DEF Headed, Become
<1> QED
  BY <1>3, <1>4 DEF Spec0!Publish

\* Tables and scopes of the same size, with the same blocks.
LEMMA GoodOf ==
    ASSUME NEW T, NEW ss, NEW bs, NEW p, Good(T, ss, bs, p),
           NEW U, NEW tt, Len(tt) = Len(ss), U.local = <<>> <=> T.local = <<>>,
           Tidy(U, tt, BaseOf(ss, bs)), p.externals => Chained(U, tt[1])
    PROVE  Good(U, tt, bs, p)
<1>1. BaseOf(tt, bs) = BaseOf(ss, bs)
  BY DEF BaseOf
<1>2. Shape(U, tt, bs, p)
  BY DEF Good, Shape
<1> QED
  BY <1>1, <1>2 DEF Good

\* A function opens at 0, a block at n.
Opens(ss, bs, cc, n) ==
    \/ Len(ss) = 1 /\ n = 0
    \/ /\ Len(ss) = Len(bs) + 2 /\ Len(cc) = Len(bs) + 1 /\ cc[Len(bs) + 1].lstk = n
       /\ \A j \in 1..Len(bs) : cc[j] = bs[j]

\* A new scope begins where the local stack ends.
LEMMA BaseOpens ==
    ASSUME NEW ss \in Seq(OneScope), NEW bs \in Seq(Blocks), NEW cc \in Seq(Blocks), NEW n \in Nat, NEW scope \in OneScope,
           Opens(ss, bs, cc, n)
    PROVE  BaseOf(Append(ss, scope), cc) = Append(BaseOf(ss, bs), n)
<1> DEFINE after == Append(ss, scope)
           new == BaseOf(after, cc)
           old == BaseOf(ss, bs)
           want == Append(old, n)
<1>1. after \in Seq(OneScope) /\ Len(after) = Len(ss) + 1 /\ Len(ss) \in Nat /\ Len(bs) \in Nat
  OBVIOUS
<1>0. \/ Len(ss) = 1 /\ n = 0
      \/ /\ Len(ss) = Len(bs) + 2 /\ Len(cc) = Len(bs) + 1 /\ cc[Len(bs) + 1].lstk = n
         /\ \A j \in 1..Len(bs) : cc[j] = bs[j]
  BY DEF Opens
<1> HIDE DEF after, new, old, want
<1>2. /\ new \in Seq(Nat) /\ Len(new) = Len(ss) + 1
      /\ \A j \in 1..(Len(ss) + 1) : (j <= 2 => new[j] = 0) /\ (j > 2 => new[j] = cc[j - 2].lstk)
  <2>1. Len(after) > 2 => Len(after) = Len(cc) + 2
    <3>1. CASE Len(ss) = 1
      BY <3>1, <1>1
    <3>2. CASE Len(ss) = Len(bs) + 2 /\ Len(cc) = Len(bs) + 1
      BY <3>2, <1>1
    <3> QED
      BY <1>0, <3>1, <3>2
  <2> QED
    BY <1>1, <2>1, BaseIs DEF new
<1>3. /\ old \in Seq(Nat) /\ Len(old) = Len(ss)
      /\ \A j \in 1..Len(ss) : (j <= 2 => old[j] = 0) /\ (j > 2 => j - 2 \in 1..Len(bs) /\ old[j] = bs[j - 2].lstk)
  <2>1. Len(ss) > 2 => Len(ss) = Len(bs) + 2
    <3>1. CASE Len(ss) = 1
      BY <3>1
    <3> QED
      BY <1>0, <3>1
  <2> QED
    BY <1>1, <2>1, BaseIs DEF old
<1>4. /\ want \in Seq(Nat) /\ Len(want) = Len(ss) + 1 /\ want[Len(ss) + 1] = n
      /\ \A j \in 1..Len(ss) : want[j] = old[j]
  BY <1>1, <1>3 DEF want
<1>5. ASSUME NEW j \in 1..(Len(ss) + 1) PROVE new[j] = want[j]
  <2>1. CASE j \in 1..Len(ss)
    <3>0. j \in Nat /\ Len(ss) \in Nat /\ j <= Len(ss)
      BY <2>1, <1>1
    <3>1. CASE j <= 2
      <4>1. old[j] = 0
        BY <2>1, <3>1, <1>3
      <4>2. new[j] = 0
        BY <3>1, <1>2
      <4> QED
        BY <2>1, <4>1, <4>2, <1>4
    <3>2. CASE j > 2
      <4>1. Len(ss) = Len(bs) + 2 /\ \A k \in 1..Len(bs) : cc[k] = bs[k]
        <5>1. Len(ss) > 2
          BY <3>0, <3>2
        <5>2. CASE Len(ss) = 1
          BY <5>1, <5>2
        <5> QED
          BY <5>2, <1>0
      <4>2. j - 2 \in 1..Len(bs) /\ old[j] = bs[j - 2].lstk /\ new[j] = cc[j - 2].lstk
        BY <2>1, <3>2, <1>2, <1>3
      <4> QED
        BY <2>1, <4>1, <4>2, <1>4
    <3> QED
      BY <2>1, <3>1, <3>2, <1>1
  <2>2. CASE j = Len(ss) + 1
    <3>1. CASE Len(ss) = 1 /\ n = 0
      BY <2>2, <3>1, <1>2, <1>4
    <3>2. CASE Len(ss) = Len(bs) + 2 /\ cc[Len(bs) + 1].lstk = n
      <4>1. j > 2 /\ j - 2 = Len(bs) + 1
        BY <2>2, <3>2, <1>1
      <4> QED
        BY <2>2, <3>2, <4>1, <1>2, <1>4
    <3> QED
      BY <3>1, <3>2, <1>0
  <2> QED
    BY <2>1, <2>2, <1>1
<1>6. new = want
  <2>1. Len(new) = Len(want) /\ \A j \in 1..Len(new) : new[j] = want[j]
    BY <1>2, <1>4, <1>5
  <2> QED
    BY <2>1, <1>2, <1>4, SeqSame
<1> QED
  BY <1>6 DEF new, want, old, after

LEMMA NewScopeStep ==
    ASSUME SymInv, NewScope
    PROVE  SymInv' /\ Spec0!Open
<1> DEFINE after == Append(scopes, Spec0!Empty)
           base == BaseOf(scopes, blocks)
<1>1. /\ Shape(Tables, scopes, blocks, program) /\ Tidy(Tables, scopes, base)
      /\ scopes \in Seq(OneScope) /\ Len(scopes) \in Nat /\ Len(scopes) >= 1
      /\ blocks \in Seq(Blocks) /\ Len(blocks) \in Nat
      /\ Len(scopes) = (IF InFunction THEN Len(blocks) + 2 ELSE 1)
      /\ Len(local_stack) \in Nat /\ (InFunction <=> Len(local_stack) >= 1)
      /\ (program.externals => Chained(Tables, scopes[1])) /\ Tables.local = local_stack
      /\ failed \in BOOLEAN
  BY InvFacts
<1>2. PICK is_expr \in IF blocks = <<>> \/ ~program.exprs THEN {FALSE} ELSE BOOLEAN :
          blocks' = Append(blocks, [lstk |-> Len(local_stack), is_expr |-> is_expr])
  BY DEF NewScope
<1>3. /\ InFunction /\ Len(blocks) < MaxDepth /\ scopes' = after /\ Become(Tables)
      /\ failed' = failed /\ program' = program
  BY DEF NewScope, tables, Tables, Become
<1> DEFINE b == [lstk |-> Len(local_stack), is_expr |-> is_expr]
           cc == Append(blocks, b)
<1>4. b \in Blocks /\ b.lstk = Len(local_stack) /\ (b.is_expr => program.exprs) /\ b.lstk >= 1
  BY <1>1, <1>2, <1>3 DEF Blocks
<1>5. blocks' = cc
  BY <1>2
<1> HIDE DEF b
<1>6. /\ cc \in Seq(Blocks) /\ Len(cc) = Len(blocks) + 1 /\ cc[Len(blocks) + 1] = b
      /\ \A j \in 1..Len(blocks) : cc[j] = blocks[j]
      /\ \A j \in 1..(Len(blocks) + 1) : j \in 1..Len(blocks) \/ j = Len(blocks) + 1
  BY <1>1, <1>4
<1> HIDE DEF cc, base
<1>7. Spec0!Empty \in OneScope
  BY SymNumbers DEF OneScope, Spec0!Empty
<1>8. Tidy(Tables, after, BaseOf(after, cc))
  <2>1. BaseOf(after, cc) = Append(base, Len(local_stack))
    <3>1. Opens(scopes, blocks, cc, Len(local_stack))
      BY <1>1, <1>3, <1>4, <1>6 DEF Opens
    <3> QED
      BY <3>1, <1>1, <1>6, <1>7, BaseOpens DEF base, after
  <2> QED
    BY <2>1, <1>1, OpenTidy
<1>9. Shape(Tables, after, cc, program)
  <2>1. \A j \in 1..Len(blocks) : blocks[j].lstk >= 1 /\ (blocks[j].is_expr => program.exprs)
    BY <1>1 DEF Shape
  <2>2. \A j \in 1..Len(cc) : cc[j].lstk >= 1 /\ (cc[j].is_expr => program.exprs)
    BY <2>1, <1>4, <1>6
  <2>3. Len(after) = Len(cc) + 2 /\ Tables.local # <<>> /\ Len(cc) <= MaxDepth
    BY <1>1, <1>3, <1>6, SymNumbers DEF InFunction
  <2> QED
    BY <2>2, <2>3, <1>6 DEF Shape
<1>10. program.externals => Chained(Tables, after[1])
  BY <1>1
<1> HIDE DEF after
<1>11. Good(Tables, after, cc, program)
  BY <1>8, <1>9, <1>10 DEF Good
<1>12. SymInv' /\ Spec0!Publish
  BY <1>1, <1>3, <1>5, <1>11, Lands
<1> QED
  BY <1>3, <1>12 DEF Spec0!Open, after

\* Between functions.
LEMMA FileFacts ==
    ASSUME SymInv, ~InFunction
    PROVE  /\ blocks = <<>> /\ Len(blocks) = 0 /\ Len(scopes) = 1 /\ local_stack = <<>> /\ scopes[1] \in OneScope
           /\ BaseOf(scopes, blocks) \in Seq(Nat) /\ Len(BaseOf(scopes, blocks)) = 1 /\ BaseOf(scopes, blocks)[1] = 0
           /\ Filed(Tables, scopes[1]) /\ (\A v \in Names : Tables.head[v] = scopes[1][v])
           /\ Chained(Tables, scopes[1])
<1> DEFINE base == BaseOf(scopes, blocks)
<1>1. /\ local_stack = <<>> /\ Len(scopes) = 1 /\ scopes \in Seq(OneScope) /\ Tables.local = local_stack
      /\ Shape(Tables, scopes, blocks, program) /\ Tidy(Tables, scopes, base) /\ blocks \in Seq(Blocks)
  BY InvFacts DEF InFunction
<1>2. blocks = <<>> /\ Len(blocks) = 0
  BY <1>1 DEF Shape
<1>3. base \in Seq(Nat) /\ Len(base) = 1 /\ base[1] = 0
  <2>1. /\ base \in Seq(Nat) /\ Len(base) = Len(scopes)
        /\ \A j \in 1..Len(scopes) : j <= 2 => base[j] = 0
    <3>1. Len(scopes) > 2 => Len(scopes) = Len(blocks) + 2
      BY <1>1
    <3> QED
      BY <3>1, <1>1, BaseIs
  <2> HIDE DEF base
  <2>2. 1 \in 1..Len(scopes)
    BY <1>1
  <2> QED
    BY <2>1, <2>2, <1>1
<1>4. Filed(Tables, scopes[1]) /\ Headed(Tables, scopes) /\ Pool(Tables)
  BY <1>1 DEF Tidy
<1>5. ASSUME NEW v \in Names PROVE Tables.head[v] = scopes[1][v]
  <2>1. 1 \in 1..Len(scopes) /\ \A j \in 1..Len(scopes) : j = 1
    BY <1>1
  <2>2. ASSUME NEW j \in (1 + 1)..Len(scopes) PROVE scopes[j][v] = Nil
    <3>1. j \in Int /\ 2 <= j /\ j <= Len(scopes) /\ Len(scopes) = 1
      BY <1>1
    <3> QED
      BY <3>1
  <2>3. Spec0!Lookup(scopes, v) = scopes[1][v]
    <3>1. CASE scopes[1][v] = Nil
      <4>1. \A j \in 1..Len(scopes) : scopes[j][v] = Nil
        BY <2>1, <3>1
      <4> QED
        BY <3>1, <4>1, <1>1, LookupIs
    <3>2. CASE scopes[1][v] # Nil
      BY <2>1, <2>2, <3>2, <1>1, LookupIs
    <3> QED
      BY <3>1, <3>2
  <2> QED
    BY <2>3, <1>4 DEF Headed
<1> HIDE DEF base
<1>6. Chained(Tables, scopes[1])
  BY <1>1, <1>3, <1>4, <1>5, FileTidy
<1>7. scopes[1] \in OneScope
  BY <1>1
<1> QED
  BY <1>1, <1>2, <1>3, <1>4, <1>5, <1>6, <1>7 DEF base

\* sym_push of a name in a function.
LEMMA PushGood ==
    ASSUME SymInv, InFunction, NEW v \in Names, NEW s \in Syms, Tables.free[s] > 0, NEW U, Pool(U),
           NEW scope \in 0..MaxDepth + 1, scope = 0 => scopes[1][v] # Nil \/ ~program.externals,
           OnTop(Tables, U, "local", s, [v |-> v, scope |-> scope, prev_tok |-> Tables.head[v]]),
           U.head = [Tables.head EXCEPT ![v] = s]
    PROVE  Good(U, Spec0!Bind(scopes, Len(scopes), v, s), blocks, program)
<1> DEFINE T == Tables
           base == BaseOf(scopes, blocks)
           y == [v |-> v, scope |-> scope, prev_tok |-> T.head[v]]
           bound == Spec0!Bind(scopes, Len(scopes), v, s)
<1>1. /\ Good(T, scopes, blocks, program) /\ Tidy(T, scopes, base) /\ Pool(T) /\ T \in TableSet
      /\ scopes \in Seq(OneScope) /\ Len(scopes) >= 2 /\ Len(scopes) \in Nat /\ T.local \in Seq(Syms) /\ T.local # <<>>
      /\ (program.externals => Chained(T, scopes[1]))
  BY InvFacts DEF InFunction
<1>2. v # Anon /\ y.v = v /\ y.scope = scope /\ y.prev_tok = T.head[v] /\ y \in Records
  <2>1. T.head[v] \in 0..MaxSyms
    BY <1>1, TableFields
  <2> QED
    BY <2>1, SymNumbers DEF Records
<1>3. OnTop(T, U, "local", s, y)
  OBVIOUS
<1> HIDE DEF y, T, base
<1>4. Tidy(U, bound, base)
  BY <1>1, <1>2, <1>3, PushTidy DEF T
<1>5. Len(bound) = Len(scopes) /\ bound[1] = scopes[1]
  BY <1>1, LookupBind
<1> HIDE DEF bound
<1>6. program.externals => Chained(U, bound[1])
  <2>1. U.head = Found(T, y.v, s)
    BY <1>2 DEF Found, T
  <2>2. program.externals /\ y.scope = 0 => scopes[1][y.v] # Nil
    BY <1>2
  <2> QED
    BY <1>1, <1>2, <1>3, <1>5, <2>1, <2>2, ChainedTop DEF T
<1>7. U.local # <<>>
  BY <1>1, <1>3 DEF OnTop
<1> QED
  BY <1>1, <1>4, <1>5, <1>6, <1>7, GoodOf DEF bound, base

\* A declaration of the file: a global symbol at the end of its empty chain.
LEMMA FileGood ==
    ASSUME SymInv, ~InFunction, NEW v \in Names, scopes[1][v] = Nil, NEW s \in Syms, Tables.free[s] > 0,
           NEW U, Pool(U), OnTop(Tables, U, "global", s, [v |-> v, scope |-> 0, prev_tok |-> Tables.head[v]]),
           U.head = [Tables.head EXCEPT ![v] = s]
    PROVE  Good(U, Spec0!Bind(scopes, 1, v, s), blocks, program)
<1> DEFINE T == Tables
           base == BaseOf(scopes, blocks)
           bound == Spec0!Bind(scopes, 1, v, s)
           G == bound[1]
<1>1. /\ Good(T, scopes, blocks, program) /\ Pool(T) /\ T \in TableSet /\ scopes \in Seq(OneScope)
      /\ Len(scopes) >= 1 /\ T.local = local_stack
  BY InvFacts
<1>2. /\ Len(scopes) = 1 /\ local_stack = <<>> /\ scopes[1] \in OneScope
      /\ base \in Seq(Nat) /\ Len(base) = 1 /\ base[1] = 0
      /\ Filed(T, scopes[1]) /\ \A w \in Names : T.head[w] = scopes[1][w]
  BY FileFacts
<1> HIDE DEF base
<1>3. /\ bound \in Seq(OneScope) /\ Len(bound) = 1 /\ bound[1][v] = s
      /\ \A w \in Names : w # v => bound[1][w] = scopes[1][w]
  BY <1>1, <1>2, LookupBindFile
<1> HIDE DEF bound
<1>4. /\ U.local = <<>> /\ U.global = Append(T.global, s)
      /\ (\A i \in 1..Len(T.global) : U.sym[T.global[i]] = T.sym[T.global[i]])
      /\ U.sym[s].v = v /\ U.sym[s].scope = 0 /\ U.sym[s].prev_tok = Nil
  <2>1. U.sym = [T.sym EXCEPT ![s] = [v |-> v, scope |-> 0, prev_tok |-> Tables.head[v]]]
        /\ U.local = T.local /\ U.global = Append(T.global, s)
    BY DEF OnTop
  <2>2. OneMoreGlobal(T, U, s)
    BY <2>1, <1>1, GlobalTop
  <2>3. \A i \in 1..Len(T.global) : T.global[i] # s /\ T.global[i] \in Syms
    BY <2>2 DEF OneMoreGlobal
  <2>4. T.sym \in [Syms -> Records]
    BY <1>1, TableFields
  <2> QED
    BY <2>1, <2>3, <2>4, <1>1, <1>2
<1>5. G[v] = s /\ \A w \in Names : w # v => G[w] = scopes[1][w]
  BY <1>3
<1> HIDE DEF T, G
<1>6. Filed(U, G)
  BY <1>1, <1>2, <1>4, <1>5, FiledMore DEF T
<1>7. \A w \in Names : U.head[w] = G[w]
  <2>1. T.head \in [Names -> 0..MaxSyms]
    BY <1>1, TableFields
  <2> QED
    BY <2>1, <1>2, <1>5 DEF T
<1>8. Tidy(U, bound, base) /\ Chained(U, bound[1])
  BY <1>2, <1>3, <1>4, <1>6, <1>7, FileTidy DEF G
<1> QED
  BY <1>1, <1>2, <1>3, <1>4, <1>8, GoodOf DEF bound, base, T

LEMMA DeclareStep ==
    ASSUME SymInv, NEW v \in Names, Declare(v)
    PROVE  SymInv' /\ (Spec0!Declare \/ UNCHANGED Spec0!vars)
<1> DEFINE T == Tables
           s == Fresh(Tables)
           U == sym_push(Tables, v, local_scope)
           bound == Spec0!Bind(scopes, Here, v, s)
<1>1. /\ Good(T, scopes, blocks, program) /\ Pool(T) /\ T \in TableSet /\ T.head = head /\ T.sym = sym
      /\ (InFunction => blocks # <<>> /\ Len(blocks) >= 1) /\ local_scope \in 0..MaxDepth + 1
      /\ program \in Programs /\ failed \in BOOLEAN
  BY InvFacts DEF Declare
<1>2. blocks' = blocks /\ program' = program /\ HasRoom(1)
  BY DEF Declare
<1>3. Unused(T) # {} /\ s \in Syms /\ T.free[s] > 0 /\ v # Anon
  BY <1>2, RoomIs, FreshIs, SymNumbers
<1>4. CASE Redeclares(T, v, local_scope)
  <2>1. failed' = TRUE /\ Become(T) /\ scopes' = scopes /\ head' = head
    BY <1>4 DEF Declare, tables, Tables, Become
  <2>2. SymInv'
    BY <1>1, <1>2, <2>1, Lands
  <2> QED
    BY <2>1, <2>2 DEF Spec0!vars
<1>5. CASE ~Redeclares(T, v, local_scope)
  <2>1. Become(U) /\ scopes' = bound /\ failed' = failed /\ failed' \in BOOLEAN
    BY <1>1, <1>5 DEF Declare
  <2>2. /\ OnTop(T, U, StackInUse(T), s, [v |-> v, scope |-> local_scope, prev_tok |-> T.head[v]])
        /\ U.head = [T.head EXCEPT ![v] = s] /\ Pool(U)
    <3>1. T.head[v] \in 0..MaxSyms /\ Hidden(T, v) = T.head[v]
      BY <1>1, <1>3, TableFields DEF Hidden
    <3>2. Found(T, v, s) = [T.head EXCEPT ![v] = s]
      BY <1>3 DEF Found
    <3> QED
      BY <3>1, <3>2, <1>1, <1>3, PushIs
  <2>3. Here = Len(scopes) /\ local_scope = Len(blocks)
    BY DEF Here, local_scope
  <2> HIDE DEF U, s
  <2>4. Good(U, bound, blocks, program)
    <3>1. CASE InFunction
      <4>1. StackInUse(T) = "local" /\ ~(local_scope = 0)
        BY <3>1, <1>1, <2>3, InUse
      <4> QED
        BY <3>1, <4>1, <1>1, <1>3, <2>2, <2>3, PushGood
    <3>2. CASE ~InFunction
      <4>1. StackInUse(T) = "global" /\ local_scope = 0 /\ Len(scopes) = 1
            /\ Filed(T, scopes[1]) /\ T.head[v] = scopes[1][v]
        BY <3>2, <2>3, InUse, FileFacts
      <4>2. scopes[1][v] = Nil
        <5>1. SUFFICES ASSUME scopes[1][v] # Nil PROVE FALSE
          OBVIOUS
        <5>2. T.sym[T.head[v]].scope = 0 /\ T.head[v] # Nil
          BY <4>1, <5>1 DEF Filed
        <5> QED
          BY <1>3, <1>5, <4>1, <5>2 DEF Redeclares
      <4> QED
        BY <3>2, <4>1, <4>2, <1>3, <2>2, <2>3, FileGood
    <3> QED
      BY <3>1, <3>2
  <2>5. SymInv' /\ Spec0!Publish
    BY <1>2, <2>1, <2>4, Lands
  <2>6. scopes' = Spec0!Bind(scopes, Len(scopes), v, s)
    BY <2>1, <2>3
  <2> QED
    BY <2>5, <2>6, <1>3 DEF Spec0!Declare
<1> QED
  BY <1>4, <1>5

\* The blocks of the scopes that are left when the last one closes.
LEMMA BaseCloses ==
    ASSUME NEW ss \in Seq(OneScope), Len(ss) >= 2, NEW bs \in Seq(Blocks), Len(ss) = Len(bs) + 2,
           NEW cc \in Seq(Blocks), Len(cc) = IF Len(bs) = 0 THEN 0 ELSE Len(bs) - 1,
           \A j \in 1..Len(cc) : cc[j] = bs[j]
    PROVE  BaseOf(SubSeq(ss, 1, Len(ss) - 1), cc) = SubSeq(BaseOf(ss, bs), 1, Len(ss) - 1)
<1> DEFINE m == Len(ss) - 1
           outer == SubSeq(ss, 1, m)
           old == BaseOf(ss, bs)
           new == BaseOf(outer, cc)
           want == SubSeq(old, 1, m)
<1>1. /\ m \in Nat /\ m >= 1 /\ outer \in Seq(OneScope) /\ Len(outer) = m /\ Len(ss) = m + 1 /\ Len(bs) \in Nat
      /\ Len(cc) \in Nat /\ m = Len(bs) + 1
  OBVIOUS
<1>2. m > 2 => Len(cc) = m - 2
  BY <1>1
<1> HIDE DEF m, outer, old, new, want
<1>3. /\ new \in Seq(Nat) /\ Len(new) = m
      /\ \A j \in 1..m : (j <= 2 => new[j] = 0) /\ (j > 2 => j - 2 \in 1..Len(cc) /\ new[j] = cc[j - 2].lstk)
  <2>1. Len(outer) > 2 => Len(outer) = Len(cc) + 2
    BY <1>1, <1>2
  <2> QED
    BY <2>1, <1>1, BaseIs DEF new
<1>4. /\ old \in Seq(Nat) /\ Len(old) = m + 1
      /\ \A j \in 1..(m + 1) : (j <= 2 => old[j] = 0) /\ (j > 2 => old[j] = bs[j - 2].lstk)
  BY <1>1, BaseIs DEF old
<1>5. want \in Seq(Nat) /\ Len(want) = m /\ \A j \in 1..m : want[j] = old[j] /\ j \in 1..(m + 1)
  <2>1. m \in Nat /\ m <= Len(old) /\ \A j \in 1..m : j \in 1..(m + 1)
    BY <1>1, <1>4
  <2> QED
    BY <2>1, <1>4 DEF want
<1>6. ASSUME NEW j \in 1..m PROVE new[j] = want[j]
  <2>1. CASE j <= 2
    BY <2>1, <1>3, <1>4, <1>5
  <2>2. CASE j > 2
    <3>1. j - 2 \in 1..Len(cc) /\ new[j] = cc[j - 2].lstk /\ old[j] = bs[j - 2].lstk /\ want[j] = old[j]
      BY <2>2, <1>3, <1>4, <1>5
    <3> QED
      BY <3>1
  <2> QED
    BY <2>1, <2>2, <1>1
<1>7. Len(new) = Len(want) /\ \A j \in 1..Len(new) : new[j] = want[j]
  BY <1>3, <1>5, <1>6
<1> QED
  BY <1>3, <1>5, <1>7, SeqSame DEF new, want, old, outer, m

\* A block closes, or the parameters do: tables U and blocks cc are left.
LEMMA CloseGood ==
    ASSUME SymInv, InFunction, NEW cc \in Seq(Blocks),
           Len(cc) = IF Len(blocks) = 0 THEN 0 ELSE Len(blocks) - 1, \A j \in 1..Len(cc) : cc[j] = blocks[j],
           NEW n, n = IF Len(blocks) = 0 THEN 0 ELSE blocks[Len(blocks)].lstk,
           NEW is_expr \in BOOLEAN, is_expr => Len(blocks) > 0 /\ ~program.externals
    PROVE  Good(sym_pop(Tables, "local", n, is_expr), SubSeq(scopes, 1, Len(scopes) - 1), cc, program)
<1> DEFINE T == Tables
           base == BaseOf(scopes, blocks)
           outer == SubSeq(scopes, 1, Len(scopes) - 1)
           U == sym_pop(T, "local", n, is_expr)
<1>1. /\ Shape(T, scopes, blocks, program) /\ Tidy(T, scopes, base) /\ Pool(T) /\ T \in TableSet
      /\ scopes \in Seq(OneScope) /\ blocks \in Seq(Blocks) /\ Len(blocks) \in Nat /\ Len(scopes) = Len(blocks) + 2
      /\ T.local \in Seq(Syms) /\ Len(T.local) \in Nat /\ Len(T.local) >= 1
      /\ (program.externals => Chained(T, scopes[1]))
  BY InvFacts
<1>2. base[Len(scopes)] = n /\ n \in Nat /\ n <= Len(T.local) /\ Len(scopes) >= 2 /\ Len(scopes) \in Nat
  <2>1. Len(scopes) \in 1..Len(scopes) /\ Len(scopes) >= 2 /\ Len(scopes) \in Nat
    BY <1>1
  <2>2. /\ Len(scopes) <= 2 => base[Len(scopes)] = 0
        /\ Len(scopes) > 2 => base[Len(scopes)] = blocks[Len(scopes) - 2].lstk
    BY <2>1, <1>1, BaseIs
  <2> HIDE DEF base
  <2>3. base[Len(scopes)] = n
    <3>1. CASE Len(blocks) = 0
      BY <3>1, <2>2, <1>1
    <3>2. CASE Len(blocks) # 0
      <4>1. Len(scopes) > 2 /\ Len(scopes) - 2 = Len(blocks) /\ n = blocks[Len(blocks)].lstk
        BY <3>2, <1>1
      <4> QED
        BY <4>1, <2>2
    <3> QED
      BY <3>1, <3>2
  <2>4. base[Len(scopes)] \in Nat /\ base[Len(scopes)] <= Len(T.local)
    BY <2>1, <1>1, OrderedIs DEF Tidy
  <2> QED
    BY <2>1, <2>3, <2>4
<1>3. /\ \A j \in 1..Len(blocks) : blocks[j].lstk >= 1 /\ (blocks[j].is_expr => program.exprs)
      /\ Len(blocks) <= MaxDepth
  BY <1>1 DEF Shape
<1>4. BaseOf(outer, cc) = SubSeq(base, 1, Len(scopes) - 1)
  BY <1>1, <1>2, BaseCloses
<1>5. /\ Len(outer) = Len(blocks) + 1 /\ outer[1] = scopes[1]
  BY <1>1
<1> HIDE DEF base, outer, U
<1>6. /\ Unlinked(T, "local", n) \in [Names -> 0..MaxSyms]
      /\ Cut(T, sym_pop(T, "local", n, FALSE), "local", n)
      /\ sym_pop(T, "local", n, FALSE).head = Unlinked(T, "local", n)
      /\ sym_pop(T, "local", n, TRUE) = [T EXCEPT !.head = Unlinked(T, "local", n)]
      /\ Pool(sym_pop(T, "local", n, TRUE))
  <2>1. T["local"] = T.local
    OBVIOUS
  <2>2. Unlinked(T, "local", n) \in [Names -> 0..MaxSyms]
    BY <1>1, <1>2, UnlinkedType
  <2> HIDE DEF T
  <2> QED
    BY <2>1, <2>2, <1>1, <1>2, PopIs
<1>7. Tidy(U, outer, BaseOf(outer, cc)) /\ (program.externals => Chained(U, outer[1]))
      /\ U.local = (IF is_expr THEN T.local ELSE SubSeq(T.local, 1, n))
  <2> HIDE DEF T
  <2>1. CASE is_expr
    <3>1. U = [T EXCEPT !.head = Unlinked(T, "local", n)] /\ Pool(U)
      BY <2>1, <1>6 DEF U
    <3>2. U.sym = T.sym /\ U.local = T.local /\ U.global = T.global /\ U.head = Unlinked(T, "local", n)
      BY <3>1, <1>1, <1>6, HeadSet
    <3>3. Tidy(U, outer, SubSeq(base, 1, Len(scopes) - 1))
      BY <3>1, <3>2, <1>1, <1>2, KeepTidy DEF outer
    <3> QED
      BY <2>1, <3>2, <3>3, <1>4
  <2>2. CASE ~is_expr
    <3>1. Cut(T, U, "local", n) /\ U.head = Unlinked(T, "local", n)
      BY <2>2, <1>6 DEF U
    <3>2. Tidy(U, outer, SubSeq(base, 1, Len(scopes) - 1))
      BY <3>1, <1>1, <1>2, CloseTidy DEF outer
    <3>3. program.externals => Chained(U, outer[1])
      BY <3>1, <1>1, <1>2, <1>5, ChainedClose
    <3>4. U.local = SubSeq(T.local, 1, n)
      BY <3>1 DEF Cut
    <3> QED
      BY <2>2, <3>2, <3>3, <3>4, <1>4
  <2> QED
    BY <2>1, <2>2
<1>8. Shape(U, outer, cc, program)
  <2>1. \A j \in 1..Len(cc) : cc[j].lstk >= 1 /\ (cc[j].is_expr => program.exprs)
    <3>1. \A j \in 1..Len(cc) : j \in 1..Len(blocks)
      BY <1>1
    <3> QED
      BY <3>1, <1>3
  <2>2. CASE Len(blocks) = 0
    <3>1. Len(cc) = 0 /\ ~is_expr /\ n = 0 /\ cc = <<>>
      BY <2>2
    <3>2. U.local = <<>>
      BY <3>1, <1>1, <1>7
    <3>3. Len(cc) <= MaxDepth
      BY <3>1, SymNumbers
    <3> QED
      BY <2>1, <2>2, <3>1, <3>2, <3>3, <1>5 DEF Shape
  <2>3. CASE Len(blocks) # 0
    <3>1. Len(blocks) \in 1..Len(blocks) /\ Len(cc) = Len(blocks) - 1 /\ n = blocks[Len(blocks)].lstk
      BY <2>3, <1>1
    <3>2. n >= 1
      BY <3>1, <1>3
    <3>3. U.local # <<>>
      <4>1. Len(SubSeq(T.local, 1, n)) = n
        BY <1>1, <1>2
      <4> HIDE DEF T
      <4>2. Len(U.local) >= 1
        BY <3>2, <4>1, <1>1, <1>7
      <4> QED
        BY <4>2
    <3>4. Len(outer) = Len(cc) + 2 /\ Len(cc) <= MaxDepth
      BY <3>1, <1>1, <1>3, <1>5, SymNumbers
    <3> QED
      BY <2>1, <3>3, <3>4 DEF Shape
  <2> QED
    BY <2>2, <2>3
<1> QED
  BY <1>7, <1>8 DEF Good, U, outer

LEMMA PrevScopeStep ==
    ASSUME SymInv, NeverBoth, PrevScope
    PROVE  SymInv' /\ Spec0!Close
<1> DEFINE m == Len(blocks)
           n == blocks[m].lstk
           cc == SubSeq(blocks, 1, m - 1)
           is_expr == blocks[m].is_expr
           outer == SubSeq(scopes, 1, Len(scopes) - 1)
<1>1. /\ blocks \in Seq(Blocks) /\ m \in Nat /\ m >= 1 /\ m \in 1..m
      /\ program \in Programs /\ failed \in BOOLEAN /\ Shape(Tables, scopes, blocks, program)
      /\ Tables.local = local_stack /\ Len(scopes) = IF InFunction THEN m + 2 ELSE 1
      /\ (is_expr => program.exprs)
  <2>1. /\ blocks \in Seq(Blocks) /\ m \in Nat /\ m >= 1
        /\ program \in Programs /\ failed \in BOOLEAN /\ Shape(Tables, scopes, blocks, program)
        /\ Tables.local = local_stack /\ Len(scopes) = IF InFunction THEN m + 2 ELSE 1
    BY InvFacts DEF PrevScope
  <2>2. m \in 1..m
    BY <2>1
  <2>3. is_expr => program.exprs
    BY <2>1, <2>2 DEF Shape
  <2> QED
    BY <2>1, <2>2, <2>3
<1>2. InFunction /\ blocks # <<>>
  BY <1>1 DEF Shape, InFunction, PrevScope
<1>3. /\ Become(sym_pop(Tables, "local", n, is_expr)) /\ blocks' = cc /\ scopes' = outer
      /\ failed' = failed /\ program' = program
  BY DEF PrevScope, Last, Front
<1>4. /\ cc \in Seq(Blocks) /\ Len(cc) = m - 1 /\ \A j \in 1..Len(cc) : cc[j] = blocks[j]
  <2>1. m - 1 \in Nat /\ m - 1 <= Len(blocks) /\ blocks \in Seq(Blocks)
    BY <1>1
  <2> HIDE DEF m, n, is_expr
  <2> QED
    BY <2>1
<1>5. is_expr \in BOOLEAN /\ (is_expr => ~program.externals) /\ m # 0
  <2>1. blocks[m] \in Blocks
    BY <1>1
  <2> QED
    BY <2>1, <1>1 DEF Blocks, NeverBoth
<1> HIDE DEF cc, outer, n, is_expr
<1>6. Good(sym_pop(Tables, "local", n, is_expr), outer, cc, program)
  BY <1>1, <1>2, <1>4, <1>5, CloseGood DEF outer, n
<1>7. SymInv' /\ Spec0!Publish
  BY <1>1, <1>3, <1>6, Lands
<1> QED
  BY <1>1, <1>2, <1>3, <1>7 DEF Spec0!Close, outer

LEMMA EndFunctionStep ==
    ASSUME SymInv, EndFunction
    PROVE  SymInv' /\ Spec0!Close
<1> DEFINE outer == SubSeq(scopes, 1, Len(scopes) - 1)
<1>1. /\ blocks \in Seq(Blocks) /\ blocks = <<>> /\ Len(blocks) = 0 /\ failed \in BOOLEAN /\ Len(scopes) = 2 /\ InFunction
  <2>1. blocks \in Seq(Blocks) /\ failed \in BOOLEAN /\ Len(scopes) = IF InFunction THEN Len(blocks) + 2 ELSE 1
    BY InvFacts
  <2>2. blocks = <<>> /\ InFunction
    BY DEF EndFunction
  <2> QED
    BY <2>1, <2>2
<1>2. /\ Become(sym_pop(Tables, "local", 0, FALSE)) /\ blocks' = blocks /\ scopes' = outer
      /\ failed' = failed /\ program' = program
  BY DEF EndFunction, Front
<1> HIDE DEF outer
<1>3. Good(sym_pop(Tables, "local", 0, FALSE), outer, blocks, program)
  <2>1. /\ Len(blocks) = (IF Len(blocks) = 0 THEN 0 ELSE Len(blocks) - 1)
        /\ 0 = (IF Len(blocks) = 0 THEN 0 ELSE blocks[Len(blocks)].lstk)
        /\ FALSE \in BOOLEAN /\ \A j \in 1..Len(blocks) : blocks[j] = blocks[j]
    BY <1>1
  <2> QED
    BY <2>1, <1>1, CloseGood DEF outer
<1>4. SymInv' /\ Spec0!Publish
  BY <1>1, <1>2, <1>3, Lands
<1> QED
  BY <1>1, <1>2, <1>4 DEF Spec0!Close, outer

\* Nothing is declared.
LEMMA EmptyGood ==
    ASSUME NEW U, Pool(U), U.local = <<>>, U.global = <<>>, U.head = Spec0!Empty, NEW p
    PROVE  Good(U, <<Spec0!Empty>>, <<>>, p)
<1> DEFINE ss == <<Spec0!Empty>>
           base == BaseOf(ss, <<>>)
<1>1. Spec0!Empty \in OneScope
  BY SymNumbers DEF OneScope, Spec0!Empty
<1>2. ss \in Seq(OneScope) /\ Len(ss) = 1 /\ ss[1] = Spec0!Empty /\ <<>> \in Seq(Blocks)
  BY <1>1
<1> HIDE DEF ss
<1>3. base \in Seq(Nat) /\ Len(base) = 1 /\ base[1] = 0
  <2>1. ~(Len(ss) > 2) /\ 1 \in 1..Len(ss) /\ 1 <= 2
    BY <1>2
  <2> QED
    BY <2>1, <1>2, BaseIs
<1> HIDE DEF base
<1>4. Tidy(U, ss, base) /\ Chained(U, ss[1])
  BY <1>2, <1>3, EmptyTidy DEF ss
<1>5. Shape(U, ss, <<>>, p)
  <2>1. Len(<<>>) = 0 /\ Len(<<>>) <= MaxDepth
    BY SymNumbers
  <2> QED
    BY <2>1, <1>2 DEF Shape
<1> QED
  BY <1>4, <1>5 DEF Good, ss, base

LEMMA InitGood ==
    ASSUME Init
    PROVE  SymInv /\ Spec0!Init
<1>1. /\ Tables.sym = [s \in Syms |-> Blank] /\ Tables.head = Spec0!Empty /\ Tables.local = <<>> /\ Tables.global = <<>>
      /\ Tables.free = [s \in Syms |-> 1]
  BY DEF Init, Tables, Spec0!Empty
<1>2. Tables \in TableSet
  <2>1. Blank \in Records
    BY SymNumbers DEF Blank, Records
  <2>2. [s \in Syms |-> Blank] \in [Syms -> Records]
    BY <2>1
  <2>3. [s \in Syms |-> 1] \in [Syms -> Nat]
    OBVIOUS
  <2>4. Spec0!Empty \in [Names -> 0..MaxSyms] /\ <<>> \in Seq(Syms)
    BY SymNumbers DEF Spec0!Empty
  <2> QED
    BY <2>2, <2>3, <2>4, <1>1 DEF Tables, TableSet
<1>3. Pool(Tables)
  BY <1>1, <1>2 DEF Pool, Distinct, Stacked
<1>4. Good(Tables, <<Spec0!Empty>>, <<>>, program)
  BY <1>1, <1>3, EmptyGood
<1> QED
  BY <1>4 DEF Init, SymInv, Spec0!Init, Spec0!Empty

LEMMA EndUnitStep ==
    ASSUME SymInv, EndUnit
    PROVE  SymInv' /\ Spec0!End
<1> DEFINE T == Tables
           G == sym_pop(T, "global", 0, FALSE)
           E == sym_pop(G, "local", 0, FALSE)
           U == IF failed THEN [E EXCEPT !.head = Spec0!Empty] ELSE E
<1>1. Pool(T) /\ T \in TableSet /\ T.global \in Seq(Syms) /\ Len(T.global) \in Nat
  BY InvFacts, TableFields
<1>2. Become(U) /\ scopes' = <<Spec0!Empty>> /\ blocks' = <<>> /\ failed' = FALSE /\ program' = program
  BY DEF EndUnit
<1> HIDE DEF T
<1>3. Cut(T, G, "global", 0) /\ G.head = Unlinked(T, "global", 0) /\ G \in TableSet /\ Pool(G)
  <2>1. T["global"] = T.global /\ 0 <= Len(T.global)
    BY <1>1
  <2>2. Unlinked(T, "global", 0) \in [Names -> 0..MaxSyms]
    BY <1>1, UnlinkedType
  <2>3. Cut(T, G, "global", 0) /\ G.head = Unlinked(T, "global", 0)
    BY <2>1, <2>2, <1>1, PopIs
  <2> QED
    BY <2>3 DEF Cut
<1> HIDE DEF G
<1>4. Cut(G, E, "local", 0) /\ E.head = Unlinked(G, "local", 0) /\ E \in TableSet /\ Pool(E)
  <2>1. G["local"] = G.local /\ Len(G.local) \in Nat /\ 0 <= Len(G.local)
    BY <1>3, TableFields
  <2>2. Unlinked(G, "local", 0) \in [Names -> 0..MaxSyms]
    BY <1>3, UnlinkedType
  <2>3. Cut(G, E, "local", 0) /\ E.head = Unlinked(G, "local", 0)
    BY <2>1, <2>2, <1>3, PopIs
  <2> QED
    BY <2>3 DEF Cut
<1> HIDE DEF E
<1>5. E.local = <<>> /\ E.global = <<>> /\ G.local = T.local
  <2>1. E.local = SubSeq(G.local, 1, 0) /\ E.global = G.global /\ G.global = SubSeq(T.global, 1, 0) /\ G.local = T.local
    BY <1>3, <1>4 DEF Cut
  <2>2. G.local \in Seq(Syms)
    BY <1>3, TableFields
  <2> QED
    BY <2>1, <2>2, <1>1
<1>6. U.local = <<>> /\ U.global = <<>> /\ U.head = Spec0!Empty /\ Pool(U)
  <2>1. CASE failed
    <3>1. Spec0!Empty \in [Names -> 0..MaxSyms]
      BY SymNumbers DEF Spec0!Empty
    <3>2. U = [E EXCEPT !.head = Spec0!Empty]
      BY <2>1
    <3> HIDE DEF U
    <3>3. U = [sym |-> E.sym, head |-> Spec0!Empty, local |-> E.local, global |-> E.global, free |-> E.free]
      BY <3>1, <3>2, <1>4, HeadSet
    <3>4. /\ U.sym = E.sym /\ U.head = Spec0!Empty /\ U.local = E.local /\ U.global = E.global /\ U.free = E.free
      BY <3>3
    <3>5. U \in TableSet
      BY <3>1, <3>3, <1>4, TableFields DEF TableSet
    <3>6. Pool(U)
      BY <3>4, <3>5, <1>4 DEF Pool, Stacked
    <3> QED
      BY <3>4, <3>6, <1>5
  <2>2. CASE ~failed
    <3>1. T.local = <<>> /\ Filed(T, scopes[1]) /\ (\A v \in Names : T.head[v] = scopes[1][v])
      BY <2>2, FileFacts DEF EndUnit, T, Tables
    <3>2. ASSUME NEW v \in Names PROVE G.head[v] = Nil
      <4>1. CASE \A i \in 1..Len(T.global) : ~Named(T, "global", i, v)
        <5>1. G.head[v] = scopes[1][v]
          BY <4>1, <3>1, <1>1, <1>3, UnlinkedIs
        <5>2. SUFFICES ASSUME scopes[1][v] # Nil PROVE FALSE
          BY <5>1
        <5>3. PICK i \in 1..Len(T.global) : T.global[i] = scopes[1][v] /\ T.sym[T.global[i]].v = v
          BY <5>2, <3>1 DEF Filed
        <5> QED
          BY <5>3, <4>1 DEF Named
      <4>2. CASE \E i : Lowest(T, "global", 0, v, i)
        <5>1. PICK i : Lowest(T, "global", 0, v, i)
          BY <4>2
        <5>2. G.head[v] = T.sym[T.global[i]].prev_tok
          BY <5>1, <1>1, <1>3, UnlinkedIs
        <5>3. /\ i \in 1..Len(T.global) /\ T.sym[T.global[i]].v = v
              /\ \A k \in 1..(i - 1) : T.sym[T.global[k]].v # v
          BY <5>1 DEF Lowest, Named
        <5>4. v # Anon
          BY SymNumbers
        <5> QED
          BY <5>2, <5>3, <5>4, <3>1 DEF Filed
      <4>3. \/ \A i \in (0 + 1)..Len(T.global) : ~Named(T, "global", i, v)
            \/ \E i : Lowest(T, "global", 0, v, i)
        BY <1>1, UnlinkedIs
      <4> QED
        BY <4>1, <4>2, <4>3
    <3>3. ASSUME NEW v \in Names PROVE E.head[v] = Nil
      <4>1. G["local"] = <<>> /\ Len(<<>>) = 0 /\ <<>> \in Seq(Syms)
        BY <3>1, <1>5
      <4>2. \A i \in (0 + 1)..Len(G["local"]) : ~Named(G, "local", i, v)
        BY <4>1
      <4>3. G["local"] \in Seq(Syms) /\ 0 \in Nat
        BY <4>1
      <4> HIDE DEF T
      <4>4. Unlinked(G, "local", 0)[v] = G.head[v]
        BY <4>2, <4>3, UnlinkedIs
      <4> QED
        BY <4>4, <3>2, <1>4
    <3>4. E.head \in [Names -> 0..MaxSyms]
      BY <1>4, TableFields
    <3>5. E.head = Spec0!Empty
      BY <3>3, <3>4 DEF Spec0!Empty
    <3> QED
      BY <2>2, <3>5, <1>4, <1>5
  <2> QED
    BY <2>1, <2>2
<1> HIDE DEF U
<1>7. Good(U, <<Spec0!Empty>>, <<>>, program)
  BY <1>6, EmptyGood
<1>8. SymInv' /\ Spec0!Publish
  BY <1>2, <1>7, Lands
<1> QED
  BY <1>2, <1>8 DEF Spec0!End

LEMMA SecondIs ==
    ASSUME NEW S, NEW q \in Seq(S), Len(q) = 1, NEW x \in S
    PROVE  LET two == Append(q, x)
           IN  two \in Seq(S) /\ Len(two) = 2 /\ two[1] = q[1] /\ two[2] = x
<1>1. Len(Append(q, x)) = 2 /\ Append(q, x) \in Seq(S)
  OBVIOUS
<1>2. 1 \in 1..Len(q) /\ Len(q) + 1 = 2
  OBVIOUS
<1> QED
  BY <1>1, <1>2, AppendIs

\* A function opens a scope with nothing in it, or its parameter.
LEMMA BeginFunctionStep ==
    ASSUME SymInv, BeginFunction
    PROVE  SymInv' /\ Spec0!OpenWith
<1> DEFINE T == Tables
           P == sym_push2(T, "local", Anon, 0)
           s == Fresh(T)
           r == Fresh(P)
           opened == Append(scopes, Spec0!Empty)
           base == BaseOf(scopes, blocks)
           begins == Append(base, 0)
<1>1. /\ Pool(T) /\ T \in TableSet /\ Tidy(T, scopes, base) /\ scopes \in Seq(OneScope) /\ blocks \in Seq(Blocks)
      /\ program \in Programs /\ failed \in BOOLEAN
      /\ blocks = <<>> /\ Len(blocks) = 0 /\ Len(scopes) = 1 /\ T.local = <<>> /\ Len(T.local) = 0
      /\ Chained(T, scopes[1])
  <2>1. ~InFunction
    BY DEF BeginFunction
  <2>2. blocks = <<>> /\ Len(blocks) = 0 /\ Len(scopes) = 1 /\ local_stack = <<>> /\ Chained(T, scopes[1])
    BY <2>1, FileFacts
  <2>3. /\ Pool(T) /\ T \in TableSet /\ Tidy(T, scopes, base) /\ scopes \in Seq(OneScope) /\ T.local = local_stack
        /\ blocks \in Seq(Blocks) /\ program \in Programs /\ failed \in BOOLEAN
    BY InvFacts
  <2> QED
    BY <2>2, <2>3
<1>2. PICK p \in Names \cup {Anon} :
          LET U == sym_push(P, p, 1)
          IN  Become(U) /\ scopes' = Append(scopes, [v \in Names |-> IF v = p THEN U.head[p] ELSE Nil])
  BY DEF BeginFunction
<1> DEFINE U == sym_push(P, p, 1)
           y == [v |-> Anon, scope |-> 0, prev_tok |-> Nil]
           z == [v |-> p, scope |-> 1, prev_tok |-> Hidden(P, p)]
           scope == [v \in Names |-> IF v = p THEN U.head[p] ELSE Nil]
           after == Append(scopes, scope)
<1>3. HasRoom(2) /\ blocks' = blocks /\ failed' = failed /\ program' = program /\ Become(U) /\ scopes' = after
  BY <1>2 DEF BeginFunction
<1>4. Unused(T) # {} /\ s \in Syms /\ T.free[s] > 0 /\ Unused(T) \ {s} # {}
  BY <1>3, RoomIs, FreshIs
<1>5. Anon \in Names \cup {Anon} /\ 0 \in 0..MaxDepth + 1 /\ 1 \in 0..MaxDepth + 1 /\ y \in Records
  BY SymNumbers DEF Records
<1> HIDE DEF T, base, s
<1>6. /\ OnTop(T, P, "local", s, y) /\ P.head = T.head /\ Pool(P) /\ P \in TableSet /\ Unused(P) # {}
  <2>1. /\ OnTop(T, P, "local", s, y) /\ P.head = T.head /\ Pool(P) /\ Unused(P) = Unused(T) \ {s}
    BY <1>1, <1>4, <1>5, Push2Is DEF s
  <2> QED
    BY <2>1, <1>4 DEF OnTop
<1>7. r \in Syms /\ P.free[r] > 0 /\ StackInUse(P) = "local" /\ P.local # <<>> /\ P.local \in Seq(Syms)
  <2> HIDE DEF P
  <2>1. P.local = Append(T.local, s) /\ P.local \in Seq(Syms) /\ T.local \in Seq(Syms)
    BY <1>1, <1>6, TableFields DEF OnTop
  <2>2. P.local # <<>>
    <3>1. Len(P.local) = 1
      BY <2>1, <1>1, <1>4, AppendIs
    <3> QED
      BY <3>1
  <2>3. StackInUse(P) = "local"
    BY <2>2 DEF StackInUse
  <2>4. r \in Syms /\ P.free[r] > 0
    BY <1>6, FreshIs
  <2> QED
    BY <2>1, <2>2, <2>3, <2>4
<1> HIDE DEF P, r, y
<1>8. /\ OnTop(P, U, "local", r, z) /\ U.head = Found(P, p, r) /\ Pool(U)
  <2>1. p \in Names \cup {Anon} /\ 1 \in 0..MaxDepth + 1 /\ Unused(P) # {} /\ Pool(P) /\ StackInUse(P) = "local"
    BY <1>5, <1>6, <1>7
  <2> QED
    BY ONLY <2>1, PushIs DEF r, U, z
<1>9. z \in Records /\ z.v = p /\ z.scope = 1 /\ (p # Anon => p \in Names /\ z.prev_tok = P.head[p])
  <2>1. p \in Names => P.head[p] \in 0..MaxSyms
    BY <1>6, TableFields
  <2> QED
    BY <2>1, <1>5, SymNumbers DEF Records, Hidden
<1> HIDE DEF z
<1>10. Tidy(T, opened, begins) /\ Len(opened) = 2 /\ opened[1] = scopes[1] /\ opened[2] = Spec0!Empty
      /\ opened \in Seq(OneScope)
  <2>1. Tidy(T, opened, begins)
    BY <1>1, OpenTidy
  <2>2. Spec0!Empty \in OneScope
    BY SymNumbers DEF OneScope, Spec0!Empty
  <2>3. scopes \in Seq(OneScope) /\ Len(scopes) = 1
    BY <1>1
  <2>4. Len(opened) = 2 /\ opened[1] = scopes[1] /\ opened[2] = Spec0!Empty /\ opened \in Seq(OneScope)
    BY <2>2, <2>3, SecondIs
  <2> QED
    BY <2>1, <2>4
<1>15. scope = IF p = Anon THEN Spec0!Empty ELSE [Spec0!Empty EXCEPT ![p] = r]
  <2>1. P.head \in [Names -> 0..MaxSyms]
    BY <1>6, TableFields
  <2>2. CASE p = Anon
    BY <2>2, SymNumbers DEF Spec0!Empty
  <2>3. CASE p # Anon
    <3>1. U.head[p] = r /\ p \in Names
      BY <2>1, <2>3, <1>8, <1>9 DEF Found
    <3> HIDE DEF U
    <3> QED
      BY <2>3, <3>1 DEF Spec0!Empty
  <2> QED
    BY <2>2, <2>3
<1> HIDE DEF scope, U
<1>16. scope \in OneScope /\ r # Nil
  BY <1>7, <1>9, <1>15, SymNumbers DEF OneScope, Spec0!Empty
<1>17. after = IF p = Anon THEN opened ELSE Spec0!Bind(opened, Len(opened), p, r)
  <2>1. CASE p = Anon
    BY <2>1, <1>15
  <2>2. CASE p # Anon
    <3> DEFINE bound == Spec0!Bind(opened, Len(opened), p, r)
    <3> HIDE DEF opened
    <3>1. after \in Seq(OneScope) /\ Len(after) = 2 /\ after[1] = opened[1] /\ after[2] = scope
      <4>1. scopes \in Seq(OneScope) /\ Len(scopes) = 1
        BY <1>1
      <4>2. after \in Seq(OneScope) /\ Len(after) = 2 /\ after[1] = scopes[1] /\ after[2] = scope
        BY <4>1, <1>16, SecondIs
      <4> QED
        BY <4>2, <1>10
    <3> HIDE DEF after
    <3>3. /\ 1 \in 1..(Len(opened) - 1) /\ p \in Names /\ r \in Syms /\ opened \in Seq(OneScope) /\ Len(opened) >= 1
      BY <2>2, <1>7, <1>9, <1>10
    <3>9. /\ bound \in Seq(OneScope) /\ Len(bound) = Len(opened) /\ bound[1] = opened[1] /\ bound[Len(opened)][p] = r
          /\ \A w \in Names : w # p => bound[Len(opened)][w] = opened[Len(opened)][w]
      BY <3>3, LookupBind
    <3>4. /\ bound \in Seq(OneScope) /\ Len(bound) = 2 /\ bound[1] = opened[1] /\ bound[2][p] = r
          /\ \A w \in Names : w # p => bound[2][w] = opened[2][w]
      BY <3>9, <1>10
    <3> HIDE DEF bound
    <3>5. bound[2] \in OneScope
      BY <3>4
    <3>6. bound[2] = scope
      <4>1. \A w \in Names : bound[2][w] = scope[w]
        BY <2>2, <3>3, <3>4, <1>10, <1>15 DEF Spec0!Empty
      <4> QED
        BY <4>1, <3>5, <1>16 DEF OneScope
    <3>7. \A i \in 1..Len(after) : after[i] = bound[i]
      BY <3>1, <3>4, <3>6
    <3>8. after = bound
      BY <3>1, <3>4, <3>7, SeqSame
    <3> QED
      BY <2>2, <3>8 DEF bound
  <2> QED
    BY <2>1, <2>2
<1>18. BaseOf(after, blocks) = begins /\ Len(after) = 2
  <2>1. Opens(scopes, blocks, blocks, 0) /\ 0 \in Nat
    BY <1>1 DEF Opens
  <2>2. Len(after) = 2
    <3>1. scopes \in Seq(OneScope) /\ Len(scopes) = 1
      BY <1>1
    <3> QED
      BY <3>1, <1>16, SecondIs
  <2>3. BaseOf(Append(scopes, scope), blocks) = Append(BaseOf(scopes, blocks), 0)
    BY <2>1, <1>1, <1>16, BaseOpens
  <2> QED
    BY <2>2, <2>3 DEF base
<1> HIDE DEF opened, begins, after
<1>11. Tidy(P, opened, begins) /\ Chained(P, opened[1])
  <2>1. y.v = Anon /\ P.head = Found(T, y.v, s)
    BY <1>6 DEF y, Found
  <2> QED
    BY <2>1, <1>1, <1>4, <1>5, <1>6, <1>10, DeadTidy, ChainedTop
<1>12. Chained(U, opened[1])
  BY <1>6, <1>7, <1>8, <1>9, <1>11, ChainedTop
<1>13. Tidy(U, after, begins) /\ after[1] = opened[1]
  <2>1. CASE p = Anon
    <3>1. U.head = P.head
      BY <2>1, <1>8 DEF Found
    <3> QED
      BY <2>1, <3>1, <1>7, <1>8, <1>9, <1>11, <1>17, DeadTidy
  <2>2. CASE p # Anon
    <3>1. U.head = [P.head EXCEPT ![z.v] = r] /\ z.v # Anon /\ z.prev_tok = P.head[z.v]
      BY <2>2, <1>8, <1>9 DEF Found
    <3>3. /\ Len(opened) >= 2 /\ 1 \in 1..(Len(opened) - 1) /\ p \in Names /\ r \in Syms
          /\ opened \in Seq(OneScope) /\ Len(opened) >= 1
      BY <2>2, <1>7, <1>9, <1>10
    <3>2. Tidy(U, Spec0!Bind(opened, Len(opened), z.v, r), begins)
      BY <3>1, <3>3, <1>7, <1>8, <1>9, <1>11, PushTidy
    <3>4. Spec0!Bind(opened, Len(opened), p, r)[1] = opened[1]
      BY <3>3, LookupBind
    <3> QED
      BY <2>2, <3>2, <3>4, <1>9, <1>17
  <2> QED
    BY <2>1, <2>2
<1>14. Shape(U, after, blocks, program)
  <2>1. U.local # <<>>
    BY <1>7, <1>8 DEF OnTop
  <2> QED
    BY <2>1, <1>1, <1>18, SymNumbers DEF Shape
<1>19. Good(U, after, blocks, program)
  BY <1>12, <1>13, <1>14, <1>18 DEF Good
<1>20. SymInv' /\ Spec0!Publish
  BY <1>1, <1>3, <1>19, Lands
<1>21. scope \in [Names -> Syms \cup {Nil}]
  <2>1. Syms \cup {Nil} = 0..MaxSyms
    BY SymNumbers
  <2> QED
    BY <2>1, <1>16 DEF OneScope
<1> QED
  BY <1>3, <1>20, <1>21 DEF Spec0!OpenWith, after

\* The symbol a name has outside all blocks.
Outside(T, v) == Chain(T, v)[FirstGlobal(T, v)]

\* A global symbol for a name that has none.
LEMMA GlobalGood ==
    ASSUME SymInv, Chained(Tables, scopes[1]), Unused(Tables) # {}, NEW v \in Names, Outside(Tables, v) = Nil
    PROVE  LET U == global_identifier_push(Tables, v)
               s == Fresh(Tables)
               bound == Spec0!Bind(scopes, 1, v, s)
           IN  /\ Good(U, bound, blocks, program) /\ Chained(U, bound[1])
               /\ Unused(U) = Unused(Tables) \ {s} /\ U.sym[s].v = v /\ U.sym[s].scope = 0
               /\ U.local = Tables.local
               /\ scopes[1][v] = Nil /\ s \in Syms
               /\ bound \in Seq(OneScope) /\ Len(bound) = Len(scopes) /\ bound[1][v] = s
<1> DEFINE T == Tables
           U == global_identifier_push(Tables, v)
           s == Fresh(Tables)
           bound == Spec0!Bind(scopes, 1, v, s)
           base == BaseOf(scopes, blocks)
<1>1. /\ Good(T, scopes, blocks, program) /\ Tidy(T, scopes, base) /\ Pool(T) /\ T \in TableSet
      /\ scopes \in Seq(OneScope) /\ Len(scopes) >= 1
  BY InvFacts
<1>2. s \in Syms /\ T.free[s] > 0
  BY FreshIs
<1>3. scopes[1][v] = Nil
  BY <1>1, NoneGlobal DEF Outside
<1> HIDE DEF base
<1>4. LastOf(T, U, v, s)
  BY <1>1, GlobalPushIs DEF Outside
<1> HIDE DEF U, s
<1>5. Tidy(U, bound, base)
  BY <1>1, <1>2, <1>3, <1>4, LastTidy
<1>6. /\ bound \in Seq(OneScope) /\ Len(bound) = Len(scopes) /\ bound[1][v] = s
      /\ \A w \in Names : w # v => bound[1][w] = scopes[1][w]
  BY <1>1, <1>2, <1>3, LookupBindFile
<1> DEFINE G == bound[1]
<1> HIDE DEF bound
<1>7. G[v] = s /\ \A w \in Names : w # v => G[w] = scopes[1][w]
  BY <1>6
<1> HIDE DEF G
<1>8. Chained(U, G)
  BY <1>1, <1>2, <1>3, <1>4, <1>7, LastChained
<1>9. U.local = T.local /\ Unused(U) = Unused(T) \ {s} /\ U.sym[s].v = v /\ U.sym[s].scope = 0
  BY <1>4 DEF LastOf
<1>10. Good(U, bound, blocks, program)
  BY <1>1, <1>5, <1>6, <1>8, <1>9, GoodOf DEF base, G
<1> QED
  BY <1>2, <1>3, <1>6, <1>8, <1>9, <1>10 DEF U, s, bound, G

\* A local copy of a global symbol.
LEMMA CopyGood ==
    ASSUME NEW G, NEW ss, NEW bs, NEW p, Good(G, ss, bs, p), Chained(G, ss[1]), G.local # <<>>, Unused(G) # {},
           NEW g \in Syms, NEW v \in Names, G.sym[g].v = v, ss[1][v] # Nil
    PROVE  Good(sym_copy(G, g), Spec0!Bind(ss, Len(ss), v, Fresh(G)), bs, p)
<1> DEFINE U == sym_copy(G, g)
           s == Fresh(G)
           base == BaseOf(ss, bs)
           bound == Spec0!Bind(ss, Len(ss), v, s)
           y == [v |-> v, scope |-> G.sym[g].scope, prev_tok |-> G.head[v]]
<1>1. Tidy(G, ss, base) /\ Pool(G) /\ G \in TableSet /\ ss \in Seq(OneScope) /\ bs \in Seq(Blocks)
      /\ Len(ss) = Len(bs) + 2
  BY OrderedIs DEF Good, Tidy, Pool, Shape
<1>2. Len(ss) >= 2 /\ Len(ss) \in Nat /\ Len(ss) >= 1 /\ 1 \in 1..(Len(ss) - 1)
  BY <1>1
<1>3. s \in Syms /\ G.free[s] > 0 /\ v # Anon
  BY FreshIs, SymNumbers
<1>4. OnTop(G, U, "local", s, y) /\ U.head = [G.head EXCEPT ![v] = s] /\ Pool(U)
  BY <1>1, CopyIs
<1>5. y \in Records /\ y.v = v /\ y.prev_tok = G.head[v]
  <2>1. G.head[v] \in 0..MaxSyms /\ G.sym[g] \in Records
    BY <1>1, TableFields
  <2> QED
    BY <2>1 DEF Records
<1> HIDE DEF U, s, y, base
<1>6. Tidy(U, Spec0!Bind(ss, Len(ss), y.v, s), base)
  BY <1>1, <1>2, <1>3, <1>4, <1>5, PushTidy
<1>7. bound[1] = ss[1] /\ Len(bound) = Len(ss)
  BY <1>1, <1>2, <1>3, LookupBind
<1>8. Chained(U, ss[1])
  <2>1. U.head = Found(G, y.v, s)
    BY <1>3, <1>4, <1>5 DEF Found
  <2>2. ss[1][y.v] # Nil
    BY <1>5
  <2>3. /\ Pool(G) /\ G.free[s] > 0 /\ y \in Records /\ s \in Syms /\ OnTop(G, U, "local", s, y)
        /\ y.v # Anon => y.prev_tok = G.head[y.v] /\ (y.scope = 0 => ss[1][y.v] # Nil)
    BY <2>2, <1>1, <1>3, <1>4, <1>5
  <2> QED
    BY ONLY <2>1, <2>3, Chained(G, ss[1]), ChainedTop
<1>9. U.local # <<>>
  <2>1. U.local = Append(G.local, s) /\ G.local \in Seq(Syms)
    BY <1>1, <1>4, TableFields DEF OnTop
  <2> QED
    BY <2>1, <1>3
<1> HIDE DEF bound
<1>10. Tidy(U, bound, base) /\ (p.externals => Chained(U, bound[1]))
  BY <1>5, <1>6, <1>7, <1>8 DEF bound
<1>11. Good(U, bound, bs, p)
  BY <1>7, <1>9, <1>10, GoodOf DEF base
<1> QED
  BY <1>11 DEF U, bound, s

LEMMA ExternalStep ==
    ASSUME SymInv, NEW v \in Names, NEW is_func \in BOOLEAN, External(v, is_func)
    PROVE  SymInv' /\ Spec0!DeclareExternal
<1> DEFINE T == Tables
           r == Outside(T, v)
           G == IF r = Nil THEN global_identifier_push(T, v) ELSE T
           g == IF r = Nil THEN Fresh(T) ELSE r
           copied == InFunction /\ ~is_func
           global == IF r = Nil THEN Spec0!Bind(scopes, 1, v, g) ELSE scopes
           U == IF copied THEN sym_copy(G, g) ELSE G
           after == IF copied THEN Spec0!Bind(global, Here, v, Fresh(G)) ELSE global
<1>1. HasRoom(2) /\ Become(U) /\ scopes' = after /\ blocks' = blocks /\ failed' = failed /\ program' = program
  BY DEF External, Outside
<1>2. /\ Good(T, scopes, blocks, program) /\ Tidy(T, scopes, BaseOf(scopes, blocks)) /\ T.local = local_stack
      /\ program \in Programs /\ failed \in BOOLEAN /\ (program.externals => Chained(T, scopes[1]))
      /\ scopes \in Seq(OneScope)
  BY InvFacts
<1>3. Chained(T, scopes[1])
  <2>1. CASE InFunction
    BY <2>1, <1>2 DEF External
  <2>2. CASE ~InFunction
    BY <2>2, FileFacts
  <2> QED
    BY <2>1, <2>2
<1>4. Unused(T) # {} /\ Unused(T) \ {Fresh(T)} # {}
  BY <1>1, RoomIs
<1> HIDE DEF T, r
<1>5. /\ Good(G, global, blocks, program) /\ Chained(G, global[1]) /\ Unused(G) # {} /\ G.local = T.local
      /\ g \in Syms /\ G.sym[g].v = v /\ global[1][v] # Nil /\ Len(global) = Len(scopes)
      /\ global = IF scopes[1][v] = Nil THEN Spec0!Bind(scopes, 1, v, g) ELSE scopes
  <2>1. CASE r = Nil
    <3>1. G = global_identifier_push(T, v) /\ g = Fresh(T) /\ global = Spec0!Bind(scopes, 1, v, g)
      BY <2>1
    <3> HIDE DEF G, g, global
    <3>2. /\ Good(G, global, blocks, program) /\ Chained(G, global[1])
          /\ Unused(G) = Unused(T) \ {g} /\ G.sym[g].v = v /\ G.local = T.local
          /\ scopes[1][v] = Nil /\ g \in Syms /\ Len(global) = Len(scopes) /\ global[1][v] = g
      BY <2>1, <3>1, <1>3, <1>4, GlobalGood DEF T, r
    <3> QED
      BY <3>1, <3>2, <1>4, SymNumbers
  <2>2. CASE r # Nil
    <3>1. G = T /\ g = r /\ global = scopes
      BY <2>2
    <3>2. r \in Syms /\ T.sym[r].v = v /\ scopes[1][v] # Nil
      BY <2>2, <1>2, <1>3, NoneGlobal DEF r, Outside
    <3> QED
      BY <3>1, <3>2, <1>2, <1>3, <1>4
  <2> QED
    BY <2>1, <2>2
<1> HIDE DEF G, g, global
<1>6. Good(U, after, blocks, program)
  <2>1. CASE copied
    <3>1. G.local # <<>> /\ Here = Len(global)
      BY <2>1, <1>2, <1>5 DEF InFunction, Here
    <3>2. Good(sym_copy(G, g), Spec0!Bind(global, Len(global), v, Fresh(G)), blocks, program)
      BY <3>1, <1>5, CopyGood
    <3> QED
      BY <2>1, <3>1, <3>2
  <2>2. CASE ~copied
    BY <2>2, <1>5
  <2> QED
    BY <2>1, <2>2
<1>7. SymInv' /\ Spec0!Publish
  <2> HIDE DEF U, after
  <2> QED
    BY <1>1, <1>2, <1>6, Lands
<1>8. \E s \in Syms \cup {Nil} : after = IF s = Nil THEN global ELSE Spec0!Bind(global, Len(scopes), v, s)
  <2>1. CASE copied
    <3>1. Fresh(G) \in Syms /\ Fresh(G) # Nil
      BY <1>5, FreshIs, SymNumbers
    <3> QED
      BY <2>1, <3>1 DEF Here
  <2>2. CASE ~copied
    BY <2>2
  <2> QED
    BY <2>1, <2>2
<1> HIDE DEF U, after
<1> QED
  BY <1>1, <1>5, <1>7, <1>8 DEF Spec0!DeclareExternal

LEMMA ImplicitFunctionStep ==
    ASSUME SymInv, NEW v \in Names, ImplicitFunction(v)
    PROVE  SymInv' /\ Spec0!DeclareExternal
<1> DEFINE T == Tables
           c == Chain(T, v)
           n == FirstGlobal(T, v)
           s == Fresh(T)
           bound == Spec0!Bind(scopes, 1, v, s)
           U == global_identifier_push(T, v)
<1>1. /\ HasRoom(1) /\ program.externals /\ head[v] = Nil /\ Become(U)
      /\ scopes' = bound /\ blocks' = blocks /\ failed' = failed /\ program' = program
  BY DEF ImplicitFunction
<1>2. /\ Tidy(T, scopes, BaseOf(scopes, blocks)) /\ T.head = head
      /\ program \in Programs /\ failed \in BOOLEAN /\ Chained(T, scopes[1])
  BY <1>1, InvFacts
<1>3. Unused(T) # {}
  BY <1>1, RoomIs
<1>4. Outside(T, v) = Nil
  <2>1. c[0] = Nil
    BY <1>1, <1>2, ChainIs
  <2>2. n \in 0..MaxSyms /\ \A m \in 0..(n - 1) : c[m] # Nil
    BY <1>2, FirstGlobalIs
  <2> HIDE DEF c, n
  <2>3. n = 0
    BY <2>1, <2>2
  <2> QED
    BY <2>1, <2>3 DEF Outside, c, n
<1>5. Good(U, bound, blocks, program) /\ scopes[1][v] = Nil /\ s \in Syms
  BY <1>2, <1>3, <1>4, GlobalGood
<1> HIDE DEF U, s
<1>6. SymInv' /\ Spec0!Publish
  <2> HIDE DEF bound
  <2> QED
    BY <1>1, <1>2, <1>5, Lands
<1>7. scopes' = Spec0!Bind(scopes, 1, v, s) /\ Nil \in Syms \cup {Nil}
  BY <1>1
<1> QED
  BY <1>5, <1>6, <1>7 DEF Spec0!DeclareExternal

\* A symbol on top that no chain finds.
Dead(T, U, where, s, y) == OnTop(T, U, where, s, y) /\ Pool(U) /\ U.head = T.head

\* E has two more symbols than T on a stack, for different names.
TwoMore(T, E, where, s, r, p, e) ==
    /\ E[where] = Append(Append(T[where], s), r) /\ p # e
    /\ E.sym[s].v = p /\ E.sym[s].prev_tok = T.head[p]
    /\ E.sym[r].v = e /\ (e # Anon => E.sym[r].prev_tok = T.head[e])
    /\ \A v \in Names : v # p /\ v # e => E.head[v] = T.head[v]

\* Two names that leave their chains and stay on the stack.
LEMMA TwoUnlinked ==
    ASSUME NEW T \in TableSet, NEW E \in TableSet, NEW where \in {"local", "global"}, NEW s \in Syms, NEW r \in Syms,
           NEW p \in Names, NEW e \in Names \cup {Anon}, TwoMore(T, E, where, s, r, p, e)
    PROVE  Unlinked(E, where, Len(T[where])) = T.head
<1> DEFINE n == Len(T[where])
           h == Unlinked(E, where, n)
<1>1. /\ T[where] \in Seq(Syms) /\ E[where] \in Seq(Syms) /\ n \in Nat /\ T.head \in [Names -> 0..MaxSyms]
  BY TableFields
<1>2. h \in [Names -> 0..MaxSyms]
  BY <1>1, UnlinkedType
<1>3. /\ Len(E[where]) = n + 2 /\ E[where][n + 1] = s /\ E[where][n + 2] = r
  <2>1. /\ Append(T[where], s) \in Seq(Syms) /\ Len(Append(T[where], s)) = n + 1
        /\ Append(T[where], s)[n + 1] = s
    BY <1>1, AppendIs
  <2> DEFINE q == Append(T[where], s)
  <2> HIDE DEF q
  <2>2. q \in Seq(Syms) /\ Len(q) = n + 1 /\ q[n + 1] = s /\ n + 1 \in 1..Len(q)
    BY <2>1, <1>1 DEF q
  <2>3. Len(Append(q, r)) = Len(q) + 1 /\ Append(q, r)[Len(q) + 1] = r /\ Append(q, r)[n + 1] = q[n + 1]
    BY <2>2, AppendIs
  <2>4. E[where] = Append(q, r) /\ Len(q) + 1 = n + 2
    BY <2>2, <1>1 DEF q, TwoMore
  <2> QED
    BY <2>2, <2>3, <2>4
<1>6. /\ p # e /\ E.sym[s].v = p /\ E.sym[s].prev_tok = T.head[p]
      /\ E.sym[r].v = e /\ (e # Anon => E.sym[r].prev_tok = T.head[e])
      /\ \A v \in Names : v # p /\ v # e => E.head[v] = T.head[v]
  BY DEF TwoMore
<1> HIDE DEF n, h
<1>4. \A i \in (n + 1)..Len(E[where]) : i = n + 1 \/ i = n + 2
  BY <1>1, <1>3
<1>5. ASSUME NEW v \in Names PROVE h[v] = T.head[v]
  <2>1. CASE v = p
    <3>1. Lowest(E, where, n, v, n + 1)
      <4>1. n + 1 \in (n + 1)..Len(E[where]) /\ (n + 1)..((n + 1) - 1) = {}
        BY <1>1, <1>3
      <4> QED
        BY <2>1, <4>1, <1>3, <1>6 DEF Lowest, Named
    <3>2. h[v] = E.sym[E[where][n + 1]].prev_tok
      BY <3>1, <1>1, UnlinkedIs DEF h
    <3> QED
      BY <2>1, <3>2, <1>3, <1>6
  <2>2. CASE v = e
    <3>1. Lowest(E, where, n, v, n + 2)
      <4>1. n + 2 \in (n + 1)..Len(E[where]) /\ \A k \in (n + 1)..((n + 2) - 1) : k = n + 1
        BY <1>1, <1>3
      <4> QED
        BY <2>2, <4>1, <1>3, <1>6 DEF Lowest, Named
    <3>2. h[v] = E.sym[E[where][n + 2]].prev_tok
      BY <3>1, <1>1, UnlinkedIs DEF h
    <3> QED
      BY <2>2, <3>2, <1>3, <1>6, SymNumbers
  <2>3. CASE v # p /\ v # e
    <3>1. \A i \in (n + 1)..Len(E[where]) : ~Named(E, where, i, v)
      BY <2>3, <1>3, <1>4, <1>6 DEF Named
    <3>2. h[v] = E.head[v]
      BY <3>1, <1>1, UnlinkedIs DEF h
    <3> QED
      BY <2>3, <3>2, <1>6
  <2> QED
    BY <2>1, <2>2, <2>3
<1> QED
  BY <1>1, <1>2, <1>5 DEF h, n

LEMMA PoolSame ==
    ASSUME NEW T, Pool(T), NEW U \in TableSet, U.local = T.local, U.global = T.global, U.free = T.free
    PROVE  Pool(U)
BY DEF Pool, Stacked

\* U is T, except that s has lost its name and the heads are h.
Rename(T, h, s) == [[T EXCEPT !.head = h] EXCEPT !.sym[s].v = Anon]
Unnamed(y) == [v |-> Anon, scope |-> y.scope, prev_tok |-> y.prev_tok]
Renames(T, U, h, s) ==
    /\ U \in TableSet /\ U.local = T.local /\ U.global = T.global /\ U.free = T.free /\ U.head = h
    /\ U.sym = [T.sym EXCEPT ![s] = Unnamed(T.sym[s])]

LEMMA Renamed ==
    ASSUME NEW T \in TableSet, NEW h \in [Names -> 0..MaxSyms], NEW s \in Syms
    PROVE  Renames(T, Rename(T, h, s), h, s)
<1> DEFINE K == [T EXCEPT !.head = h]
           U == Rename(T, h, s)
           y == Unnamed(T.sym[s])
<1>1. T.sym[s] \in Records /\ T.sym \in [Syms -> Records]
  BY TableFields
<1>2. y \in Records /\ [T.sym[s] EXCEPT !.v = Anon] = y
  BY <1>1 DEF Records, Unnamed
<1>3. K = [sym |-> T.sym, head |-> h, local |-> T.local, global |-> T.global, free |-> T.free]
  BY HeadSet
<1>4. U = [sym |-> [T.sym EXCEPT ![s] = [T.sym[s] EXCEPT !.v = Anon]], head |-> h, local |-> T.local,
           global |-> T.global, free |-> T.free]
  <2>1. U = [K EXCEPT !.sym[s].v = Anon]
    BY DEF Rename
  <2> HIDE DEF U, K
  <2> QED
    BY <2>1, <1>3, <1>1
<1> HIDE DEF U, y
<1>5. [T.sym EXCEPT ![s] = [T.sym[s] EXCEPT !.v = Anon]] = [T.sym EXCEPT ![s] = y]
  BY <1>2
<1>6. [T.sym EXCEPT ![s] = y] \in [Syms -> Records]
  BY <1>1, <1>2
<1>7. /\ U.sym = [T.sym EXCEPT ![s] = y] /\ U.head = h /\ U.local = T.local /\ U.global = T.global /\ U.free = T.free
      /\ U = [sym |-> [T.sym EXCEPT ![s] = y], head |-> h, local |-> T.local, global |-> T.global, free |-> T.free]
  BY <1>4, <1>5
<1>8. U \in TableSet
  BY <1>6, <1>7, TableFields DEF TableSet
<1>9. Renames(T, U, h, s)
  BY <1>7, <1>8 DEF Renames, y
<1> QED
  BY <1>9 DEF U

\* sym_push of y.
Pushed(T, U, where, s, y) == OnTop(T, U, where, s, y) /\ Pool(U) /\ U.head = Found(T, y.v, s)

\* The tables while the parameters of a prototype are read, and after.
LEMMA ProtoIs ==
    ASSUME NEW T, Pool(T), NEW where \in {"local", "global"},
           NEW s \in Syms, NEW r \in Syms, s # r, NEW y \in Records, NEW z \in Records,
           NEW P, Pushed(T, P, where, s, y), NEW E, Pushed(P, E, where, r, z),
           y.v \in Names, y.prev_tok = T.head[y.v], z.v # y.v, z.v \in Names => z.prev_tok = T.head[z.v]
    PROVE  LET U == [sym_pop(E, where, Len(T[where]), TRUE) EXCEPT !.sym[s].v = Anon]
           IN  \E Q : Dead(T, Q, where, s, Unnamed(y)) /\ Dead(Q, U, where, r, z)
<1> DEFINE n == Len(T[where])
           K == sym_pop(E, where, n, TRUE)
           U == [K EXCEPT !.sym[s].v = Anon]
           Q == Rename(P, T.head, s)
           gone == Unnamed(y)
           p == y.v
           e == z.v
<1>1. /\ T \in TableSet /\ P \in TableSet /\ E \in TableSet /\ T.sym \in [Syms -> Records]
      /\ T.head \in [Names -> 0..MaxSyms] /\ p \in Names /\ p # Anon /\ e \in Names \cup {Anon}
      /\ n \in Nat /\ T[where] \in Seq(Syms)
  BY TableFields, SymNumbers DEF Pool, Pushed, Records
<1>2. /\ P.sym = [T.sym EXCEPT ![s] = y] /\ P.free = [T.free EXCEPT ![s] = @ - 1]
      /\ P.local = (IF where = "local" THEN Append(T.local, s) ELSE T.local)
      /\ P.global = (IF where = "local" THEN T.global ELSE Append(T.global, s))
      /\ P.head = [T.head EXCEPT ![p] = s] /\ Pool(P)
  BY <1>1 DEF Pushed, OnTop, Found
<1>3. /\ E.sym = [P.sym EXCEPT ![r] = z] /\ E.free = [P.free EXCEPT ![r] = @ - 1]
      /\ E.local = (IF where = "local" THEN Append(P.local, r) ELSE P.local)
      /\ E.global = (IF where = "local" THEN P.global ELSE Append(P.global, r))
      /\ E.head = Found(P, e, r) /\ Pool(E)
  BY DEF Pushed, OnTop
<1> HIDE DEF n, p, e
<1>4. P.sym[s] = y /\ E.sym[s] = y /\ E.sym[r] = z
  BY <1>1, <1>2, <1>3
<1>5. TwoMore(T, E, where, s, r, p, e)
  <2>1. E[where] = Append(Append(T[where], s), r)
    <3>1. CASE where = "local"
      BY <3>1, <1>2, <1>3
    <3>2. CASE where = "global"
      BY <3>2, <1>2, <1>3
    <3> QED
      BY <3>1, <3>2
  <2>2. \A v \in Names : v # p /\ v # e => E.head[v] = T.head[v]
    BY <1>1, <1>2, <1>3 DEF Found
  <2>3. p # e /\ y.v = p /\ y.prev_tok = T.head[p] /\ z.v = e /\ (e # Anon => z.prev_tok = T.head[e])
    BY <1>1 DEF p, e
  <2> QED
    BY <2>1, <2>2, <2>3, <1>4 DEF TwoMore
<1>6. Unlinked(E, where, n) = T.head
  BY <1>1, <1>5, TwoUnlinked DEF n
<1>7. K = [E EXCEPT !.head = T.head]
  BY <1>6 DEF sym_pop
<1>8. U = Rename(E, T.head, s)
  BY <1>7 DEF Rename
<1> HIDE DEF K, U, Q
<1>9. /\ U \in TableSet /\ U.local = E.local /\ U.global = E.global /\ U.free = E.free /\ U.head = T.head
      /\ U.sym = [E.sym EXCEPT ![s] = gone]
  <2>1. Renames(E, U, T.head, s)
    BY <1>1, <1>8, Renamed
  <2> HIDE DEF gone
  <2> QED
    BY <2>1, <1>4 DEF Renames, gone
<1>10. /\ Q \in TableSet /\ Q.local = P.local /\ Q.global = P.global /\ Q.free = P.free /\ Q.head = T.head
       /\ Q.sym = [P.sym EXCEPT ![s] = gone]
  <2>1. Renames(P, Q, T.head, s)
    BY <1>1, Renamed DEF Q
  <2> HIDE DEF gone
  <2> QED
    BY <2>1, <1>4 DEF Renames, gone
<1> HIDE DEF gone
<1>11. Pool(U) /\ Pool(Q)
  BY <1>2, <1>3, <1>9, <1>10, PoolSame
<1>12. Dead(T, Q, where, s, gone)
  <2>1. Q.sym = [T.sym EXCEPT ![s] = gone]
    BY <1>1, <1>2, <1>10
  <2> QED
    BY <2>1, <1>2, <1>10, <1>11 DEF Dead, OnTop
<1>13. Dead(Q, U, where, r, z)
  <2>1. U.sym = [Q.sym EXCEPT ![r] = z]
    BY <1>1, <1>2, <1>3, <1>9, <1>10
  <2> QED
    BY <2>1, <1>3, <1>9, <1>10, <1>11 DEF Dead, OnTop
<1> QED
  BY <1>12, <1>13 DEF U, K, gone, n

\* Two symbols on the local stack that no chain finds.
LEMMA DeadGood ==
    ASSUME NEW T, NEW ss, NEW bs, NEW p, Good(T, ss, bs, p), T.local # <<>>, NEW U, NEW s \in Syms, T.free[s] > 0,
           NEW y \in Records, Dead(T, U, "local", s, y), y.v # Anon => y.prev_tok = T.head[y.v],
           p.externals => y.v = Anon
    PROVE  Good(U, ss, bs, p) /\ U.local # <<>>
<1>1. Tidy(T, ss, BaseOf(ss, bs)) /\ Pool(T) /\ T \in TableSet /\ (p.externals => Chained(T, ss[1]))
  BY DEF Good, Tidy, Pool
<1>2. OnTop(T, U, "local", s, y) /\ Pool(U) /\ U.head = T.head
  BY DEF Dead
<1>3. Tidy(U, ss, BaseOf(ss, bs))
  BY <1>1, <1>2, DeadTidy
<1>4. p.externals => Chained(U, ss[1])
  <2>1. SUFFICES ASSUME p.externals PROVE Chained(U, ss[1])
    OBVIOUS
  <2>2. y.v = Anon /\ U.head = Found(T, y.v, s)
    BY <2>1, <1>2 DEF Found
  <2> QED
    BY <2>1, <2>2, <1>1, <1>2, ChainedTop
<1>5. U.local # <<>>
  <2>1. U.local = Append(T.local, s) /\ T.local \in Seq(Syms)
    BY <1>1, <1>2, TableFields DEF OnTop
  <2> QED
    BY <2>1
<1> QED
  BY <1>3, <1>4, <1>5, GoodOf

\* A symbol on the global stack that no chain finds.
Unfiled(y, F) == y.v # Anon => y.v \in Names /\ y.scope # 0 /\ y.prev_tok = F[y.v]

LEMMA DeadFiled ==
    ASSUME NEW T, Pool(T), NEW F \in OneScope, Filed(T, F), NEW U, NEW s \in Syms, T.free[s] > 0, NEW y \in Records,
           Dead(T, U, "global", s, y), Unfiled(y, F)
    PROVE  Pool(U) /\ Filed(U, F) /\ U.head = T.head /\ U.local = T.local
<1>1. /\ OnTop(T, U, "global", s, y) /\ Pool(U) /\ U.head = T.head /\ T \in TableSet
  BY DEF Dead, Pool
<1>2. U.sym = [T.sym EXCEPT ![s] = y] /\ U.local = T.local /\ U.global = Append(T.global, s)
  BY <1>1 DEF OnTop
<1>3. \A i \in 1..Len(T.global) : T.global[i] # s /\ T.global[i] \in Syms
  <2>1. OneMoreGlobal(T, U, s)
    BY <1>2, GlobalTop
  <2> QED
    BY <2>1 DEF OneMoreGlobal
<1>4. U.sym[s] = y /\ \A i \in 1..Len(T.global) : U.sym[T.global[i]] = T.sym[T.global[i]]
  BY <1>1, <1>2, <1>3, TableFields
<1>5. Filed(U, F)
  BY <1>2, <1>4, FiledDead DEF Unfiled
<1> QED
  BY <1>1, <1>2, <1>5

LEMMA PrototypeStep ==
    ASSUME SymInv, NeverBoth, Prototype
    PROVE  SymInv' /\ UNCHANGED scopes /\ UNCHANGED head
<1> DEFINE T == Tables
           where == StackInUse(T)
           first == Fresh(T)
           scope == local_scope + 1
<1>1. /\ Good(T, scopes, blocks, program) /\ Pool(T) /\ T \in TableSet /\ T.local = local_stack /\ T.head = head
      /\ T.local \in Seq(Syms) /\ program \in Programs /\ failed \in BOOLEAN /\ scopes \in Seq(OneScope)
      /\ Tidy(T, scopes, BaseOf(scopes, blocks)) /\ local_scope \in 0..MaxDepth + 1 /\ local_scope + 1 \in 0..MaxDepth + 1
      /\ Len(blocks) \in Nat
  BY InvFacts
<1>2. HasRoom(2) /\ blocks' = blocks /\ scopes' = scopes /\ program' = program
  BY DEF Prototype
<1>3. scope \in 1..MaxDepth + 1 /\ scope \in 0..MaxDepth + 1 /\ where \in {"local", "global"}
  BY <1>1, SymNumbers DEF local_scope, StackInUse
<1>4. Unused(T) # {} /\ Unused(T) \ {first} # {} /\ first \in Syms /\ T.free[first] > 0
  BY <1>2, RoomIs, FreshIs
<1>5. PICK p \in Names, e \in (IF program.exprs THEN Names \cup {Anon} ELSE {Anon}) :
          LET P == sym_push(T, p, scope)
              E == sym_push(P, e, scope)
              K == sym_pop(E, where, Len(T[where]), TRUE)
          IN  IF p = e
              THEN failed' = TRUE /\ UNCHANGED tables
              ELSE Become([K EXCEPT !.sym[first].v = Anon]) /\ UNCHANGED failed
  BY DEF Prototype
<1> HIDE DEF T, where, first, scope
<1>6. CASE p = e
  <2>1. failed' = TRUE /\ Become(T) /\ head' = head
    BY <1>5, <1>6 DEF tables, T, Tables, Become
  <2>2. SymInv'
    BY <1>1, <1>2, <2>1, Lands
  <2> QED
    BY <1>2, <2>1, <2>2
<1>7. CASE p # e
  <2> DEFINE P == sym_push(T, p, scope)
             E == sym_push(P, e, scope)
             second == Fresh(P)
             U == [sym_pop(E, where, Len(T[where]), TRUE) EXCEPT !.sym[first].v = Anon]
             y == [v |-> p, scope |-> scope, prev_tok |-> Hidden(T, p)]
             z == [v |-> e, scope |-> scope, prev_tok |-> Hidden(P, e)]
  <2>1. Become(U) /\ failed' = failed
    BY <1>5, <1>7
  <2>2. p \in Names \cup {Anon} /\ e \in Names \cup {Anon} /\ p # Anon
    BY SymNumbers
  <2>3. Pushed(T, P, where, first, y) /\ Unused(P) = Unused(T) \ {first} /\ Unused(P) # {}
    <3>1. OnTop(T, P, where, first, y) /\ P.head = Found(T, p, first) /\ Pool(P) /\ Unused(P) = Unused(T) \ {first}
      BY <2>2, <1>1, <1>3, <1>4, PushIs DEF first, where
    <3>2. y.v = p
      OBVIOUS
    <3> HIDE DEF P, y
    <3> QED
      BY <3>1, <3>2, <1>4 DEF Pushed
  <2>4. StackInUse(P) = where /\ Pool(P) /\ P.head = [T.head EXCEPT ![p] = first]
    <3>1. P.local = IF where = "local" THEN Append(T.local, first) ELSE T.local
      BY <2>3 DEF OnTop, Pushed
    <3>2. where = IF T.local # <<>> THEN "local" ELSE "global"
      BY DEF where, StackInUse
    <3>3. Pool(P) /\ P.head = Found(T, p, first)
      BY <2>3 DEF Pushed
    <3> HIDE DEF P
    <3> QED
      BY <3>1, <3>2, <3>3, <2>2, <1>1, <1>4 DEF StackInUse, Found
  <2> HIDE DEF P, second
  <2>5. second \in Syms /\ P.free[second] > 0 /\ second # first
    <3>1. second \in Syms /\ P.free[second] > 0
      BY <2>3, FreshIs DEF second
    <3> QED
      BY <3>1, <2>3 DEF Unused
  <2>6. Pushed(P, E, where, second, z)
    <3>1. OnTop(P, E, where, second, z) /\ E.head = Found(P, e, second) /\ Pool(E)
      <4> HIDE DEF where, scope
      <4>1. Pool(P) /\ Unused(P) # {} /\ e \in Names \cup {Anon} /\ scope \in 0..MaxDepth + 1 /\ StackInUse(P) = where
        BY <2>2, <2>3, <2>4, <1>3
      <4> QED
        BY <4>1, PushIs DEF second
    <3>2. z.v = e
      OBVIOUS
    <3> HIDE DEF E, z
    <3> QED
      BY <3>1, <3>2 DEF Pushed
  <2>7. /\ y \in Records /\ y.v = p /\ y.prev_tok = T.head[p]
        /\ z \in Records /\ z.v = e /\ z.scope # 0 /\ (e \in Names => z.prev_tok = T.head[e])
        /\ (program.externals => e = Anon)
    <3>1. T.head[p] \in 0..MaxSyms /\ (e \in Names => T.head[e] \in 0..MaxSyms /\ P.head[e] = T.head[e])
      BY <2>4, <1>1, <1>7, TableFields
    <3>2. program.externals => e = Anon
      BY <1>1 DEF NeverBoth
    <3> QED
      BY <2>2, <3>1, <3>2, <1>3, SymNumbers DEF Records, Hidden
  <2> HIDE DEF E, y, z
  <2>8. PICK Q : Dead(T, Q, where, first, Unnamed(y)) /\ Dead(Q, U, where, second, z)
    BY <1>1, <1>3, <1>4, <1>7, <2>3, <2>5, <2>6, <2>7, ProtoIs
  <2> DEFINE gone == Unnamed(y)
  <2>9. gone \in Records /\ gone.v = Anon
    BY <2>7 DEF Records, Unnamed
  <2> HIDE DEF U, gone
  <2>10. Q.head = T.head /\ Q.free[second] > 0 /\ U.head = Q.head
    <3>1. Q.free = [T.free EXCEPT ![first] = @ - 1] /\ P.free = [T.free EXCEPT ![first] = @ - 1]
      BY <2>3, <2>8 DEF Dead, OnTop, Pushed
    <3> QED
      BY <2>5, <2>8, <3>1 DEF Dead
  <2>11. Good(U, scopes, blocks, program)
    <3>1. CASE T.local # <<>>
      <4>1. where = "local"
        BY <3>1 DEF where, StackInUse
      <4>2. Dead(T, Q, "local", first, gone) /\ Dead(Q, U, "local", second, z)
        BY <4>1, <2>8 DEF gone
      <4>3. Good(Q, scopes, blocks, program) /\ Q.local # <<>>
        BY <3>1, <4>2, <2>9, <1>1, <1>4, DeadGood
      <4>4. z.v # Anon => z.prev_tok = Q.head[z.v]
        BY <2>2, <2>7, <2>10
      <4> QED
        BY <4>2, <4>3, <4>4, <2>5, <2>7, <2>10, DeadGood
    <3>2. CASE T.local = <<>>
      <4>1. where = "global"
        BY <3>2 DEF where, StackInUse
      <4>2. /\ Len(scopes) = 1 /\ scopes[1] \in OneScope
            /\ BaseOf(scopes, blocks) \in Seq(Nat) /\ Len(BaseOf(scopes, blocks)) = 1 /\ BaseOf(scopes, blocks)[1] = 0
            /\ Filed(T, scopes[1]) /\ (\A v \in Names : T.head[v] = scopes[1][v])
        <5>1. ~InFunction
          BY <3>2, <1>1 DEF InFunction
        <5> QED
          BY <5>1, FileFacts DEF T
      <4>3. Dead(T, Q, "global", first, gone) /\ Dead(Q, U, "global", second, z)
        BY <4>1, <2>8 DEF gone
      <4> DEFINE F == scopes[1]
      <4>4. F \in OneScope /\ Filed(T, F) /\ Unfiled(gone, F) /\ Unfiled(z, F)
        <5>1. Unfiled(gone, F)
          BY <2>9 DEF Unfiled
        <5>2. \A v \in Names : T.head[v] = F[v]
          BY <4>2
        <5> HIDE DEF F
        <5>3. e # Anon => e \in Names /\ z.prev_tok = F[e]
          BY <5>2, <2>2, <2>7
        <5>4. Unfiled(z, F)
          BY <5>3, <2>7 DEF Unfiled
        <5> QED
          BY <5>1, <5>4, <4>2 DEF F
      <4> HIDE DEF F
      <4>5. Pool(Q) /\ Filed(Q, F) /\ Q.local = T.local
        BY <4>3, <4>4, <2>9, <1>1, <1>4, DeadFiled
      <4>6. Pool(U) /\ Filed(U, F) /\ U.local = Q.local
        BY <4>3, <4>4, <4>5, <2>5, <2>7, <2>10, DeadFiled
      <4>7. Tidy(U, scopes, BaseOf(scopes, blocks)) /\ Chained(U, scopes[1])
        BY <3>2, <4>2, <4>5, <4>6, <2>10, <1>1, FileTidy DEF F
      <4> QED
        BY <3>2, <4>5, <4>6, <4>7, <1>1, GoodOf
    <3> QED
      BY <3>1, <3>2
  <2>12. SymInv' /\ head' = head
    <3>1. SymInv'
      BY <1>1, <1>2, <2>1, <2>11, Lands
    <3> QED
      BY <3>1, <1>1, <2>1, <2>10 DEF Become
  <2> QED
    BY <1>2, <2>12
<1> QED
  BY <1>6, <1>7

-----------------------------------------------------------------------------
(* The theorems *)

\* A step that leaves the tables alone keeps the invariant.
LEMMA StutterStep ==
    ASSUME SymInv, UNCHANGED vars
    PROVE  SymInv' /\ UNCHANGED Spec0!vars
<1>1. Tables' = Tables /\ scopes' = scopes /\ blocks' = blocks /\ program' = program /\ failed' = failed
  BY DEF vars, tables, Tables
<1>2. SymInv'
  BY <1>1 DEF SymInv
<1>3. UNCHANGED Spec0!vars
  BY DEF vars, tables, Spec0!vars
<1> QED
  BY <1>2, <1>3

\* Every step of the symbol tables keeps the invariant, and is a step of the scopes or
\* leaves them alone.
LEMMA ScopesStep ==
    ASSUME NeverBoth, SymInv, [Next]_vars
    PROVE  SymInv' /\ [Spec0!Next]_(Spec0!vars)
<1>1. CASE UNCHANGED vars
  BY <1>1, StutterStep
<1>2. CASE EndUnit
  <2>1. SymInv' /\ Spec0!End
    BY <1>2, EndUnitStep
  <2> QED
    BY <2>1 DEF Spec0!Next
<1>3. CASE BeginFunction
  <2>1. SymInv' /\ Spec0!OpenWith
    BY <1>3, BeginFunctionStep
  <2> QED
    BY <2>1 DEF Spec0!Next
<1>4. CASE NewScope
  <2>1. SymInv' /\ Spec0!Open
    BY <1>4, NewScopeStep
  <2> QED
    BY <2>1 DEF Spec0!Next
<1>5. CASE PrevScope
  <2>1. SymInv' /\ Spec0!Close
    BY <1>5, PrevScopeStep
  <2> QED
    BY <2>1 DEF Spec0!Next
<1>6. CASE EndFunction
  <2>1. SymInv' /\ Spec0!Close
    BY <1>6, EndFunctionStep
  <2> QED
    BY <2>1 DEF Spec0!Next
<1>7. CASE Prototype
  <2>1. SymInv' /\ UNCHANGED scopes /\ UNCHANGED head
    BY <1>7, PrototypeStep
  <2> QED
    BY <2>1 DEF Spec0!vars
<1>8. ASSUME NEW v \in Names, Declare(v)
      PROVE  SymInv' /\ [Spec0!Next]_(Spec0!vars)
  <2>1. SymInv' /\ (Spec0!Declare \/ UNCHANGED Spec0!vars)
    BY <1>8, DeclareStep
  <2> QED
    BY <2>1 DEF Spec0!Next
<1>9. ASSUME NEW v \in Names, ImplicitFunction(v)
      PROVE  SymInv' /\ [Spec0!Next]_(Spec0!vars)
  <2>1. SymInv' /\ Spec0!DeclareExternal
    BY <1>9, ImplicitFunctionStep
  <2> QED
    BY <2>1 DEF Spec0!Next
<1>10. ASSUME NEW v \in Names, NEW is_func \in BOOLEAN, External(v, is_func)
       PROVE  SymInv' /\ [Spec0!Next]_(Spec0!vars)
  <2>1. SymInv' /\ Spec0!DeclareExternal
    BY <1>10, ExternalStep
  <2> QED
    BY <2>1 DEF Spec0!Next
<1> QED
  BY <1>1, <1>2, <1>3, <1>4, <1>5, <1>6, <1>7, <1>8, <1>9, <1>10 DEF Next

\* The invariant of the symbol tables holds in every state: every chain runs through the
\* symbols of its name from the innermost scope outwards, and the blocks of tccgen.c know
\* where on local_stack each scope begins.
THEOREM TablesInvariant ==
    ASSUME NeverBoth
    PROVE  Spec => []SymInv
<1>1. Init => SymInv
  BY InitGood
<1>2. SymInv /\ [Next]_vars => SymInv'
  BY ScopesStep
<1> QED
  BY <1>1, <1>2, PTL DEF Spec

\* The types of the tables, and that the symbols on the stacks and on the free list
\* together are the pool: sym_pop and sym_free lose none and free none twice, at a closing
\* brace, in a statement expression, at the end of a unit and after an error.
LEMMA InvPool ==
    ASSUME SymInv
    PROVE  PoolPartition
<1> DEFINE stacked == local_stack \o global_stack
           l == Len(local_stack)
           g == Len(global_stack)
           places(s) == {i \in DOMAIN stacked : stacked[i] = s}
<1>1. /\ Tables \in TableSet /\ Pool(Tables) /\ failed \in BOOLEAN /\ Len(blocks) <= MaxDepth
      /\ Tables.local = local_stack /\ Tables.global = global_stack /\ Tables.free = sym_free_first
      /\ Tables.head = head /\ Tables.sym = sym
  BY InvFacts
<1>2. /\ sym \in [Syms -> Records] /\ head \in [Names -> 0..MaxSyms] /\ local_stack \in Seq(Syms)
      /\ global_stack \in Seq(Syms) /\ sym_free_first \in [Syms -> Nat] /\ l \in Nat /\ g \in Nat
  BY <1>1, TableFields
<1>3. TypeOK
  BY <1>1, <1>2 DEF TypeOK, Records
<1>4. /\ DOMAIN stacked = 1..(l + g)
      /\ \A i \in 1..l : stacked[i] = local_stack[i]
      /\ \A i \in (l + 1)..(l + g) : stacked[i] = global_stack[i - l]
  BY <1>2
<1>5. /\ Distinct(local_stack) /\ Distinct(global_stack)
      /\ \A i \in 1..l, j \in 1..g : local_stack[i] # global_stack[j]
      /\ \A s \in Syms : sym_free_first[s] = IF Stacked(Tables, s) THEN 0 ELSE 1
  BY <1>1 DEF Pool
<1>6. \A s \in Syms : Stacked(Tables, s) <=>
        (\E i \in 1..l : local_stack[i] = s) \/ (\E i \in 1..g : global_stack[i] = s)
  BY <1>1 DEF Stacked
<1> HIDE DEF stacked, l, g
<1>7. ASSUME NEW i \in 1..(l + g), NEW j \in 1..(l + g), stacked[i] = stacked[j]
      PROVE  i = j
  <2>1. i \in 1..l \/ (i \in (l + 1)..(l + g) /\ i - l \in 1..g)
    BY <1>2
  <2>2. j \in 1..l \/ (j \in (l + 1)..(l + g) /\ j - l \in 1..g)
    BY <1>2
  <2>3. CASE i \in 1..l /\ j \in 1..l
    BY <2>3, <1>4, <1>5, <1>7 DEF Distinct, l
  <2>4. CASE i \in (l + 1)..(l + g) /\ i - l \in 1..g /\ j \in (l + 1)..(l + g) /\ j - l \in 1..g
    <3>1. i - l = j - l
      BY <2>4, <1>4, <1>5, <1>7 DEF Distinct, g
    <3> QED
      BY <3>1, <2>4, <1>2
  <2>5. CASE i \in 1..l /\ j \in (l + 1)..(l + g) /\ j - l \in 1..g
    BY <2>5, <1>4, <1>5, <1>7
  <2>6. CASE j \in 1..l /\ i \in (l + 1)..(l + g) /\ i - l \in 1..g
    BY <2>6, <1>4, <1>5, <1>7
  <2> QED
    BY <2>1, <2>2, <2>3, <2>4, <2>5, <2>6
<1>8. ASSUME NEW s \in Syms
      PROVE  sym_free_first[s] + Cardinality(places(s)) = 1
  <2>1. CASE Stacked(Tables, s)
    <3>1. \E i \in 1..(l + g) : stacked[i] = s
      <4>1. CASE \E i \in 1..l : local_stack[i] = s
        BY <4>1, <1>2, <1>4
      <4>2. CASE \E i \in 1..g : global_stack[i] = s
        <5>1. PICK i \in 1..g : global_stack[i] = s
          BY <4>2
        <5>2. l + i \in (l + 1)..(l + g) /\ (l + i) - l = i /\ l + i \in 1..(l + g)
          BY <1>2
        <5> QED
          BY <5>1, <5>2, <1>4
      <4> QED
        BY <2>1, <1>6, <4>1, <4>2
    <3>2. PICK i \in 1..(l + g) : stacked[i] = s
      BY <3>1
    <3>3. places(s) = {i}
      BY <3>2, <1>4, <1>7
    <3>4. Cardinality(places(s)) = 1
      BY <3>3, FS_Singleton
    <3> QED
      BY <3>4, <2>1, <1>5
  <2>2. CASE ~Stacked(Tables, s)
    <3>1. ASSUME NEW i \in 1..(l + g) PROVE stacked[i] # s
      <4>1. i \in 1..l \/ (i \in (l + 1)..(l + g) /\ i - l \in 1..g)
        BY <1>2
      <4> QED
        BY <4>1, <2>2, <1>4, <1>6
    <3>2. places(s) = {}
      BY <3>1, <1>4
    <3>3. Cardinality(places(s)) = 0
      BY <3>2, FS_EmptySet
    <3> QED
      BY <3>3, <2>2, <1>5
  <2> QED
    BY <2>1, <2>2
<1> QED
  BY <1>3, <1>8 DEF PoolPartition, stacked

\* No symbol is lost and none is freed twice, however many there are and however deep the
\* blocks: sym_free_first, local_stack and global_stack share out the pool.
THEOREM PoolShared ==
    ASSUME NeverBoth
    PROVE  Spec => []PoolPartition
<1>1. Spec => []SymInv
  BY TablesInvariant
<1>2. SymInv => PoolPartition
  BY InvPool
<1> QED
  BY <1>1, <1>2, PTL

\* A chain has only symbols of its name that are on a stack, and ends.
LEMMA InvLive ==
    ASSUME SymInv
    PROVE  ChainsLive
<1> DEFINE F == scopes[1]
<1>1. /\ Tables \in TableSet /\ Pool(Tables) /\ Tidy(Tables, scopes, BaseOf(scopes, blocks))
      /\ Tables.local = local_stack /\ Tables.sym = sym /\ Tables.free = sym_free_first
      /\ scopes \in Seq(OneScope) /\ Len(scopes) \in Nat /\ Len(scopes) >= 1
  BY InvFacts
<1>2. Filed(Tables, F) /\ F \in OneScope
  BY <1>1 DEF Tidy
<1>3. /\ \A i \in 1..Len(Tables.local) : Tables.local[i] \in Syms
      /\ \A i \in 1..Len(Tables.global) : Tables.global[i] \in Syms
  BY <1>1, TableFields
<1>4. \A s \in Syms : Stacked(Tables, s) => Tables.free[s] = 0
  BY <1>1 DEF Pool
<1> HIDE DEF F
<1>5. ASSUME NEW v \in Names, NEW n \in 0..MaxSyms, NEW r, OnChain(Tables, F, v, n, r), r # Nil
      PROVE  Tables.sym[r].v = v /\ Tables.free[r] = 0
  <2>1. CASE r = F[v]
    <3>1. Tables.sym[F[v]].v = v /\ \E i \in 1..Len(Tables.global) : Tables.global[i] = F[v]
      BY <2>1, <1>2, <1>5 DEF Filed
    <3>2. r \in Syms /\ Stacked(Tables, r)
      BY <2>1, <3>1, <1>3 DEF Stacked
    <3> QED
      BY <2>1, <3>1, <3>2, <1>4
  <2>2. CASE \E i \in 1..Len(Tables.local) : Tables.local[i] = r /\ NameAt(Tables, i) = v
    <3>1. PICK i \in 1..Len(Tables.local) : Tables.local[i] = r /\ NameAt(Tables, i) = v
      BY <2>2
    <3>2. r \in Syms /\ Stacked(Tables, r) /\ Tables.sym[r].v = v
      BY <3>1, <1>3 DEF Stacked, NameAt
    <3> QED
      BY <3>2, <1>4
  <2> QED
    BY <1>5, <2>1, <2>2 DEF OnChain
<1>6. ASSUME NEW v \in Names
      PROVE  /\ Chain(Tables, v)[MaxSyms] = Nil
             /\ \A n \in 0..MaxSyms : Chain(Tables, v)[n] # Nil =>
                   sym[Chain(Tables, v)[n]].v = v /\ sym_free_first[Chain(Tables, v)[n]] = 0
  <2>1. Chain(Tables, v)[MaxSyms] = Nil
    BY <1>1, ChainEnds
  <2>2. \A n \in 0..MaxSyms : OnChain(Tables, F, v, n, Chain(Tables, v)[n])
    BY <1>1, ChainDescends DEF F
  <2> QED
    BY <2>1, <2>2, <1>1, <1>5
<1> QED
  BY <1>6 DEF ChainsLive

\* sym_find never meets a symbol that was freed, or one of another name, and never runs on.
THEOREM ChainsStayLive ==
    ASSUME NeverBoth
    PROVE  Spec => []ChainsLive
<1>1. Spec => []SymInv
  BY TablesInvariant
<1>2. SymInv => ChainsLive
  BY InvLive
<1> QED
  BY <1>1, <1>2, PTL

\* Outside functions the chain of a global symbol's name is headed by a global symbol.
LEMMA InvGlobals ==
    ASSUME SymInv
    PROVE  GlobalsFound
<1>1. SUFFICES ASSUME local_stack = <<>>, NEW s \in ToSet(global_stack), sym[s].v # Anon, sym[s].scope = 0
               PROVE  Contains(global_stack, head[sym[s].v])
  BY DEF GlobalsFound
<1>2. /\ Tables.sym = sym /\ Tables.head = head /\ Tables.global = global_stack /\ Tables \in TableSet
  BY InvFacts
<1>3. Filed(Tables, scopes[1]) /\ \A v \in Names : head[v] = scopes[1][v]
  BY <1>1, <1>2, FileFacts DEF InFunction
<1>4. PICK i \in 1..Len(Tables.global) : Tables.global[i] = s
  BY <1>1, <1>2, TableFields DEF ToSet
<1>5. s \in Syms /\ sym[s].v \in Names
  <2>1. s \in Syms /\ sym[s] \in Records
    BY <1>2, <1>4, TableFields
  <2> QED
    BY <2>1, <1>1 DEF Records
<1>6. scopes[1][sym[s].v] = s
  BY <1>1, <1>2, <1>3, <1>4 DEF Filed
<1> QED
  BY <1>2, <1>3, <1>4, <1>5, <1>6 DEF Contains

\* What global_identifier_push says of sym_identifier holds between any two functions.
THEOREM GlobalsStayFound ==
    ASSUME NeverBoth
    PROVE  Spec => []GlobalsFound
<1>1. Spec => []SymInv
  BY TablesInvariant
<1>2. SymInv => GlobalsFound
  BY InvGlobals
<1> QED
  BY <1>1, <1>2, PTL

\* The symbol tables implement the scopes of the language: after every declaration,
\* brace and error, sym_find gives for every name the innermost declaration that is
\* visible.
THEOREM TablesImplementScopes ==
    ASSUME NeverBoth
    PROVE  Spec => ImplementsScopes
<1>1. Init => SymInv /\ Spec0!Init
  BY InitGood
<1>2. SymInv /\ [Next]_vars => SymInv' /\ [Spec0!Next]_(Spec0!vars)
  BY ScopesStep
<1> QED
  BY <1>1, <1>2, PTL DEF Spec, ImplementsScopes, Spec0!Spec
=============================================================================
