------------------------------ MODULE InitRules ------------------------------
(***************************************************************************)
(* What a list of initializers means, by 6.7.9 of the C standard, and      *)
(* GCC's documentation for ranges and flexible arrays.  This is what       *)
(* Initializers is compared with; it has nothing of the code.              *)
(*                                                                         *)
(* A type is a scalar, a pointer, a bit-field ("bits": pos and width in    *)
(* its container), an array of n elements (-1 if unknown), a struct or a   *)
(* union with members.  A subobject is named by its path, the indices of   *)
(* elements and members that lead to it.  A value is a sequence of bits,   *)
(* each of which says the token it is from, and which bit of that it is.   *)
(***************************************************************************)
EXTENDS Integers, Sequences, SequencesExt, FiniteSetsExt

CONSTANT MaxIndex   \* bound: the last index of an array of unknown length

ZeroBit == 0
AnyBit == -1        \* C does not say
BitOf(token, j) == 256 * token + j
TokenOf(bit) == bit \div 256

IsList(t) == t.k \in {"array", "struct", "union"}
TypeBits(t) == IF t.k = "bits" THEN t.width ELSE 8 * t.size

\* Elements, and members that can be initialized: unnamed ones cannot.
Subobjects(t) ==
  CASE t.k = "array" -> 0 .. (IF t.n < 0 THEN MaxIndex ELSE t.n - 1)
    [] t.k \in {"struct", "union"} ->
         {i \in DOMAIN t.members : t.members[i].name # "" \/ IsList(t.members[i].type)}
    [] OTHER -> {}
Behind(t, i) == IF t.k = "union" THEN {} ELSE {j \in Subobjects(t) : j > i}
Sub(t, i) == IF t.k = "array" THEN t.of ELSE t.members[i].type
SubAt(t, i) ==
  IF t.k = "array" THEN 8 * t.of.size * i
  ELSE LET s == t.members[i].type
       IN  8 * t.members[i].ofs + (IF s.k = "bits" THEN s.pos ELSE 0)

TypeAt(t, path) ==
  LET at[n \in 0..Len(path)] == IF n = 0 THEN t ELSE Sub(at[n - 1], path[n])
  IN  at[Len(path)]
BitAt(t, path) ==
  LET at[n \in 0..Len(path)] ==
        IF n = 0 THEN 0
        ELSE at[n - 1] + SubAt(TypeAt(t, SubSeq(path, 1, n - 1)), path[n])
  IN  at[Len(path)]

\* The array of unknown length, the object or its last member.
IsFlexible(t) == t.k = "array" /\ t.n < 0
FlexiblePath(t) == IF IsFlexible(t) THEN <<>> ELSE <<Len(t.members)>>
HasFlexible(t) ==
  IsFlexible(t) \/ (t.k = "struct" /\ IsFlexible(t.members[Len(t.members)].type))

(***************************************************************************)
(* Initializers are tokens, with the designation before them: "{", "}",    *)
(* and the kinds of expressions: num, zero, sym (the address of a symbol), *)
(* str (with len characters) and val (of a struct or union type).          *)
(***************************************************************************)
\* Is the subobject initialized by the expression, and not a part of it?
TakesWhole(t, e) ==
  CASE e.k = "str" -> t.k = "array" /\ t.of.size = 1
    [] e.k = "val" -> t = e.type
    [] OTHER -> ~IsList(t)

\* Where it is in the subobject at path: braces are left out (p20).
RECURSIVE Within(_, _, _)
Within(t, path, e) ==
  IF TakesWhole(TypeAt(t, path), e) \/ ~IsList(TypeAt(t, path)) THEN path
  ELSE Within(t, Append(path, Min(Subobjects(TypeAt(t, path)))), e)

\* The next subobject of the list that began at base (p17), or none.
NextPath(t, base, path) ==
  LET more == {k \in (Len(base) + 1) .. Len(path) :
                 Behind(TypeAt(t, SubSeq(path, 1, k - 1)), path[k]) # {}}
      k == Max(more)
      front == SubSeq(path, 1, k - 1)
  IN  IF more = {} THEN <<>>
      ELSE Append(front, Min(Behind(TypeAt(t, front), path[k])))

\* What a designation names (p6, p7); members of an unnamed member are members.
MemberPath(t, name) ==
  CHOOSE p \in {<<i>> : i \in DOMAIN t.members}
               \cup {<<i, j>> : i \in {m \in DOMAIN t.members : t.members[m].name = ""}, j \in 1..3} :
    /\ Len(p) = 2 => IsList(t.members[p[1]].type) /\ p[2] \in Subobjects(t.members[p[1]].type)
    /\ name = IF Len(p) = 1 THEN t.members[p[1]].name
              ELSE t.members[p[1]].type.members[p[2]].name
Designated(t, base, ds) ==
  LET path[n \in 0..Len(ds)] ==
        IF n = 0 THEN base
        ELSE path[n - 1] \o (IF ds[n].k = "index" THEN <<ds[n].lo>>
                             ELSE MemberPath(TypeAt(t, path[n - 1]), ds[n].name))
  IN  path[Len(ds)]

InRange(t, base, ds) ==
  \A n \in DOMAIN ds :
    ds[n].k = "index" =>
      /\ ds[n].lo <= ds[n].hi
      /\ {ds[n].lo, ds[n].hi} \subseteq
           Subobjects(TypeAt(t, Designated(t, base, SubSeq(ds, 1, n - 1))))

(***************************************************************************)
(* The object so far: its bits (mem), those that were given explicitly     *)
(* (given), the members of unions that are in use, the length of the array *)
(* of unknown length, whether all was right, and the lists that are open:  *)
(* the path, the shifts of the elements of a range, and what comes next.   *)
(***************************************************************************)
NothingGiven(bits) ==
  [mem |-> [b \in 0..(bits - 1) |-> ZeroBit], given |-> {}, active |-> {},
   len |-> 0, ok |-> TRUE, levels |-> <<>>]

Spread(at, bits, shifts) == UNION {(at + s) .. (at + s + bits - 1) : s \in shifts}

ValueBit(token, e, j) ==
  IF e.k = "zero" \/ (e.k = "str" /\ j >= 8 * e.len) THEN ZeroBit ELSE BitOf(token, j)

\* The union on a path (bound: one).
Unions(t, path) == {n \in DOMAIN path : TypeAt(t, SubSeq(path, 1, n - 1)).k = "union"}

\* Another member of it: what the union had is lost.
WithActive(r, t, path, shifts) ==
  LET n == CHOOSE k \in Unions(t, path) : TRUE
      front == SubSeq(path, 1, n - 1)
      at == {BitAt(t, front) + s : s \in shifts}
      lost == {a \in r.active : a[1] \in at /\ a[2] # path[n]}
      whole == Spread(BitAt(t, front), TypeBits(TypeAt(t, front)), shifts)
      part == Spread(BitAt(t, SubSeq(path, 1, n)), TypeBits(TypeAt(t, SubSeq(path, 1, n))), shifts)
  IN  CASE Unions(t, path) = {} -> r
        [] Unions(t, path) # {} /\ lost = {} ->
             [r EXCEPT !.active = @ \cup {<<a, path[n]>> : a \in at}]
        [] OTHER ->
             [r EXCEPT !.active = (@ \ lost) \cup {<<a, path[n]>> : a \in at},
                       !.given = @ \ whole,
                       !.mem = [b \in DOMAIN @ |-> CASE b \in part -> ZeroBit
                                                     [] b \in whole \ part -> AnyBit
                                                     [] OTHER -> @[b]]]

\* Nothing of an earlier initializer is left (p19), the rest is zero (p21).
WithZeros(r, t, path, region) ==
  [r EXCEPT !.mem = [b \in DOMAIN @ |-> IF b \in region THEN ZeroBit ELSE @[b]],
            !.given = @ \ region,
            !.active = IF Unions(t, path) = {} THEN {a \in @ : a[1] \notin region} ELSE @]

WithValue(r, region, at, shifts, token, e) ==
  [r EXCEPT !.given = @ \cup region,
            !.mem = [b \in DOMAIN @ |->
                       IF b \in region
                       THEN ValueBit(token, e, b - at - Max({s \in shifts : at + s <= b}))
                       ELSE @[b]]]

\* The length of the array of unknown length after an initializer at path.
WithLength(r, t, path, e) ==
  LET f == IF HasFlexible(t) THEN FlexiblePath(t) ELSE <<0>>
      len == CASE IsPrefix(f, path) /\ Len(path) > Len(f) -> path[Len(f) + 1] + 1
               [] path = f /\ e.k = "str" -> e.len + 1
               [] OTHER -> 0
  IN  [r EXCEPT !.len = IF len > @ THEN len ELSE @]

\* The bits of the subobject at path.
Region(t, path, shifts) ==
  LET s == TypeAt(t, path)
  IN  Spread(BitAt(t, path), IF IsFlexible(s) THEN 8 * s.of.size * (MaxIndex + 1) ELSE TypeBits(s),
             shifts)

\* One more list: braces around a scalar are a list of one.
WithList(r, t, path, shifts) ==
  LET s == TypeAt(t, path)
      list == [base |-> path, shifts |-> shifts,
               next |-> IF IsList(s) THEN Append(path, Min(Subobjects(s))) ELSE path]
  IN  [r EXCEPT !.levels = Append(@, list)]

\* The object itself.
RulesStart(r, t, token, e) ==
  IF e.k = "{" THEN WithList(r, t, <<>>, {0})
  ELSE WithLength(WithValue(r, Region(t, <<>>, {0}) \cap DOMAIN r.mem, 0, {0}, token, e), t, <<>>, e)

\* An element of the list: path as designated, or what is next; last is the
\* same for the last of a range.
RulesAt(r, t, path, last, shifts, token, e) ==
  LET p == IF e.k = "{" THEN path ELSE Within(t, path, e)
      q == last \o SubSeq(p, Len(path) + 1, Len(p))
      region == Region(t, p, shifts) \cap DOMAIN r.mem
      active == WithActive(r, t, p, shifts)
      value == IF e.k = "{" THEN WithZeros(active, t, p, region)
               ELSE WithValue(active, region, BitAt(t, p), shifts, token, e)
      level == Len(r.levels)
      moved == [value EXCEPT !.levels[level].next = NextPath(t, r.levels[level].base, q)]
  IN  WithLength(IF e.k = "{" THEN WithList(moved, t, p, shifts) ELSE moved, t, q, e)

Strides(t, base, ds) ==
  IF ds # <<>> /\ ds[Len(ds)].k = "index"
  THEN LET d == ds[Len(ds)]
           of == TypeAt(t, Designated(t, base, ds))
       IN  {8 * of.size * i : i \in 0 .. (d.hi - d.lo)}
  ELSE {0}

RulesElement(r, t, ds, token, e) ==
  LET l == r.levels[Len(r.levels)]
      path == IF ds = <<>> THEN l.next ELSE Designated(t, l.base, ds)
      last == IF ds # <<>> /\ ds[Len(ds)].k = "index"
              THEN [path EXCEPT ![Len(path)] = ds[Len(ds)].hi] ELSE path
  IN  IF path = <<>> \/ ~InRange(t, l.base, ds) THEN [r EXCEPT !.ok = FALSE]
      ELSE RulesAt(r, t, path, last,
                   {s + d : s \in l.shifts, d \in Strides(t, l.base, ds)}, token, e)

RulesClose(r) == [r EXCEPT !.levels = Front(@)]

=============================================================================
