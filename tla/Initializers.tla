---------------------------- MODULE Initializers ----------------------------
(***************************************************************************)
(* The initializer of an object (tccgen.c): decl_initializer_alloc, which  *)
(* finds the length of an array of unknown length with a pass over the     *)
(* tokens before it allocates, the recursive decl_initializer and its loop *)
(* over the elements of a list, decl_designator, which finds the element,  *)
(* and init_putv, which writes it, with a relocation for an address.       *)
(*                                                                         *)
(* The invocations of decl_initializer that are in that loop are frames.   *)
(* Offsets are bytes from the start of the object.  The tokens are chosen  *)
(* when they are first read.                                               *)
(***************************************************************************)
EXTENDS InitRules

CONSTANTS
  Objects,            \* what is initialized: type, whether in a section (sec) or local,
                      \* with which designations, and how many tokens besides "}" (max)
  Expressions,        \* the expressions there are

  Liberties           \* the known deviations (see Deviates) that may be run into

VARIABLES
  object,   \* of Objects
  pass,     \* "none", "size" (DIF_SIZE_ONLY) or "write"
  at,       \* where the parser is: "start", "init", "return", "token", "done",
            \* "error" or "overflow" (init_assert)
  frames,   \* lists: the type, the offset c, cur_field, no_oblock, DIF_CLEAR,
            \* the length al that is initialized, the size n, and the element el
  elem,     \* the call of decl_initializer that is due: type, c, clear, and the expression
  data,     \* the bits of the object
  data_relocs,  \* the relocations of the section: offset and token
  flex_c,   \* the c of flex_array_ref
  tokens,   \* those read so far
  nread,    \* how many of them this pass has read
  rules     \* what they mean

initVars ==
  <<object, pass, at, frames, elem, data, data_relocs, flex_c, tokens, nread, rules>>

Garbage == -2
Sum == -3       \* of a number and an address

(***************************************************************************)
(* Types.                                                                  *)
(***************************************************************************)
\* s->c of an array
Count(t) == IF IsFlexible(t) THEN flex_c ELSE t.n

\* decl_design_flex
decl_design_flex(t, index) ==
  IF IsFlexible(t) /\ index >= flex_c THEN index + 1 ELSE flex_c

\* One level of unnamed members is enough here.
find_field(t, name) ==
  LET direct == {i \in DOMAIN t.members : t.members[i].name = name}
      HasIt(m) == /\ m.name = "" /\ IsList(m.type)
                  /\ \E j \in DOMAIN m.type.members : m.type.members[j].name = name
      a == CHOOSE i \in DOMAIN t.members : HasIt(t.members[i])
      u == t.members[a].type
  IN  IF direct # {} THEN [of |-> t, i |-> Min(direct), cumofs |-> 0]
      ELSE [of |-> u, i |-> CHOOSE j \in DOMAIN u.members : u.members[j].name = name,
            cumofs |-> t.members[a].ofs]
Names(t) ==
  {t.members[i].name : i \in DOMAIN t.members}
    \cup UNION {{t.members[i].type.members[j].name : j \in DOMAIN t.members[i].type.members} :
                  i \in {k \in DOMAIN t.members : t.members[k].name = "" /\ IsList(t.members[k].type)}}

(***************************************************************************)
(* decl_designator: the element that is next, as c, type, elem_size and    *)
(* nb_elems, the new cur_field and length of a flexible array.             *)
(***************************************************************************)
NoElement == [err |-> TRUE]
NoEl == [c |-> 0, type |-> [k |-> "none"], elem_size |-> 0, nb_elems |-> 1]

\* [ index ] and [ index ... index_last ]
IndexDesignator(d, e, first) ==
  LET len == decl_design_flex(e.type, d.hi)
      n == IF IsFlexible(e.type) THEN len ELSE e.type.n
  IN  IF e.type.k # "array" \/ d.lo < 0 \/ d.hi >= n \/ d.hi < d.lo THEN NoElement
      ELSE [e EXCEPT !.flex = len, !.c = @ + d.lo * e.type.of.size, !.type = e.type.of,
                     !.elem_size = e.type.of.size, !.nb_elems = d.hi - d.lo + 1,
                     !.cur = IF first THEN [of |-> e.type, i |-> d.hi] ELSE @]

\* . name
FieldDesignator(d, e, first) ==
  IF e.type.k \notin {"struct", "union"} \/ d.name \notin Names(e.type) THEN NoElement
  ELSE LET f == find_field(e.type, d.name)
           m == f.of.members[f.i]
       IN  [e EXCEPT !.c = @ + f.cumofs + m.ofs, !.type = m.type,
                     !.cur = IF first THEN [of |-> f.of, i |-> f.i] ELSE @]

Designators(ds, e) ==
  LET after[n \in 0..Len(ds)] ==
        IF n = 0 THEN e
        ELSE IF after[n - 1].err THEN NoElement
        ELSE IF ds[n].k = "index" THEN IndexDesignator(ds[n], after[n - 1], n = 1)
        ELSE FieldDesignator(ds[n], after[n - 1], n = 1)
  IN  after[Len(ds)]

\* no_designator: the element at cur_field; unnamed bit-fields are skipped.
NextElement(e) ==
  LET len == decl_design_flex(e.type, e.cur.i)
      n == IF IsFlexible(e.type) THEN len ELSE e.type.n
      fields == {j \in DOMAIN e.cur.of.members :
                   /\ j >= e.cur.i
                   /\ ~(e.cur.of.members[j].name = "" /\ e.cur.of.members[j].type.k = "bits")}
      f == e.cur.of.members[Min(fields)]
  IN  CASE ~IsList(e.type) -> IF e.cur.i = 0 THEN e ELSE NoElement   \* in braces
        [] e.type.k = "array" /\ e.cur.i >= n -> NoElement
        [] e.type.k = "array" /\ e.cur.i < n ->
             [e EXCEPT !.flex = len, !.c = @ + e.cur.i * e.type.of.size,
                       !.type = e.type.of, !.elem_size = e.type.of.size]
        [] e.type.k \in {"struct", "union"} /\ fields = {} -> NoElement
        [] OTHER -> [e EXCEPT !.c = @ + f.ofs, !.type = f.type, !.cur.i = Min(fields)]

Searched(f) ==
  [err |-> FALSE, c |-> f.c, type |-> f.type, elem_size |-> 0, nb_elems |-> 1,
   cur |-> f.cur, flex |-> flex_c]
Element(f, ds) ==
  LET found == IF ds = <<>> THEN NextElement(Searched(f)) ELSE Designators(ds, Searched(f))
  IN  IF found.err THEN NoElement
      ELSE [found EXCEPT !.elem_size = IF @ = 0 THEN found.type.size ELSE @]

\* decl_design_delrels
Without(rs, c, size) ==
  SelectSeq(rs, LAMBDA r : ~(r.at >= c /\ r.at < c + size))

(***************************************************************************)
(* Tokens: read again in the second pass, else any that makes sense.       *)
(***************************************************************************)
Open == [k |-> "{", len |-> 0]
CloseToken(comma) == [ds |-> <<>>, e |-> [k |-> "}", comma |-> comma]]

Fresh == nread = Len(tokens)
Read(tok) ==
  /\ nread' = nread + 1
  /\ IF Fresh THEN tokens' = Append(tokens, tok)
     ELSE tok = tokens[nread + 1] /\ UNCHANGED tokens

MoreTokens ==
  Cardinality({i \in DOMAIN tokens : tokens[i].e.k # "}"}) < object.max

Level == rules.levels[Len(rules.levels)]
LevelType == TypeAt(object.type, Level.base)
Path(ds) == IF ds = <<>> THEN Level.next ELSE Designated(object.type, Level.base, ds)
Valid(ds) == Path(ds) # <<>> /\ InRange(object.type, Level.base, ds)

\* Designations of the members and elements of the list.
Fitting(ds) ==
  \A n \in DOMAIN ds :
    LET t == TypeAt(object.type, Designated(object.type, Level.base, SubSeq(ds, 1, n - 1)))
    IN  /\ ds[n].k = "index" <=> t.k = "array"
        /\ ds[n].k = "field" => IsList(t) /\ ds[n].name \in Names(t)
        /\ n < Len(ds) => Valid(SubSeq(ds, 1, n))

\* An expression has a type that can be converted; a string in braces of its
\* own is as the string.
Sensible(ds, e) ==
  /\ Fitting(ds)
  /\ IF ~Valid(ds) THEN e.k = "num"
     ELSE LET t == TypeAt(object.type, IF e = Open THEN Path(ds)
                                       ELSE Within(object.type, Path(ds), e))
          IN  CASE e.k = "sym" -> t.k = "pointer"
                [] e.k = "str" -> TakesWhole(t, e)
                [] e.k = "val" -> TakesWhole(t, e)
                [] e = Open -> IsList(t) \/ Level.base # Path(ds)
                [] OTHER -> TRUE

(***************************************************************************)
(* Calls and returns of decl_initializer.                                  *)
(***************************************************************************)
Top == frames[Len(frames)]

\* Mutant: DIF_CLEAR is kept for an element that was initialized before.
KeptClear(f, e) == f.clear
\* The container is zero where the element is.
StillClear(f, e) == f.clear /\ ~(pass = "write" /\ e.c - f.c < f.al)

\* decl_designator calls decl_initializer for element e of frame f.
Descend(fs, f, e, expr, token, nested) ==
  IF e.err
  THEN /\ at' = "error"
       /\ UNCHANGED <<frames, elem, data_relocs, flex_c>>
  ELSE /\ at' = "init"
       /\ frames' = Append(fs, [f EXCEPT !.cur = e.cur, !.nested = nested, !.el =
                      [c |-> e.c, type |-> e.type, elem_size |-> e.elem_size, nb_elems |-> e.nb_elems]])
       /\ elem' = [type |-> e.type, c |-> e.c, clear |-> StillClear(f, e), e |-> expr, token |-> token]
       /\ flex_c' = e.flex
       /\ data_relocs' = IF pass = "write" /\ e.c - f.c < f.al
                         THEN Without(data_relocs, e.c, e.elem_size * e.nb_elems) ELSE data_relocs

\* The end of decl_designator, and cur_field goes on.
AfterElement(f) ==
  LET end == f.el.c - f.c + f.el.nb_elems * f.el.elem_size
  IN  [f EXCEPT !.al = IF end > @ THEN end ELSE @,
                !.cur.i = IF f.type.k = "union" THEN Len(f.cur.of.members) + 1 ELSE @ + 1]

\* A list without braces ends when it is full.
Full(f) ==
  /\ f.no_oblock
  /\ IF f.type.k = "array" THEN f.al >= f.n * f.type.of.size
     ELSE f.cur.i > Len(f.cur.of.members)

(***************************************************************************)
(* init_putz, init_putv, and the copies of a range.                        *)
(***************************************************************************)
AllocSize(t, n) ==
  CASE IsFlexible(t) -> n * t.of.size
    [] ~IsFlexible(t) /\ HasFlexible(t) /\ n > 0 -> t.size + n * t.members[Len(t.members)].type.of.size
    [] OTHER -> t.size

\* init_assert
InObject(size) == elem.c + size <= AllocSize(object.type, flex_c)

\* Zeros, for a local object; those of a section are there.
Zeroed(c, size) ==
  IF object.sec THEN data
  ELSE [b \in DOMAIN data |-> IF b \in 8 * c .. 8 * (c + size) - 1 THEN ZeroBit ELSE data[b]]

\* A container that was zeroed needs no zero.
Needless == ~object.sec /\ elem.clear /\ elem.e.k = "zero"

\* As many of the characters as fit, and zeros behind them unless they are there.
StringBits ==
  LET n == Count(elem.type)
      nb == IF elem.e.len < n THEN elem.e.len ELSE n
  IN  IF object.sec \/ elem.clear THEN 8 * nb ELSE 8 * n

StoreBits(start, bits) ==
  [b \in DOMAIN data |-> IF b \in start .. (start + bits - 1)
                         THEN ValueBit(elem.token, elem.e, b - start) ELSE data[b]]

init_putv ==
  CASE elem.type.k = "bits" -> StoreBits(8 * elem.c + elem.type.pos, elem.type.width)
    [] elem.e.k = "str" -> StoreBits(8 * elem.c, StringBits)
    [] elem.type.k \notin {"bits"} /\ elem.e.k # "str" -> StoreBits(8 * elem.c, 8 * elem.type.size)

PutBytes ==
  CASE elem.type.k = "bits" -> (elem.type.pos + elem.type.width + 7) \div 8
    [] elem.e.k = "str" -> StringBits \div 8
    [] OTHER -> elem.type.size

\* The first element of a range again for the others.
Copied(el) ==
  LET from == 8 * el.c
      bits == 8 * el.elem_size
  IN  [b \in DOMAIN data |-> IF b \in from .. (from + bits * el.nb_elems - 1)
                             THEN data[from + ((b - from) % bits)] ELSE data[b]]

\* Its relocations, from the last until one before the element.
CopiedRelocs(el, i, rs) ==
  LET first == Max({0} \cup {k \in DOMAIN rs : rs[k].at < el.c})
      own == SelectSeq(SubSeq(rs, first + 1, Len(rs)), LAMBDA r : r.at < el.c + el.elem_size)
  IN  rs \o [k \in DOMAIN own |->
               [own[Len(own) + 1 - k] EXCEPT !.at = @ + el.elem_size * i]]
AllCopiedRelocs(el) ==
  LET rs[i \in 0..(el.nb_elems - 1)] ==
        IF i = 0 THEN data_relocs ELSE CopiedRelocs(el, i, rs[i - 1])
  IN  rs[el.nb_elems - 1]

(***************************************************************************)
(* What is known to depart from the rules.                                 *)
(***************************************************************************)
IsSym(b) == TokenOf(rules.mem[b]) > 0 /\ tokens[TokenOf(rules.mem[b])].e.k = "sym"

\* Does the list go on inside what the first designator names?
Deep(ds) ==
  LET path == Path(ds)
      d == ds[Len(ds)]
      last == IF d.k = "index" THEN [path EXCEPT ![Len(path)] = d.hi] ELSE path
  IN  Valid(ds) /\ Len(NextPath(object.type, Level.base, last)) > Len(Level.base) + 1

\* Does it go into a member of a union of which another is in use, with more
\* than zeros where it does not go?
Switches(path, own, shifts) ==
  \E n \in Unions(object.type, path) :
    LET union == BitAt(object.type, SubSeq(path, 1, n - 1))
    IN  /\ n < Len(path)
        /\ \E a \in rules.active : a[2] # path[n] /\ a[1] - union \in shifts
        /\ \E b \in Region(object.type, SubSeq(path, 1, n), shifts) \ own :
              rules.mem[b] # ZeroBit /\ ~(object.sec /\ IsSym(b))

\* For an element of the list.
Deviates(ds, e) ==
  LET f == Top
      t == object.type
      path == Path(ds)
      target == TypeAt(t, path)
      bits == DOMAIN rules.mem
      shifts == {s + d : s \in Level.shifts, d \in Strides(t, Level.base, ds)}
      region == Region(t, path, shifts) \cap bits
      own == Region(t, IF e = Open THEN path ELSE Within(t, path, e), shifts) \cap bits
      apart == e # Open /\ ~TakesWhole(target, e)
      el == Element(f, ds)
      doomed == IF el.err THEN {}
                ELSE 8 * el.c .. 8 * (el.c + el.elem_size * el.nb_elems) - 1
  IN  \* a designator is one of the list whose braces are left out
      (IF f.no_oblock /\ ds # <<>> THEN {"designator without braces"} ELSE {})
      \* behind .a.b comes what is behind .a; and behind a member of an unnamed
      \* member its neighbour, at its offset from that
      \cup (IF ds = <<>> /\ (f.nested \/ f.cur.of # f.type) THEN {"after designators"} ELSE {})
      \* a list is not full if an unnamed bit-field is left
      \cup (IF f.no_oblock /\ ds = <<>> /\ el.err THEN {"unnamed bit-field at the end"} ELSE {})
      \* a section is zero only once, and a union only as a whole
      \cup (IF \/ /\ object.sec /\ region \cap rules.given # {}
                  /\ IsList(target) \/ e = Open
                  /\ ~apart \/ Unions(t, path) # {}
               \/ Switches(path, own, shifts)
            THEN {"not zeroed again"} ELSE {})
      \* the elements of a range are copies of the first, with all that goes
      \* into that if its braces are left out
      \cup (IF apart /\ Cardinality(shifts) > Cardinality(Level.shifts)
            THEN {"range without braces"} ELSE {})
      \* and a local container is zeroed again where its braces are left out
      \cup (IF ~object.sec /\ apart /\ region \cap rules.given # {} THEN {"zeroed again"} ELSE {})
      \* an address is added to the number that was there
      \cup (IF /\ object.sec /\ e.k = "sym"
               /\ \E b \in own : rules.mem[b] # ZeroBit /\ ~IsSym(b)
            THEN {"address on a number"} ELSE {})
      \* .a[i].b deletes the relocations of as many bytes as a[i] has, a bit-field
      \* those of its container, and a list without braces its own
      \cup (IF object.sec /\ \E b \in (doomed \cap bits) \ own : IsSym(b)
            THEN {CASE target.k = "bits" -> "size of a container"
                    [] apart -> "deleted without braces"
                    [] OTHER -> "size of an outer element"}
            ELSE {})
      \* the address of another member of a union stays if it begins before this
      \cup (IF /\ object.sec /\ own \ doomed = {}
               /\ \E b \in own : IsSym(b) /\ \E a \in bits \ doomed : rules.mem[a] = BitOf(TokenOf(rules.mem[b]), 0)
            THEN {"part of an address"} ELSE {})
      \* a flexible member without braces is full with one element
      \cup (IF apart /\ IsFlexible(target) THEN {"flexible without braces"} ELSE {})

\* And for "}": a flexible array has one element if it has none, and braces
\* around a scalar have no comma.
DeviatesAtEnd(comma) ==
  (IF IsFlexible(LevelType) /\ rules.len = 0 THEN {"empty flexible"} ELSE {})
  \cup (IF comma /\ ~IsList(LevelType) THEN {"comma behind a scalar"} ELSE {})

(***************************************************************************)
(* The steps.                                                              *)
(***************************************************************************)
InitIdle ==
  /\ object = [type |-> "none"] /\ pass = "none" /\ at = "none"
  /\ frames = <<>> /\ elem = <<>> /\ data = <<>> /\ data_relocs = <<>>
  /\ flex_c = -1 /\ tokens = <<>> /\ nread = 0 /\ rules = <<>>

\* What is on the stack is garbage, a section is zero.
Allocated(n) ==
  [b \in 0 .. (8 * AllocSize(object.type, n) - 1) |-> IF object.sec THEN ZeroBit ELSE Garbage]

InitInit ==
  /\ object \in Objects
  /\ pass = IF HasFlexible(object.type) THEN "size" ELSE "write"
  /\ at = "start"
  /\ frames = <<>> /\ elem = <<>> /\ data_relocs = <<>> /\ flex_c = -1
  /\ data = IF HasFlexible(object.type) THEN <<>> ELSE Allocated(0)
  /\ tokens = <<>> /\ nread = 0
  /\ rules = NothingGiven(8 * AllocSize(object.type, MaxIndex + 1))

\* decl_initializer_alloc: DIF_FIRST.
Start(e) ==
  /\ at = "start"
  /\ e = Open \/ (TakesWhole(object.type, e) /\ e.k \in {"str", "val"})
  /\ Read([ds |-> <<>>, e |-> e])
  /\ at' = "init"
  /\ elem' = [type |-> object.type, c |-> 0, clear |-> FALSE, e |-> e, token |-> 1]
  /\ rules' = IF Fresh THEN RulesStart(rules, object.type, 1, e) ELSE rules
  /\ UNCHANGED <<object, pass, frames, data, data_relocs, flex_c>>

\* Is it initialized by a list, with or without braces?
ByList == IsList(elem.type) /\ (elem.e # Open => ~TakesWhole(elem.type, elem.e))

\* do_init_list, with the list zeroed unless it is.
List ==
  /\ at = "init" /\ ByList
  /\ LET first == IF elem.type.k = "array" THEN 0 ELSE 1
         n == IF elem.type.k = "array" THEN Count(elem.type) ELSE elem.type.size
         f == [type |-> elem.type, c |-> elem.c, no_oblock |-> elem.e # Open, clear |-> TRUE,
               al |-> 0, n |-> n, cur |-> [of |-> elem.type, i |-> first], el |-> NoEl, nested |-> FALSE]
     IN  /\ data' = IF pass = "size" \/ elem.clear THEN data
                    ELSE Zeroed(elem.c, IF elem.type.k = "array" THEN n * elem.type.of.size ELSE n)
         /\ IF f.no_oblock
            THEN Descend(frames, f, Element(f, <<>>), elem.e, elem.token, FALSE)
            ELSE /\ at' = "token"
                 /\ frames' = Append(frames, f)
                 /\ flex_c' = decl_design_flex(elem.type, 0)
                 /\ UNCHANGED <<elem, data_relocs>>
  /\ UNCHANGED <<object, pass, tokens, nread, rules>>

\* Braces around a scalar.
Braces ==
  /\ at = "init" /\ elem.e = Open /\ ~ByList
  /\ at' = "token"
  /\ frames' = Append(frames, [type |-> elem.type, c |-> elem.c, no_oblock |-> FALSE, clear |-> elem.clear,
                 al |-> 0, n |-> 1, cur |-> [of |-> elem.type, i |-> 0], el |-> NoEl, nested |-> FALSE])
  /\ UNCHANGED <<object, pass, elem, data, data_relocs, flex_c, tokens, nread, rules>>

\* An expression that cannot be converted to the type.
Misfit ==
  ~TakesWhole(elem.type, elem.e) \/ (elem.e.k = "sym" /\ elem.type.k # "pointer")

\* one_elem, and strings.
Value ==
  /\ at = "init" /\ elem.e # Open /\ ~ByList
  /\ flex_c' = IF elem.e.k = "str" /\ ~Misfit THEN decl_design_flex(elem.type, elem.e.len) ELSE flex_c
  /\ IF Misfit \/ (pass = "write" /\ ~Needless /\ ~InObject(PutBytes))
     THEN at' = (IF Misfit THEN "error" ELSE "overflow") /\ UNCHANGED <<data, data_relocs>>
     ELSE /\ at' = "return"
          /\ data' = IF \/ pass = "size" \/ Needless
                        \/ object.sec /\ elem.e.k = "sym"
                     THEN data ELSE init_putv
          /\ data_relocs' = IF pass = "write" /\ object.sec /\ elem.e.k = "sym"
                            THEN Append(data_relocs, [at |-> elem.c, token |-> elem.token])
                            ELSE data_relocs
  /\ UNCHANGED <<object, pass, frames, elem, tokens, nread, rules>>

\* Back in the list: the rest of decl_designator, and of the loop if no token
\* is needed for that.
Return ==
  /\ at = "return"
  /\ frames # <<>>
  /\ LET f == AfterElement(Top)
         ranged == pass = "write" /\ Top.el.nb_elems > 1
     IN  /\ IF Full(f) THEN frames' = Front(frames) /\ at' = "return"
            ELSE frames' = [frames EXCEPT ![Len(frames)] = f] /\ at' = "token"
         /\ data' = IF ranged THEN Copied(Top.el) ELSE data
         /\ data_relocs' = IF ranged /\ object.sec THEN AllCopiedRelocs(Top.el) ELSE data_relocs
  /\ UNCHANGED <<object, pass, elem, flex_c, tokens, nread, rules>>

\* The next element of the list, with its designation.
Item(ds, e) ==
  /\ at = "token"
  /\ Read([ds |-> ds, e |-> e])
  /\ Fresh => /\ rules.ok /\ MoreTokens /\ Sensible(ds, e)
              /\ Valid(ds) => Deviates(ds, e) \subseteq Liberties
  /\ Descend(Front(frames), Top, Element(Top, ds), e, nread + 1, Fresh /\ ds # <<>> /\ Deep(ds))
  /\ rules' = IF Fresh THEN RulesElement(rules, object.type, ds, nread + 1, e) ELSE rules
  /\ UNCHANGED <<object, pass, data>>

\* The "}" of the list, or of one around it if this has none.
Close(comma) ==
  /\ at = "token"
  /\ Read(CloseToken(comma))
  /\ Fresh => /\ rules.ok /\ DeviatesAtEnd(comma) \subseteq Liberties
              /\ IF IsList(LevelType) THEN ~comma ELSE Level.next = <<>>
  /\ at' = IF comma /\ ~IsList(Top.type) THEN "error" ELSE "close"
  /\ rules' = IF Fresh THEN RulesClose(rules) ELSE rules
  /\ UNCHANGED <<object, pass, frames, elem, data, data_relocs, flex_c>>

Closed ==
  /\ at = "close"
  /\ LET up == Front(frames)
         f == up[Len(up)]
         ranged == pass = "write" /\ f.el.nb_elems > 1
     IN  IF Top.no_oblock
         THEN /\ frames' = [up EXCEPT ![Len(up)] = AfterElement(f)]
              /\ data' = IF ranged THEN Copied(f.el) ELSE data
              /\ data_relocs' = IF ranged /\ object.sec THEN AllCopiedRelocs(f.el) ELSE data_relocs
              /\ UNCHANGED at
         ELSE frames' = up /\ at' = "return" /\ UNCHANGED <<data, data_relocs>>
  /\ UNCHANGED <<object, pass, elem, flex_c, tokens, nread, rules>>

\* The object is allocated when its size is known.
EndOfPass ==
  /\ at = "return"
  /\ frames = <<>>
  /\ IF pass = "size"
     THEN /\ pass' = "write" /\ at' = "start" /\ nread' = 0
          /\ data' = Allocated(flex_c)
     ELSE at' = "done" /\ UNCHANGED <<pass, nread, data>>
  /\ UNCHANGED <<object, frames, elem, data_relocs, flex_c, tokens, rules>>

InitNext ==
  \/ \E e \in Expressions \cup {Open} : Start(e)
  \/ List \/ Braces \/ Value \/ Return
  \/ \E ds \in object.designations, e \in Expressions \cup {Open} : Item(ds, e)
  \/ \E comma \in BOOLEAN : Close(comma)
  \/ Closed \/ EndOfPass

InitSpec == InitInit /\ [][InitNext]_initVars

(***************************************************************************)
(* Properties.                                                             *)
(***************************************************************************)
\* The object when it is linked: an address is added to what is there.
Linked ==
  [b \in DOMAIN data |->
     LET rs == {k \in DOMAIN data_relocs : b - 8 * data_relocs[k].at \in 0..63}
         r == data_relocs[CHOOSE k \in rs : TRUE]
     IN  CASE rs = {} -> data[b]
           [] Cardinality(rs) = 1 /\ \A i \in 8 * r.at .. 8 * r.at + 63 : data[i] = ZeroBit ->
                BitOf(r.token, b - 8 * r.at)
           [] OTHER -> Sum]

\* The object has the values and the length that C gives it, what is not
\* initialized is zero, no store is outside of it, and an initializer is
\* refused if it is for nothing in the object.
InitializersRight ==
  /\ at = "error" => ~rules.ok
  /\ at \in {"token", "close", "return", "done"} => rules.ok
  /\ at # "overflow"
  /\ at = "done" =>
       /\ HasFlexible(object.type) => rules.len = IF flex_c < 0 THEN 0 ELSE flex_c
       /\ LET linked == Linked
          IN  \A b \in DOMAIN data : rules.mem[b] \in {AnyBit, linked[b]}

\* What tcc-doc.texi says: the elements can be initialized in any order by
\* designators, so each of those has its value then.
ElementsInAnyOrder ==
  at = "done" =>
    LET linked == Linked
    IN  \A b \in rules.given \cap DOMAIN data : rules.mem[b] = linked[b]

=============================================================================
