---------------------------- MODULE StructLayout ----------------------------
(***************************************************************************)
(* The declaration of a struct or union (tccgen.c): struct_decl turns its  *)
(* members into fields, struct_layout gives each an offset and bit-fields  *)
(* a bit position, and chooses how bit-fields are accessed: by their type, *)
(* by another type, or byte by byte.  gv and vstore make those accesses.   *)
(* The loops of struct_decl and struct_layout go over the members side by  *)
(* side here, so that each list of members is a prefix of longer ones; the *)
(* attributes behind the members are known from the start for that.        *)
(*                                                                         *)
(* GCC's layout of bit-fields (pcc), which is the default.                 *)
(***************************************************************************)
EXTENDS LayoutRules

CONSTANTS
  Units,           \* structs and unions without members, with their attributes
  Members,         \* the members they may get
  MaxMembers,      \* how many at most
  Irregularities   \* the known deviations (see Irregular) that may be run into

VARIABLES
  unit,     \* the struct or union
  members,  \* its members, as declared
  decl,     \* struct_decl: the attributes of the declaration at hand (ad1),
            \* whether a member was seen (c), and an array of unknown length
  lay,      \* struct_layout: c, bit_pos, maxalign and the fields laid out
  stage,    \* "members", or "error", or "closed"; "none" without a unit
  rules     \* where the rules put the members

layoutVars == <<unit, members, decl, lay, stage, rules>>

BitsToBytes(n) == (n + 7) \div 8
DownTo(n, align) == (n \div align) * align

(***************************************************************************)
(* struct_decl.                                                            *)
(***************************************************************************)
NoAttr == [packed |-> FALSE, aligned |-> 0]

\* parse_attribute adds to what ad1 has.
parse_attribute(ad, d) ==
  [packed |-> ad.packed \/ d.packed,
   aligned |-> IF d.aligned # 0 THEN d.aligned ELSE ad.aligned]

\* A bit-field as wide as its type need not be one, unless it is packed.
VT_BITFIELD(u, d, ad) ==
  d.width # NoWidth /\ (d.width < 8 * d.size \/ u.packed \/ ad.packed)

tcc_error(u, d, ad, dc) ==
  \/ dc.flexible
  \/ d.size < 0 /\ ~(u.kind = "struct" /\ dc.seen)
  \/ d.named /\ d.width = 0
  \/ /\ d.width # NoWidth
     /\ \/ d.bt \notin Integral
        \/ d.width > 8 * d.size
        \/ d.width = 64 /\ VT_BITFIELD(u, d, ad)

\* auxtype: the size of another type to access the field by, or one of these.
OwnType == -1
ByteWise == 0

\* The symbol pushed for member d.
Field(u, d, ad) ==
  [bt |-> d.bt, size |-> d.size, align |-> d.align, a |-> ad,
   bit_size |-> IF VT_BITFIELD(u, d, ad) THEN d.width ELSE NoWidth,
   bit_pos |-> 0, anon |-> ~d.named, c |-> 0, auxtype |-> OwnType]

(***************************************************************************)
(* struct_layout: one member.  align and packed as the loop has computed   *)
(* them when it distinguishes unions, plain members and bit-fields.        *)
(***************************************************************************)
Exempt(f) == f.bit_size = 0
PackedAttr(u, f) == ~Exempt(f) /\ (f.a.packed \/ u.packed \/ u.late)
PackedField(u, f) == ~Exempt(f) /\ (PackedAttr(u, f) \/ u.pack # 0)

FieldAlign(u, f) ==
  LET natural == IF PackedAttr(u, f) THEN 1 ELSE f.align
      pack == IF Exempt(f) THEN 0 ELSE u.pack
      a == IF pack # 0 /\ pack < f.a.aligned THEN 0 ELSE f.a.aligned
  IN  CASE a # 0 -> a
        [] a = 0 /\ pack # 0 /\ pack < natural -> pack
        [] OTHER -> natural

InUnion(f, align, l) ==
  LET size == IF f.bit_size >= 0 THEN BitsToBytes(f.bit_size) ELSE f.size
  IN  [l EXCEPT !.c = Larger(@, size), !.maxalign = Larger(@, align),
                !.fields = Append(@, f)]

PlainMember(f, align, l) ==
  LET offset == UpTo(l.c + BitsToBytes(l.bit_pos), align)
  IN  [l EXCEPT !.c = offset + Larger(0, f.size), !.bit_pos = 0,
                !.maxalign = Larger(@, align),
                !.fields = Append(@, [f EXCEPT !.c = offset])]

\* Mutant: what is in front of the bit-fields is not counted.
OverflowsRun(f, align, l) ==
  ((l.bit_pos % (8 * align)) + f.bit_size + 8 * align - 1)
     \div (8 * align) > f.size \div align

\* It would overflow its base type container.
Overflows(f, align, l) ==
  (((l.c * 8 + l.bit_pos) % (8 * align)) + f.bit_size + 8 * align - 1)
     \div (8 * align) > f.size \div align

\* new_field
StartsNew(f, align, packed, l) ==
  f.bit_size = 0 \/ f.a.aligned # 0 \/ (~packed /\ Overflows(f, align, l))

NewField(align, l) ==
  [l EXCEPT !.c = UpTo(@ + BitsToBytes(l.bit_pos), align), !.bit_pos = 0]

\* while (bit_pos >= align * 8) c += align, bit_pos -= align * 8;
Advanced(align, l) ==
  [l EXCEPT !.c = @ + align * (l.bit_pos \div (8 * align)),
            !.bit_pos = @ % (8 * align)]

\* long long bit-fields have type int if they fit
AsInt(f) == IF f.size = 8 /\ f.bit_size <= 32
            THEN [f EXCEPT !.bt = "int", !.size = 4] ELSE f

BitFieldAt(f, align, l) ==
  [l EXCEPT !.bit_pos = @ + f.bit_size,
            !.maxalign = Larger(@, IF f.anon THEN 1 ELSE align),
            !.fields = Append(@, [AsInt(f) EXCEPT !.c = l.c, !.bit_pos = l.bit_pos])]

BitField(f, align, packed, l) ==
  BitFieldAt(f, align,
    Advanced(align, IF StartsNew(f, align, packed, l) THEN NewField(align, l) ELSE l))

struct_layout(u, f, l) ==
  CASE u.kind = "union" -> InUnion(f, FieldAlign(u, f), l)
    [] u.kind = "struct" /\ f.bit_size < 0 -> PlainMember(f, FieldAlign(u, f), l)
    [] OTHER -> BitField(f, FieldAlign(u, f), PackedField(u, f), l)

(***************************************************************************)
(* struct_layout, behind the last member: size, alignment, and how each    *)
(* bit-field is accessed.                                                  *)
(***************************************************************************)
\* The smallest type that has the field when it is read at its own alignment.
RECURSIVE Narrow(_, _, _)
Narrow(f, c0, align) ==
  LET bit == f.c * 8 + f.bit_pos
      cx == DownTo(bit \div 8, align)
      px == bit - 8 * cx
      bytes == BitsToBytes(px + f.bit_size)
      s == CASE bytes > 4 -> 8 [] bytes \in 3..4 -> 4
             [] bytes = 2 -> 2 [] OTHER -> 1
  IN  IF cx = c0 THEN [c |-> cx, bit_pos |-> px, size |-> align]
      ELSE Narrow(f, cx, s)

\* Mutant: the end of the struct is not looked at.
ByTypeAnywhere(f, c) == f.bit_pos + f.bit_size <= 8 * f.size
ByOwnType(f, c) == f.bit_pos + f.bit_size <= 8 * f.size /\ f.c + f.size <= c

ByOtherType(f, n, c) ==
  IF n.bit_pos + f.bit_size <= 8 * n.size /\ n.c + n.size <= c
  THEN [f EXCEPT !.c = n.c, !.bit_pos = n.bit_pos,
                 !.auxtype = IF n.size = f.size THEN OwnType ELSE n.size]
  ELSE [f EXCEPT !.auxtype = ByteWise]

WithAccess(f, c) ==
  IF f.bit_size <= 0 \/ ByOwnType(f, c) THEN f
  ELSE ByOtherType(f, Narrow(f, -1, 1), c)

\* Size and alignment of the unit.
Completed(u, l) ==
  LET r == Larger(u.aligned, l.maxalign)
  IN  [l EXCEPT !.c = UpTo(@ + BitsToBytes(l.bit_pos), r), !.bit_pos = 0, !.maxalign = r]

AccessesChosen(l) ==
  [l EXCEPT !.fields = [i \in DOMAIN @ |-> WithAccess(@[i], l.c)]]

(***************************************************************************)
(* Accesses.  A value is a sequence of bits, lowest first, each of which   *)
(* says where it comes from: a bit of the struct by its number, Zero, or   *)
(* bit i of the value that is stored, Src(i).                              *)
(***************************************************************************)
Zero == -1
Mixed == -2
Src(i) == -3 - i

Bits(w) == 0..(w - 1)
Shl(v, n, w) == [i \in Bits(w) |-> IF i < n THEN Zero ELSE v[i - n]]
\* The bits that come in at the top are Zero, or for SAR the sign.
Shr(v, n, w, unsigned) ==
  [i \in Bits(w) |-> IF i + n < w THEN v[i + n]
                     ELSE IF unsigned THEN Zero ELSE v[w - 1]]
And(v, mask, w) == [i \in Bits(w) |-> IF i \in mask THEN v[i] ELSE Zero]
Or(v, x, w) == [i \in Bits(w) |-> CASE v[i] = Zero -> x[i]
                                    [] x[i] = Zero -> v[i]
                                    [] OTHER -> Mixed]
\* n bytes of the struct from byte c, extended to a word.
Loaded(c, n, w, unsigned) ==
  [i \in Bits(w) |-> IF i < 8 * n THEN 8 * c + i
                     ELSE IF unsigned THEN Zero ELSE 8 * (c + n) - 1]
\* A word stored there: what each bit of those bytes is then.
Stored(c, n, v) == [b \in (8 * c) .. (8 * (c + n) - 1) |-> v[b - 8 * c]]

\* The type a field is accessed by (adjust_bf), and the type of its value.
AccessSize(f) == IF f.auxtype \in {OwnType, ByteWise} THEN f.size ELSE f.auxtype
WordSize(f) == IF AccessSize(f) = 8 THEN 64 ELSE 32

\* The two shifts of gv.
Extracted(f, v, w, unsigned) ==
  Shr(Shl(v, w - (f.bit_pos + f.bit_size), w), w - f.bit_size, w, unsigned)

\* load_packed_bf, from byte c on: bits of the value are there, left are not.
RECURSIVE LoadBytes(_, _, _, _, _, _, _)
LoadBytes(c, bit_pos, bits, left, v, w, n) ==
  IF left = 0 THEN v
  ELSE LoadBytes(c + 1, 0, bits + n, left - n,
         Or(v, Shl(And(Shr(Loaded(c, 1, w, TRUE), bit_pos, w, TRUE), Bits(n), w), bits, w), w),
         w, IF left - n < 8 THEN left - n ELSE 8)

FirstBits(f) ==
  LET n == 8 - (f.bit_pos % 8) IN IF n > f.bit_size THEN f.bit_size ELSE n

load_packed_bf(f, w, unsigned) ==
  Shr(Shl(LoadBytes(f.c + f.bit_pos \div 8, f.bit_pos % 8, 0, f.bit_size,
                    [i \in Bits(w) |-> Zero], w, FirstBits(f)),
          w - f.bit_size, w),
      w - f.bit_size, w, unsigned)

gv(f, unsigned) ==
  IF f.auxtype = ByteWise THEN load_packed_bf(f, WordSize(f), unsigned)
  ELSE Extracted(f, Loaded(f.c, AccessSize(f), WordSize(f), unsigned),
                 WordSize(f), unsigned)

\* The value that is stored, as the type of the access.
Source(f, w) ==
  [i \in Bits(w) |->
     CASE f.bt = "bool" -> IF i = 0 THEN Src(0) ELSE Zero
       [] f.bt # "bool" /\ i < 8 * AccessSize(f) -> Src(i)
       [] OTHER -> Src(8 * AccessSize(f) - 1)]

\* mask, and ~mask, at the place of the field.
Mask(bit_pos, n) == bit_pos .. (bit_pos + n - 1)
Combined(v, old, bit_pos, n, w) ==
  Or(Shl(v, bit_pos, w), And(old, Bits(w) \ Mask(bit_pos, n), w), w)

\* store_packed_bf, likewise; mem is what was stored so far.
RECURSIVE StoreBytes(_, _, _, _, _, _, _)
StoreBytes(c, bit_pos, bits, left, v, mem, n) ==
  IF left = 0 THEN mem
  ELSE LET w == 64
           new == Combined(And(Shr(v, bits, w, FALSE), Bits(n), w),
                           Loaded(c, 1, w, TRUE), bit_pos, n, w)
           byte == Stored(c, 1, new)
       IN  StoreBytes(c + 1, 0, bits + n, left - n, v,
                      [b \in DOMAIN mem \cup DOMAIN byte |->
                         IF b \in DOMAIN byte THEN byte[b] ELSE mem[b]],
                      IF left - n < 8 THEN left - n ELSE 8)

store_packed_bf(f) ==
  StoreBytes(f.c + f.bit_pos \div 8, f.bit_pos % 8, 0, f.bit_size,
             Source(f, 64), <<>>, FirstBits(f))

vstore(f) ==
  LET w == WordSize(f)
      masked == IF f.bt = "bool" THEN Source(f, w)
                ELSE And(Source(f, w), Bits(f.bit_size), w)
  IN  IF f.auxtype = ByteWise THEN store_packed_bf(f)
      ELSE Stored(f.c, AccessSize(f),
             Combined(masked, Loaded(f.c, AccessSize(f), w, FALSE),
                      f.bit_pos, f.bit_size, w))

(***************************************************************************)
(* Where the code departs from the rules.                                  *)
(***************************************************************************)
Attributes(d) == [packed |-> d.packed, aligned |-> d.aligned]

Irregular(u, d, f, l) ==
  LET align == FieldAlign(u, f)
      whole == d.width = 8 * d.size /\ f.bit_size < 0
  IN  \* an attribute of an earlier declarator of the same declaration
      (IF f.a # Attributes(d) THEN {"carried over"} ELSE {})
      \* aligned lowers an alignment
      \cup (IF f.a.aligned # 0 /\ align < MemberAlign(u, [d EXCEPT !.aligned = 0])
            THEN {"lowered"} ELSE {})
      \* aligned is dropped where #pragma pack is lower
      \cup (IF u.pack # 0 /\ align < u.pack /\ u.pack < f.a.aligned
            THEN {"pack drops aligned"} ELSE {})
      \* an unnamed bit-field of a union raises its alignment
      \cup (IF u.kind = "union" /\ f.bit_size >= 0 /\ f.anon /\ align > 1
            THEN {"unnamed in union"} ELSE {})
      \* and so does one as wide as its type
      \cup (IF whole /\ f.anon /\ align > 1 THEN {"unnamed of full width"} ELSE {})
      \* a bit-field as wide as its type, of a unit that is packed only later
      \cup (IF /\ whole /\ u.kind = "struct" /\ (u.late \/ u.pack # 0)
               /\ (8 * l.c + l.bit_pos) % (8 * align) # 0
            THEN {"packed too late"} ELSE {})

(***************************************************************************)
(* The declaration.                                                        *)
(***************************************************************************)
NothingLaid == [c |-> 0, bit_pos |-> 0, maxalign |-> 1, fields |-> <<>>]

NoUnit ==
  [kind |-> "none", packed |-> FALSE, late |-> FALSE, aligned |-> 0, pack |-> 0]

LayoutIdle ==
  /\ unit = NoUnit
  /\ members = <<>>
  /\ decl = [ad1 |-> NoAttr, seen |-> FALSE, flexible |-> FALSE]
  /\ lay = NothingLaid
  /\ stage = "none"
  /\ rules = NoMembers

LayoutInit ==
  /\ unit \in Units
  /\ members = <<>>
  /\ decl = [ad1 |-> NoAttr, seen |-> FALSE, flexible |-> FALSE]
  /\ lay = NothingLaid
  /\ stage = "members"
  /\ rules = NoMembers

\* The next declarator is of the declaration at hand, or begins one.
Declarator(d, ad) ==
  /\ stage = "members"
  /\ Len(members) < MaxMembers
  /\ \/ ad = parse_attribute(NoAttr, d)
     \/ /\ members # <<>>
        /\ members[Len(members)].bt = d.bt
        /\ ad = parse_attribute(decl.ad1, d)

Member(d, ad) ==
  LET f == Field(unit, d, ad)
  IN  /\ Declarator(d, ad)
      /\ ~tcc_error(unit, d, ad, decl)
      /\ Irregular(unit, d, f, lay) \subseteq Irregularities
      /\ members' = Append(members, d)
      /\ decl' = [ad1 |-> ad,
                  seen |-> decl.seen \/ d.named \/ d.bt = "struct",
                  flexible |-> d.size < 0]
      /\ lay' = struct_layout(unit, f, lay)
      /\ rules' = WithMember(unit, rules, d)
      /\ UNCHANGED <<unit, stage>>

BadMember(d, ad) ==
  /\ Declarator(d, ad)
  /\ tcc_error(unit, d, ad, decl)
  /\ members' = Append(members, d)
  /\ stage' = "error"
  /\ UNCHANGED <<unit, decl, lay, rules>>

CloseUnit ==
  /\ stage = "members"
  /\ stage' = "closed"
  /\ lay' = AccessesChosen(Completed(unit, lay))
  /\ UNCHANGED <<unit, members, decl, rules>>

LayoutNext ==
  \/ \E d \in Members : \E ad \in {parse_attribute(NoAttr, d), parse_attribute(decl.ad1, d)} :
       Member(d, ad) \/ BadMember(d, ad)
  \/ CloseUnit

LayoutSpec == LayoutInit /\ [][LayoutNext]_layoutVars

(***************************************************************************)
(* Properties.                                                             *)
(***************************************************************************)
\* The layout is that of the psABI and of GCC: the size and the alignment of
\* the unit and the place of every member, so that objects can be shared with
\* code of other compilers; and a declaration is refused if C forbids it, or
\* for a packed bit-field of 64 bits, which is not implemented.
LayoutFollowsRules ==
  /\ stage = "closed" =>
       /\ lay.maxalign = UnitAlign(unit, rules)
       /\ lay.c = UnitSize(unit, rules)
       /\ \A i \in DOMAIN members :
            members[i].width # 0 =>
              8 * lay.fields[i].c + lay.fields[i].bit_pos = rules.at[i]
  /\ stage # "none" /\ members # <<>> =>
       LET n == Len(members)
           last == members[n]
       IN  stage = "error" <=> \/ Forbidden(unit, SubSeq(members, 1, n - 1), last)
                               \/ stage = "error" /\ last.width = 64

\* A bit-field is read and written where it is: its value is made of its bits,
\* extended by its sign or by zeros, a store changes those and writes back what
\* it read of the others, and no access leaves the struct.
AccessesRight ==
  stage = "closed" =>
    \A i \in {j \in DOMAIN lay.fields : lay.fields[j].bit_size > 0} :
      LET f == lay.fields[i]
          start == rules.at[i]
          after == vstore(f)
          InField(b) == b \in start .. (start + f.bit_size - 1)
      IN  /\ \A unsigned \in BOOLEAN :
               LET v == gv(f, unsigned)
               IN  \A b \in DOMAIN v :
                     v[b] = CASE b < f.bit_size -> start + b
                              [] b >= f.bit_size /\ unsigned -> Zero
                              [] OTHER -> start + f.bit_size - 1
          /\ \A b \in DOMAIN after :
               /\ b \in Bits(8 * lay.c)
               /\ after[b] = IF InField(b) THEN Src(b - start) ELSE b
          /\ \A b \in start .. (start + f.bit_size - 1) : b \in DOMAIN after

=============================================================================
