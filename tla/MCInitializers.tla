--------------------------- MODULE MCInitializers ---------------------------
(***************************************************************************)
(* Small instances of Initializers: objects of one byte per scalar, with   *)
(* structs in structs and arrays, strings, bit-fields, an unnamed struct,  *)
(* a union, a packed address behind bit-fields, and arrays of unknown      *)
(* length; each with designations that reach into it.                      *)
(***************************************************************************)
EXTENDS Initializers

Byte == [k |-> "scalar", size |-> 1]
Pointer == [k |-> "pointer", size |-> 8]
BitsIn(size, pos, width) == [k |-> "bits", size |-> size, pos |-> pos, width |-> width]
ArrayOf(n, t) == [k |-> "array", n |-> n, of |-> t, size |-> IF n < 0 THEN -1 ELSE n * t.size]
UnknownLength == -1
Mem(name, ofs, t) == [name |-> name, ofs |-> ofs, type |-> t]
StructOf(size, ms) == [k |-> "struct", size |-> size, members |-> ms]
UnionOf(size, ms) == [k |-> "union", size |-> size, members |-> ms]

Pair == StructOf(2, <<Mem("x", 0, Byte), Mem("y", 1, Byte)>>)
Pointers == StructOf(16, <<Mem("p", 0, Pointer), Mem("q", 8, Pointer)>>)
Nested ==
  StructOf(5, <<Mem("a", 0, Pair), Mem("b", 2, Byte), Mem("c", 3, ArrayOf(2, Byte))>>)
WithString ==
  StructOf(5, <<Mem("s", 0, ArrayOf(3, Byte)), Mem("n", 3, Byte), Mem("m", 4, Byte)>>)
Fields ==
  StructOf(4, <<Mem("a", 0, BitsIn(4, 0, 5)), Mem("", 0, BitsIn(4, 5, 2)),
                Mem("b", 0, BitsIn(4, 7, 9)), Mem("c", 2, Byte)>>)
FieldsAtEnd ==
  StructOf(5, <<Mem("t", 0, StructOf(4, <<Mem("a", 0, BitsIn(4, 0, 5)), Mem("", 0, BitsIn(4, 5, 2))>>)),
                Mem("z", 4, Byte)>>)
WithUnnamed ==
  StructOf(4, <<Mem("a", 0, Byte),
                Mem("", 1, StructOf(2, <<Mem("b", 0, Byte), Mem("c", 1, Byte)>>)),
                Mem("d", 3, Byte)>>)
WithUnion ==
  StructOf(9, <<Mem("u", 0, UnionOf(8, <<Mem("p", 0, Pointer), Mem("w", 0, Pair), Mem("c", 0, Byte)>>)),
                Mem("n", 8, Byte)>>)
Packed ==
  StructOf(12, <<Mem("f", 0, BitsIn(8, 0, 20)), Mem("p", 3, Pointer), Mem("n", 11, Byte)>>)
FlexibleEnd == StructOf(1, <<Mem("n", 0, Byte), Mem("v", 1, ArrayOf(UnknownLength, Pair))>>)

\* Designations.
Dot(n) == [k |-> "field", name |-> n]
Ix(i, j) == [k |-> "index", lo |-> i, hi |-> j]
Dots(names) == {<<Dot(n)>> : n \in names}
Indices(ranges) == {<<Ix(r[1], r[2])>> : r \in ranges}
DotDots(n, names) == {<<Dot(n), Dot(m)>> : m \in names}
IxDots(i, names) == {<<Ix(i, i), Dot(m)>> : m \in names}

Object(t, sec, ds, max) ==
  [type |-> t, sec |-> sec, designations |-> ds \cup {<<>>}, max |-> max]
InBoth(t, ds, max) == {Object(t, sec, ds, max) : sec \in BOOLEAN}

MCObjects ==
  InBoth(Nested, Dots({"a", "b", "c"}) \cup Indices({<<0, 0>>, <<1, 1>>}) \cup DotDots("a", {"x", "y"}), 4)
  \cup InBoth(ArrayOf(3, Pair),
              Dots({"y"}) \cup Indices({<<0, 0>>, <<1, 1>>, <<0, 1>>, <<3, 3>>}) \cup IxDots(1, {"x"}), 4)
  \cup InBoth(ArrayOf(2, Pointers),
              Dots({"p", "q"}) \cup Indices({<<0, 1>>, <<0, 0>>}) \cup IxDots(0, {"p", "q"}), 4)
  \cup InBoth(ArrayOf(UnknownLength, Pair),
              Dots({"y"}) \cup Indices({<<0, 0>>, <<2, 2>>, <<1, 2>>}) \cup IxDots(1, {"x"}), 4)
  \cup InBoth(ArrayOf(2, ArrayOf(2, Byte)), Indices({<<1, 1>>, <<0, 1>>}), 5)
  \cup InBoth(ArrayOf(2, ArrayOf(2, Byte)),
              Indices({<<0, 0>>, <<1, 1>>, <<0, 1>>}) \cup {<<Ix(1, 1), Ix(0, 0)>>}, 4)
  \cup InBoth(WithString, Dots({"s", "n"}) \cup Indices({<<1, 1>>}), 4)
  \cup InBoth(ArrayOf(UnknownLength, Byte), Indices({<<0, 0>>, <<2, 2>>, <<1, 2>>}), 3)
  \cup InBoth(Fields, Dots({"a", "b"}), 4)
  \cup InBoth(FieldsAtEnd, Dots({"t", "a"}), 4)
  \cup InBoth(WithUnnamed, Dots({"a", "b", "c", "d"}), 3)
  \cup InBoth(WithUnion, Dots({"u", "w", "c", "p", "n", "x"}) \cup DotDots("u", {"p", "w", "c"})
                         \cup {<<Dot("u"), Dot("w"), Dot("y")>>}, 3)
  \cup InBoth(Packed, Dots({"f", "p"}), 3)
  \cup {Object(FlexibleEnd, TRUE,
               Dots({"n", "v"}) \cup Indices({<<2, 2>>}) \cup {<<Dot("v"), Ix(1, 1)>>}, 4)}

Simple(k) == [k |-> k, len |-> 0]
String(len) == [k |-> "str", len |-> len]
ValueOf(t) == [k |-> "val", len |-> 0, type |-> t]
MCExpressions ==
  {Simple("num"), Simple("zero"), Simple("sym"), String(1), String(4), ValueOf(Pair), ValueOf(Pointers)}

\* An array of structs of pointers, whose members are designated one by one.
MCPointerArray ==
  {Object(ArrayOf(2, Pointers), TRUE, IxDots(0, {"p", "q"}) \cup IxDots(1, {"p"}), 3)}
MCAddressesOnly == {Simple("sym")}
=============================================================================
