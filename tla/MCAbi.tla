------------------------------- MODULE MCAbi -------------------------------
(***************************************************************************)
(* What other compilers have to agree with: a unit of source either        *)
(* declares a struct (StructLayout) or makes a call (RiscvCalls).  The     *)
(* structs that calls pass are laid out by the operators of StructLayout:  *)
(* each basic type that is passed in its own way, and the structs that     *)
(* reg_pass tells apart.                                                   *)
(***************************************************************************)
EXTENDS RiscvCalls, StructLayout

(***************************************************************************)
(* Members and units of StructLayout.                                      *)
(***************************************************************************)
Declared(bt, size, align) ==
  [bt |-> bt, size |-> size, align |-> align, width |-> NoWidth, named |-> TRUE,
   packed |-> FALSE, aligned |-> 0]
One(bt) ==
  LET n == CASE bt \in {"bool", "char"} -> 1 [] bt = "short" -> 2
             [] bt = "int" -> 4 [] OTHER -> 8
  IN  Declared(bt, n, n)

BitsOf(bt, width) == [One(bt) EXCEPT !.width = width]
Unnamed0(d) == [d EXCEPT !.named = FALSE]
PackedOne(d) == [d EXCEPT !.packed = TRUE]
AlignedOne(d, n) == [d EXCEPT !.aligned = n]

\* Bit-fields that fill their type or not, that fit beside one another or not,
\* unnamed, of no width, packed and aligned, and what goes between them; the
\* last three are errors wherever they are.
MCMembers ==
  {One("char"), One("short"), One("llong"),
   AlignedOne(One("char"), 8), PackedOne(One("int")), AlignedOne(One("int"), 2),
   Unnamed0(Declared("struct", 3, 1)), Declared("array", -1, 4),
   BitsOf("bool", 1), BitsOf("char", 5), BitsOf("short", 12), BitsOf("int", 3),
   BitsOf("int", 31), BitsOf("int", 32), BitsOf("llong", 20), BitsOf("llong", 63),
   Unnamed0(BitsOf("int", 0)), Unnamed0(BitsOf("char", 0)), Unnamed0(BitsOf("int", 5)),
   Unnamed0(BitsOf("int", 32)), PackedOne(BitsOf("int", 20)),
   AlignedOne(BitsOf("int", 7), 8),
   PackedOne(BitsOf("llong", 64)), BitsOf("int", 0), BitsOf("double", 3)}

Unit(kind) ==
  [kind |-> kind, packed |-> FALSE, late |-> FALSE, aligned |-> 0, pack |-> 0]
MCUnits ==
  {Unit("struct"), Unit("union")}
    \cup {[Unit(k) EXCEPT !.late = TRUE] : k \in {"struct", "union"}}
    \cup {[Unit("struct") EXCEPT !.packed = TRUE], [Unit("struct") EXCEPT !.aligned = 16]}
    \cup {[Unit("struct") EXCEPT !.pack = n] : n \in {1, 2, 4}}

(***************************************************************************)
(* Types of RiscvCalls.                                                    *)
(***************************************************************************)
Sc(bt, size) == [k |-> "scalar", bt |-> bt, size |-> size, align |-> size]
Char == Sc("char", 1)
Int32 == Sc("int", 4)
Long == Sc("llong", 8)
Float == Sc("float", 4)
Double == Sc("double", 8)
LDouble == Sc("ldouble", 16)

Agg(u, ts) ==
  LET laid[i \in 0..Len(ts)] ==
        IF i = 0 THEN NothingLaid
        ELSE struct_layout(u, Field(u, Declared("struct", ts[i].size, ts[i].align), NoAttr),
                           laid[i - 1])
      l == Completed(u, laid[Len(ts)])
  IN  [k |-> u.kind, size |-> l.c, align |-> l.maxalign,
       members |-> <<>> \o [i \in DOMAIN ts |-> [ofs |-> l.fields[i].c, type |-> ts[i]]]]
Struct(ts) == Agg(Unit("struct"), ts)
AlignedTo(n, ts) == Agg([Unit("struct") EXCEPT !.aligned = n], ts)
Array(n, of) ==
  [k |-> "array", n |-> n, of |-> of, size |-> n * of.size, align |-> of.align]

MCTypes ==
  {Char, Int32, Float, Double, LDouble,
   Struct(<<Double, Int32>>), Struct(<<Int32, Float>>), Struct(<<Float, Int32>>),
   Struct(<<Array(2, Float)>>), Struct(<<Float, Double>>), Struct(<<Double, Double>>),
   Struct(<<Float, Float, Array(2, Float)>>), Struct(<<Array(3, Sc("short", 2))>>),
   Struct(<<Long, Long>>), Struct(<<Array(3, Int32)>>), Struct(<<Array(3, Double)>>),
   AlignedTo(16, <<Long, Long>>), AlignedTo(16, <<Long>>), AlignedTo(32, <<Double>>),
   Agg(Unit("union"), <<Double, Long>>), Struct(<<Struct(<<Double>>)>>), Struct(<<>>)}

\* No arguments yet, and the ends of each kind of registers, with the other
\* kind still there or at its end too.
MCPassed == {<<0, 0>>, <<0, 7>>, <<6, 0>>, <<7, 6>>, <<7, 7>>, <<8, 0>>, <<8, 7>>}

\* Multiples of 8, of 4, and none.
MCLocs == {-16, -20, -22, -23}

(***************************************************************************)
(* The unit.                                                               *)
(***************************************************************************)
\* No call: the one without anything.
CallIdle == Init /\ ~func_var /\ ~sret /\ caller.areg = <<0, 8>>

UnitInit == (Init /\ LayoutIdle) \/ (CallIdle /\ LayoutInit)

Call == stage = "none" /\ Next /\ UNCHANGED layoutVars
Declare == stage # "none" /\ LayoutNext /\ UNCHANGED vars

UnitSpec == UnitInit /\ [][Call \/ Declare]_<<vars, layoutVars>>

=============================================================================
