----------------------------- MODULE LayoutRules -----------------------------
(***************************************************************************)
(* Where the members of a struct or union are, by the rules that the psABI *)
(* and GCC's documentation give for RISC-V.  This is what StructLayout is  *)
(* compared with; it has nothing of the code.  A place is a number of bits *)
(* from the start of the struct.                                           *)
(*                                                                         *)
(* A unit is a struct or union with its attributes: packed (before the     *)
(* members, or late, behind them), aligned (0 if not given) and the value  *)
(* of #pragma pack (0 if not in effect).  A member has a basic type bt, a  *)
(* size and an alignment, a width if it is a bit-field, a name or none,    *)
(* and attributes of its own.  An array of unknown length has size -1.     *)
(***************************************************************************)
EXTENDS Integers, Sequences

NoWidth == -1
Integral == {"bool", "char", "short", "int", "llong"}

IsBitField(m) == m.width # NoWidth
IsPacked(u, m) == u.packed \/ u.late \/ m.packed
Larger(a, b) == IF a < b THEN b ELSE a
UpTo(n, align) == ((n + align - 1) \div align) * align

\* #pragma pack bounds every alignment.
Capped(u, align) == IF u.pack # 0 /\ u.pack < align THEN u.pack ELSE align

\* aligned raises an alignment; to lower one takes packed.
MemberAlign(u, m) ==
  Capped(u, Larger(IF IsPacked(u, m) THEN 1 ELSE m.align, m.aligned))

\* A bit-field is put behind the member before it, unless it would then span
\* two units of its type.
BitFieldStart(u, m, bit) ==
  LET at == IF m.aligned = 0 THEN bit ELSE UpTo(bit, 8 * Capped(u, m.aligned))
      unit == 8 * m.align
      spans == at \div unit # (at + m.width - 1) \div unit
  IN  CASE m.width = 0 -> UpTo(bit, unit)
        [] m.width > 0 /\ spans /\ ~IsPacked(u, m) /\ u.pack = 0 -> UpTo(at, unit)
        [] OTHER -> at

Width(m) == CASE IsBitField(m) -> m.width
              [] m.size < 0 -> 0
              [] OTHER -> 8 * m.size

\* The members so far: the first bit behind them, the alignment they need, and
\* where each starts.
NoMembers == [end |-> 0, align |-> 1, at |-> <<>>]

WithMember(u, s, m) ==
  LET at == CASE u.kind = "union" -> 0
              [] u.kind = "struct" /\ IsBitField(m) -> BitFieldStart(u, m, s.end)
              [] OTHER -> UpTo(s.end, 8 * MemberAlign(u, m))
  IN  [end |-> Larger(s.end, at + Width(m)),
       \* an unnamed bit-field leaves the alignment alone
       align |-> IF IsBitField(m) /\ ~m.named THEN s.align
                 ELSE Larger(s.align, MemberAlign(u, m)),
       at |-> Append(s.at, at)]

UnitAlign(u, s) == Larger(s.align, u.aligned)
UnitSize(u, s) == UpTo(UpTo(s.end, 8) \div 8, UnitAlign(u, s))

\* The members of an unnamed struct are those of the unit.
HasNames(m) == m.named \/ m.bt = "struct"

\* What C does not allow as the next member.
Forbidden(u, ms, m) ==
  \/ \E i \in DOMAIN ms : ms[i].size < 0
  \/ m.size < 0 /\ (u.kind = "union" \/ \A i \in DOMAIN ms : ~HasNames(ms[i]))
  \/ /\ IsBitField(m)
     /\ \/ m.bt \notin Integral
        \/ m.width > 8 * m.size
        \/ m.width = 0 /\ m.named

=============================================================================
