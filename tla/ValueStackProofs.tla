-------------------------- MODULE ValueStackProofs --------------------------
(* The values of a program of integers and pointers stay where the compiler says, and what   *)
(* it emits uses them: for any number of registers, entries and temporary variables.  A step *)
(* of the compiler either generates code (Inv, to the part on Become) or is inside a sizeof  *)
(* (Quiet); Become renames the values after either.                                          *)
EXTENDS ValueStack, FiniteSetTheorems, WellFoundedInduction, TLAPS

-----------------------------------------------------------------------------
(* The inductive invariant *)

Fields == {"st", "reg", "mem", "temps", "loc", "base", "bad", "var", "got"}
Kinds == {"const", "reg", "at", "local", "llocal", "cmp"}
Words3 == Int \X Int \X Int
Entries == [k : Kinds, r : Int, r2 : {None}, c : Int \X Int, two : {FALSE},
            v : Int \X Int, of : Seq(Words3)]

State(T) ==
    /\ DOMAIN T = Fields
    /\ T.st \in Seq(Entries)
    /\ DOMAIN T.reg = Ints
    /\ T.temps \in Seq([b : Nat, two : BOOLEAN])
    /\ T.loc \in Nat
    /\ T.base \in Int

Held(T, e) == First(T, e) = Word(e.v, 1)

\* What an entry names is there.
Sound(T, e) ==
    /\ e.v[1] # 0
    /\ e.k \in {"reg", "at"} => e.r \in Ints
    /\ e.k \in {"local", "llocal"} => e.c[2] = 0 /\ e.c[1] <= T.loc
    /\ e.k = "cmp" => \A i \in DOMAIN e.of : i \in {1, 2} /\ e.c[i] \in Ints
    /\ Held(T, e)

Alone(T, i) == \A j \in DOMAIN T.st : j # i => ~Uses(T.st[j], T.st[i].r)

TempsKnown(T) == \A i \in DOMAIN T.temps : T.temps[i].b \in 1..T.loc

\* Code is generated, and what the entries say is true.
Inv(T) ==
    /\ State(T)
    /\ T.base = None
    /\ T.bad = {}
    /\ TempsKnown(T)
    /\ \A i \in DOMAIN T.st : Sound(T, T.st[i])
    /\ \A i \in DOMAIN T.st : T.st[i].k = "cmp" => i = Len(T.st)
    /\ \A i \in DOMAIN T.st : T.st[i].k = "reg" => Alone(T, i)

\* What there is when the suppressed expression ends.
Resumed(T) == [T EXCEPT !.st = SubSeq(T.st, 1, T.base), !.base = None]
Suspended(T) ==
    /\ State(T)
    /\ T.base \in 0..Len(T.st)
    /\ Inv(Resumed(T))

StackInv == Inv(Now) \/ Suspended(Now)

-----------------------------------------------------------------------------
(* Records: an update of one field *)

\* What the stack is about, besides the stack.
Rest(T, U) ==
    /\ U.reg = T.reg /\ U.mem = T.mem /\ U.temps = T.temps /\ U.loc = T.loc
    /\ U.base = T.base /\ U.bad = T.bad /\ U.var = T.var /\ U.got = T.got

LEMMA WithStack ==
    ASSUME NEW T, DOMAIN T = Fields, NEW s, NEW U, U = [T EXCEPT !.st = s]
    PROVE  DOMAIN U = Fields /\ U.st = s /\ Rest(T, U)
BY Zenon DEF Fields, Rest

LEMMA WithReg ==
    ASSUME NEW T, DOMAIN T = Fields, NEW r \in DOMAIN T.reg, NEW w,
           NEW U, U = [T EXCEPT !.reg[r] = w]
    PROVE  /\ DOMAIN U = Fields
           /\ DOMAIN U.reg = DOMAIN T.reg
           /\ U.reg[r] = w
           /\ \A q \in DOMAIN T.reg : q # r => U.reg[q] = T.reg[q]
           /\ U.st = T.st /\ U.mem = T.mem /\ U.temps = T.temps /\ U.loc = T.loc
           /\ U.base = T.base /\ U.bad = T.bad /\ U.var = T.var /\ U.got = T.got
BY Zenon DEF Fields

LEMMA WithRegs ==
    ASSUME NEW T, DOMAIN T = Fields, NEW w, NEW U, U = [T EXCEPT !.reg = w]
    PROVE  /\ DOMAIN U = Fields /\ U.reg = w
           /\ U.st = T.st /\ U.mem = T.mem /\ U.temps = T.temps /\ U.loc = T.loc
           /\ U.base = T.base /\ U.bad = T.bad /\ U.var = T.var /\ U.got = T.got
BY Zenon DEF Fields

LEMMA WithGot ==
    ASSUME NEW T, DOMAIN T = Fields, NEW w, NEW U, U = [T EXCEPT !.got = w]
    PROVE  /\ DOMAIN U = Fields /\ U.got = w
           /\ U.st = T.st /\ U.reg = T.reg /\ U.mem = T.mem /\ U.temps = T.temps
           /\ U.loc = T.loc /\ U.base = T.base /\ U.bad = T.bad /\ U.var = T.var
BY Zenon DEF Fields

LEMMA WithVar ==
    ASSUME NEW T, DOMAIN T = Fields, NEW w, NEW U, U = [T EXCEPT !.var = w]
    PROVE  /\ DOMAIN U = Fields /\ U.var = w
           /\ U.st = T.st /\ U.reg = T.reg /\ U.mem = T.mem /\ U.temps = T.temps
           /\ U.loc = T.loc /\ U.base = T.base /\ U.bad = T.bad /\ U.got = T.got
BY Zenon DEF Fields

LEMMA WithTemp ==
    ASSUME NEW T, DOMAIN T = Fields, NEW l, NEW x, NEW s,
           NEW U, U = [T EXCEPT !.loc = l, !.var = x, !.temps = s]
    PROVE  /\ DOMAIN U = Fields /\ U.loc = l /\ U.var = x /\ U.temps = s
           /\ U.st = T.st /\ U.reg = T.reg /\ U.mem = T.mem
           /\ U.base = T.base /\ U.bad = T.bad /\ U.got = T.got
BY Zenon DEF Fields

LEMMA WithSaved ==
    ASSUME NEW T, DOMAIN T = Fields, NEW m, NEW s,
           NEW U, U = [T EXCEPT !.mem = m, !.st = s]
    PROVE  /\ DOMAIN U = Fields /\ U.mem = m /\ U.st = s
           /\ U.reg = T.reg /\ U.temps = T.temps /\ U.loc = T.loc
           /\ U.base = T.base /\ U.bad = T.bad /\ U.var = T.var /\ U.got = T.got
BY Zenon DEF Fields

LEMMA WithBase ==
    ASSUME NEW T, DOMAIN T = Fields, NEW b, NEW U, U = [T EXCEPT !.base = b]
    PROVE  /\ DOMAIN U = Fields /\ U.base = b
           /\ U.st = T.st /\ U.reg = T.reg /\ U.mem = T.mem /\ U.temps = T.temps
           /\ U.loc = T.loc /\ U.bad = T.bad /\ U.var = T.var /\ U.got = T.got
BY Zenon DEF Fields

LEMMA WithStackBase ==
    ASSUME NEW T, DOMAIN T = Fields, NEW s, NEW b,
           NEW U, U = [T EXCEPT !.st = s, !.base = b]
    PROVE  /\ DOMAIN U = Fields /\ U.st = s /\ U.base = b
           /\ U.reg = T.reg /\ U.mem = T.mem /\ U.temps = T.temps
           /\ U.loc = T.loc /\ U.bad = T.bad /\ U.var = T.var /\ U.got = T.got
BY Zenon DEF Fields

-----------------------------------------------------------------------------
(* Entries *)

LEMMA WithK ==
    ASSUME NEW e \in Entries, NEW x \in Kinds, NEW f, f = [e EXCEPT !.k = x]
    PROVE  /\ f \in Entries
           /\ f.k = x /\ f.r = e.r /\ f.c = e.c /\ f.v = e.v /\ f.of = e.of
BY DEF Entries

LEMMA WithR ==
    ASSUME NEW e \in Entries, NEW x \in Int, NEW f, f = [e EXCEPT !.r = x]
    PROVE  /\ f \in Entries
           /\ f.k = e.k /\ f.r = x /\ f.c = e.c /\ f.v = e.v /\ f.of = e.of
BY DEF Entries

LEMMA WithR2 ==
    ASSUME NEW e \in Entries
    PROVE  [e EXCEPT !.r2 = None] = e
BY DEF Entries

LEMMA WithTwo ==
    ASSUME NEW e \in Entries
    PROVE  [e EXCEPT !.two = FALSE] = e
BY DEF Entries

LEMMA WithC ==
    ASSUME NEW e \in Entries, NEW x \in Int \X Int, NEW f, f = [e EXCEPT !.c = x]
    PROVE  /\ f \in Entries
           /\ f.k = e.k /\ f.r = e.r /\ f.c = x /\ f.v = e.v /\ f.of = e.of
BY DEF Entries

LEMMA WithV ==
    ASSUME NEW e \in Entries, NEW x \in Int \X Int, NEW f, f = [e EXCEPT !.v = x]
    PROVE  /\ f \in Entries
           /\ f.k = e.k /\ f.r = e.r /\ f.c = e.c /\ f.v = x /\ f.of = e.of
BY DEF Entries

LEMMA WithOf ==
    ASSUME NEW e \in Entries, NEW x \in Seq(Words3), NEW f, f = [e EXCEPT !.of = x]
    PROVE  /\ f \in Entries
           /\ f.k = e.k /\ f.r = e.r /\ f.c = e.c /\ f.v = e.v /\ f.of = x
BY DEF Entries

LEMMA EntryIs ==
    ASSUME NEW e \in Entries
    PROVE  /\ e.k \in Kinds /\ e.r \in Int /\ e.r2 = None /\ e.c \in Int \X Int
           /\ e.two = FALSE /\ e.v \in Int \X Int /\ e.of \in Seq(Words3)
BY DEF Entries

LEMMA ConstIs ==
    ASSUME NEW v \in Int \X Int
    PROVE  /\ Const(v) \in Entries
           /\ Const(v).k = "const" /\ Const(v).v = v
BY DEF Const, Entries, Kinds, None

LEMMA InRegIs ==
    ASSUME NEW v \in Int \X Int, NEW r \in Int
    PROVE  /\ InReg(v, r) \in Entries
           /\ InReg(v, r).k = "reg" /\ InReg(v, r).r = r /\ InReg(v, r).v = v
<1>1. PICK e \in Entries : e = Const(v) /\ e.v = v
  BY ConstIs
<1>2. "reg" \in Kinds
  BY DEF Kinds
<1>3. PICK f : f = [e EXCEPT !.k = "reg"]
  OBVIOUS
<1>13. f \in Entries /\ f.k = "reg" /\ f.v = v
  BY <1>3, <1>1, <1>2, WithK
<1>4. PICK g : g = [f EXCEPT !.r = r]
  OBVIOUS
<1>14. g \in Entries /\ g.k = "reg" /\ g.v = v /\ g.r = r
  BY <1>4, <1>13, WithR
<1>5. g = InReg(v, r)
  BY <1>1, <1>3, <1>13, <1>4, <1>14 DEF InReg
<1> QED
  BY <1>4, <1>14, <1>5

LEMMA LocalIs ==
    ASSUME NEW v \in Int \X Int, NEW b \in Int
    PROVE  /\ Local(v, b, FALSE) \in Entries
           /\ Local(v, b, FALSE).k = "local" /\ Local(v, b, FALSE).c = <<b, 0>>
           /\ Local(v, b, FALSE).v = v
<1>1. PICK e \in Entries : e = Const(v) /\ e.v = v
  BY ConstIs
<1>2. "local" \in Kinds /\ <<b, 0>> \in Int \X Int
  BY DEF Kinds
<1>3. PICK f : f = [e EXCEPT !.k = "local"]
  OBVIOUS
<1>13. f \in Entries /\ f.k = "local" /\ f.v = v
  BY <1>3, <1>1, <1>2, WithK
<1>4. PICK g : g = [f EXCEPT !.c = <<b, 0>>]
  OBVIOUS
<1>14. g \in Entries /\ g.k = "local" /\ g.v = v /\ g.c = <<b, 0>>
  BY <1>4, <1>2, <1>13, WithC
<1>5. [g EXCEPT !.two = FALSE] = g
  BY <1>4, <1>14, WithTwo
<1>6. g = Local(v, b, FALSE)
  BY <1>1, <1>3, <1>13, <1>4, <1>14, <1>5 DEF Local
<1> QED
  BY <1>4, <1>14, <1>6

LEMMA ComparedIs ==
    ASSUME NEW v \in Int \X Int, NEW c \in Int \X Int, NEW of \in Seq(Words3)
    PROVE  /\ Compared(v, c, of) \in Entries
           /\ Compared(v, c, of).k = "cmp" /\ Compared(v, c, of).c = c
           /\ Compared(v, c, of).v = v /\ Compared(v, c, of).of = of
<1>1. PICK e \in Entries : e = Const(v) /\ e.v = v
  BY ConstIs
<1>2. "cmp" \in Kinds
  BY DEF Kinds
<1>3. PICK f : f = [e EXCEPT !.k = "cmp"]
  OBVIOUS
<1>13. f \in Entries /\ f.k = "cmp" /\ f.v = v
  BY <1>3, <1>1, <1>2, WithK
<1>4. PICK g : g = [f EXCEPT !.c = c]
  OBVIOUS
<1>14. g \in Entries /\ g.k = "cmp" /\ g.v = v /\ g.c = c
  BY <1>4, <1>13, WithC
<1>5. PICK h : h = [g EXCEPT !.of = of]
  OBVIOUS
<1>15. h \in Entries /\ h.k = "cmp" /\ h.v = v /\ h.c = c /\ h.of = of
  BY <1>5, <1>14, WithOf
<1>6. h = Compared(v, c, of)
  BY <1>1, <1>3, <1>13, <1>4, <1>14, <1>5, <1>15 DEF Compared
<1> QED
  BY <1>5, <1>15, <1>6

LEMMA InTempIs ==
    ASSUME NEW e \in Entries, NEW b \in Int
    PROVE  /\ InTemp(e, b) \in Entries
           /\ InTemp(e, b).k = IF e.k = "at" THEN "llocal" ELSE "local"
           /\ InTemp(e, b).c = <<b, 0>> /\ InTemp(e, b).v = e.v
<1>1. PICK x : x = IF e.k = "at" THEN "llocal" ELSE "local"
  OBVIOUS
<1>2. x \in Kinds /\ None \in Int /\ <<b, 0>> \in Int \X Int
  BY <1>1 DEF Kinds, None
<1>3. PICK f : f = [e EXCEPT !.k = x]
  OBVIOUS
<1>13. f \in Entries /\ f.k = x /\ f.v = e.v
  BY <1>3, <1>2, WithK
<1>4. PICK g : g = [f EXCEPT !.r = None]
  OBVIOUS
<1>14. g \in Entries /\ g.k = x /\ g.v = e.v
  BY <1>4, <1>2, <1>13, WithR
<1>5. [g EXCEPT !.r2 = None] = g
  BY <1>4, <1>14, WithR2
<1>6. PICK h : h = [g EXCEPT !.c = <<b, 0>>]
  OBVIOUS
<1>16. h \in Entries /\ h.k = x /\ h.v = e.v /\ h.c = <<b, 0>>
  BY <1>6, <1>2, <1>14, WithC
<1>7. h = InTemp(e, b)
  BY <1>1, <1>3, <1>13, <1>4, <1>14, <1>5, <1>6, <1>16 DEF InTemp
<1> QED
  BY <1>1, <1>6, <1>16, <1>7

-----------------------------------------------------------------------------
(* Stacks *)

LEMMA DropSeq ==
    ASSUME NEW s \in Seq(Entries), NEW m \in 0..Len(s)
    PROVE  /\ SubSeq(s, 1, m) \in Seq(Entries)
           /\ Len(SubSeq(s, 1, m)) = m
           /\ \A i \in 1..m : SubSeq(s, 1, m)[i] = s[i]
BY SMT

LEMMA PushSeq ==
    ASSUME NEW s \in Seq(Entries), NEW e \in Entries
    PROVE  /\ Append(s, e) \in Seq(Entries)
           /\ Len(Append(s, e)) = Len(s) + 1
           /\ \A i \in 1..Len(s) : Append(s, e)[i] = s[i]
           /\ Append(s, e)[Len(s) + 1] = e
BY SMT

Plain(T) == \A i \in DOMAIN T.st : T.st[i].k # "cmp"

LEMMA SameSound ==
    ASSUME NEW T, NEW U, U.reg = T.reg, U.mem = T.mem, U.loc = T.loc
    PROVE  \A e : Sound(T, e) => Sound(U, e)
BY DEF Sound, Held, First, Content

LEMMA FirstIs ==
    ASSUME NEW T, NEW e
    PROVE  /\ e.k = "const" => First(T, e) = Word(e.v, 1)
           /\ e.k = "reg" => First(T, e) = T.reg[e.r]
           /\ e.k = "at" => First(T, e) = At(T.reg[e.r])
           /\ e.k = "local" => First(T, e) = Content(T, e.c)
           /\ e.k = "llocal" => First(T, e) = At(Content(T, e.c))
           /\ e.k = "cmp" => First(T, e) = IF \A i \in DOMAIN e.of : T.reg[e.c[i]] = e.of[i]
                                          THEN Word(e.v, 1) ELSE Junk
BY DEF First

\* What an entry says stays true as long as what it names is not written.
LEMMA SoundFrom ==
    ASSUME NEW T, NEW e, Sound(T, e), e.k \in Kinds, NEW U, T.loc \in Int, U.loc \in Int,
           e.c \in Int \X Int, T.loc <= U.loc,
           e.k \in {"reg", "at"} => U.reg[e.r] = T.reg[e.r],
           e.k \in {"local", "llocal"} => Content(U, e.c) = Content(T, e.c),
           e.k = "cmp" => \A i \in DOMAIN e.of : U.reg[e.c[i]] = T.reg[e.c[i]]
    PROVE  Sound(U, e)
<1>1. First(U, e) = First(T, e)
  BY FirstIs DEF Kinds
<1> QED
  BY <1>1 DEF Sound, Held

LEMMA InvStack ==
    ASSUME NEW T, Inv(T), NEW U, DOMAIN U = Fields,
           U.reg = T.reg, U.mem = T.mem, U.temps = T.temps, U.loc = T.loc,
           U.base = T.base, U.bad = T.bad,
           U.st \in Seq(Entries),
           \A i \in DOMAIN U.st : Sound(T, U.st[i]),
           \A i \in DOMAIN U.st : U.st[i].k = "cmp" => i = Len(U.st),
           \A i \in DOMAIN U.st : U.st[i].k = "reg" => Alone(U, i)
    PROVE  Inv(U)
<1>1. \A i \in DOMAIN U.st : Sound(U, U.st[i])
  BY SameSound
<1>2. State(U) /\ U.base = None /\ U.bad = {} /\ TempsKnown(U)
  BY DEF Inv, State, TempsKnown
<1> QED
  BY <1>1, <1>2 DEF Inv

\* Inv of a state that differs only in what was found last.
LEMMA InvSame ==
    ASSUME NEW T, Inv(T), NEW U, DOMAIN U = Fields, U.st = T.st,
           U.reg = T.reg, U.mem = T.mem, U.temps = T.temps, U.loc = T.loc,
           U.base = T.base, U.bad = T.bad
    PROVE  Inv(U)
<1>1. \A i \in DOMAIN U.st : Sound(U, U.st[i])
  BY SameSound DEF Inv
<1>2. State(U) /\ U.base = None /\ U.bad = {} /\ TempsKnown(U)
  BY DEF Inv, State, TempsKnown
<1> QED
  BY <1>1, <1>2 DEF Inv, Alone

\* The facts of a stack that do not need the invariant to be opened.
LEMMA InvIs ==
    ASSUME NEW T, Inv(T)
    PROVE  /\ DOMAIN T = Fields
           /\ T.st \in Seq(Entries) /\ Len(T.st) \in Nat /\ DOMAIN T.st = 1..Len(T.st)
           /\ DOMAIN T.reg = Ints
           /\ T.loc \in Nat /\ T.base = None /\ T.bad = {}
           /\ ~NoCode(T)
           /\ \A i \in 1..Len(T.st) : T.st[i] \in Entries /\ Sound(T, T.st[i])
           /\ \A i \in 1..Len(T.st) : T.st[i].k = "cmp" => i = Len(T.st)
           /\ \A i, j \in 1..Len(T.st) :
                 T.st[i].k = "reg" /\ j # i => ~Uses(T.st[j], T.st[i].r)
<1>1. T.st \in Seq(Entries) /\ T.base = None
  BY DEF Inv, State
<1>2. Len(T.st) \in Nat /\ DOMAIN T.st = 1..Len(T.st) /\ \A i \in 1..Len(T.st) : T.st[i] \in Entries
  BY <1>1
<1>3. ~NoCode(T)
  BY <1>1 DEF NoCode, None
<1>4. DOMAIN T = Fields /\ DOMAIN T.reg = Ints /\ T.loc \in Nat /\ T.bad = {}
  BY DEF Inv, State
<1>5. /\ \A i \in 1..Len(T.st) : Sound(T, T.st[i])
      /\ \A i \in 1..Len(T.st) : T.st[i].k = "cmp" => i = Len(T.st)
  BY <1>2 DEF Inv
<1>6. \A i, j \in 1..Len(T.st) : T.st[i].k = "reg" /\ j # i => ~Uses(T.st[j], T.st[i].r)
  BY <1>2 DEF Inv, Alone
<1> QED
  BY <1>1, <1>2, <1>3, <1>4, <1>5, <1>6

LEMMA DropInv ==
    ASSUME NEW T, Inv(T), NEW n \in 0..Len(T.st), NEW D, D = Drop(T, n)
    PROVE  /\ Inv(D)
           /\ Len(D.st) = Len(T.st) - n
           /\ \A i \in 1..Len(D.st) : D.st[i] = T.st[i]
           /\ Rest(T, D)
           /\ n > 0 => Plain(D)
<1>1. PICK m : m = Len(T.st) - n
  OBVIOUS
<1>2. m \in 0..Len(T.st) /\ T.st \in Seq(Entries)
  BY <1>1, InvIs
<1>3. PICK s : s = SubSeq(T.st, 1, m)
  OBVIOUS
<1>4. s \in Seq(Entries) /\ Len(s) = m /\ \A i \in 1..m : s[i] = T.st[i]
  BY <1>2, <1>3, DropSeq
<1>5. D = [T EXCEPT !.st = s] /\ DOMAIN T = Fields
  BY <1>1, <1>3, InvIs DEF Drop
<1>6. DOMAIN D = Fields /\ D.st = s /\ Rest(T, D)
  BY <1>5, WithStack
<1>7. DOMAIN s = 1..m /\ m \in Nat
  BY <1>2, <1>4
<1>8. /\ \A i \in DOMAIN s : Sound(T, s[i])
      /\ \A i \in DOMAIN s : s[i].k = "cmp" => i = Len(s) /\ n = 0
  BY <1>1, <1>2, <1>4, <1>7, InvIs
<1>9. ASSUME NEW i \in DOMAIN s, s[i].k = "reg" PROVE Alone(D, i)
  BY <1>2, <1>4, <1>6, <1>7, <1>9, InvIs DEF Alone
<1>10. Inv(D)
  BY <1>4, <1>6, <1>8, <1>9, InvStack DEF Rest
<1> QED
  BY <1>1, <1>4, <1>6, <1>7, <1>8, <1>10 DEF Plain

LEMMA DropOne ==
    ASSUME NEW T, Inv(T), Len(T.st) >= 1, NEW D, D = Drop(T, 1)
    PROVE  /\ Inv(D) /\ Plain(D) /\ Len(D.st) = Len(T.st) - 1 /\ Rest(T, D)
           /\ \A i \in 1..Len(D.st) : D.st[i] = T.st[i]
<1>1. 1 \in 0..Len(T.st)
  BY InvIs
<1> QED
  BY <1>1, DropInv

\* What may be pushed.
Pushable(T, e) ==
    /\ e \in Entries /\ Sound(T, e)
    /\ \A j \in 1..Len(T.st) : T.st[j].k = "reg" => ~Uses(e, T.st[j].r)
    /\ e.k = "reg" => \A j \in 1..Len(T.st) : ~Uses(T.st[j], e.r)

LEMMA PushInv ==
    ASSUME NEW T, Inv(T), Plain(T), NEW e, Pushable(T, e), NEW U, U = vpushv(T, e)
    PROVE  /\ Inv(U)
           /\ Len(U.st) = Len(T.st) + 1
           /\ \A i \in 1..Len(T.st) : U.st[i] = T.st[i]
           /\ U.st[Len(T.st) + 1] = e
           /\ Rest(T, U)
           /\ e.k # "cmp" => Plain(U)
<1>2. T.st \in Seq(Entries) /\ e \in Entries /\ Len(T.st) \in Nat
  BY InvIs DEF Pushable
<1>3. PICK s : s = Append(T.st, e)
  OBVIOUS
<1>4. /\ s \in Seq(Entries) /\ Len(s) = Len(T.st) + 1 /\ s[Len(T.st) + 1] = e
      /\ \A i \in 1..Len(T.st) : s[i] = T.st[i]
  BY <1>2, <1>3, PushSeq
<1>5. U = [T EXCEPT !.st = s] /\ DOMAIN T = Fields
  BY <1>3, InvIs DEF vpushv
<1>6. DOMAIN U = Fields /\ U.st = s /\ Rest(T, U)
  BY <1>5, WithStack
<1>7. DOMAIN s = 1..Len(T.st) + 1 /\ DOMAIN T.st = 1..Len(T.st)
  BY <1>2, <1>4
<1>8. /\ \A i \in DOMAIN s : Sound(T, s[i])
      /\ \A i \in DOMAIN s : s[i].k = "cmp" => i = Len(s) /\ e.k = "cmp"
  BY <1>2, <1>4, <1>7, InvIs DEF Pushable, Plain
<1>9. ASSUME NEW i \in DOMAIN s, s[i].k = "reg" PROVE Alone(U, i)
  <2>1. SUFFICES ASSUME NEW j \in DOMAIN s, j # i PROVE ~Uses(s[j], s[i].r)
    BY <1>6 DEF Alone
  <2>2. CASE i = Len(s)
    BY <1>2, <1>4, <1>7, <1>9, <2>1, <2>2 DEF Pushable
  <2>3. CASE i # Len(s) /\ j = Len(s)
    BY <1>2, <1>4, <1>7, <1>9, <2>1, <2>3 DEF Pushable
  <2>4. CASE i # Len(s) /\ j # Len(s)
    <3>1. /\ i \in 1..Len(T.st) /\ j \in 1..Len(T.st) /\ j # i
          /\ s[i] = T.st[i] /\ s[j] = T.st[j] /\ T.st[i].k = "reg"
      BY <1>2, <1>4, <1>7, <1>9, <2>1, <2>4
    <3> QED
      BY <3>1, InvIs
  <2> QED
    BY <2>2, <2>3, <2>4
<1>10. Inv(U)
  BY <1>4, <1>6, <1>8, <1>9, InvStack DEF Rest
<1> QED
  BY <1>2, <1>4, <1>6, <1>7, <1>8, <1>10 DEF Plain

\* A register that nobody uses.
Unused(T, r) == r \in Ints /\ \A j \in 1..Len(T.st) : ~Uses(T.st[j], r)

LEMMA SetRegInv ==
    ASSUME NEW T, Inv(T), Plain(T), NEW r, Unused(T, r), NEW w, NEW U, U = SetReg(T, r, w)
    PROVE  /\ Inv(U) /\ Plain(U) /\ U.st = T.st /\ U.reg[r] = w
           /\ \A q \in Ints : q # r => U.reg[q] = T.reg[q]
           /\ U.mem = T.mem /\ U.loc = T.loc /\ U.got = T.got
<1>1. U = [T EXCEPT !.reg[r] = w] /\ DOMAIN T = Fields /\ r \in DOMAIN T.reg /\ r \in Ints
  BY InvIs DEF SetReg, Unused
<1>2. /\ DOMAIN U = Fields /\ DOMAIN U.reg = DOMAIN T.reg /\ U.reg[r] = w
      /\ \A q \in DOMAIN T.reg : q # r => U.reg[q] = T.reg[q]
      /\ U.st = T.st /\ U.mem = T.mem /\ U.temps = T.temps /\ U.loc = T.loc
      /\ U.base = T.base /\ U.bad = T.bad /\ U.var = T.var /\ U.got = T.got
  BY <1>1, WithReg
<1>3. DOMAIN T.reg = Ints /\ DOMAIN T.st = 1..Len(T.st)
  BY InvIs
<1>4. ASSUME NEW i \in 1..Len(T.st) PROVE Sound(U, T.st[i])
  <2>1. PICK e : e = T.st[i]
    OBVIOUS
  <2>2. Sound(T, e) /\ e \in Entries /\ e.k # "cmp" /\ ~Uses(e, r) /\ T.loc \in Int
    BY <1>3, <2>1, InvIs DEF Plain, Unused
  <2>3. e.k \in Kinds /\ e.c \in Int \X Int
    BY <2>2, EntryIs
  <2>4. e.k \in {"reg", "at"} => U.reg[e.r] = T.reg[e.r]
    BY <1>2, <1>3, <2>2 DEF Sound, Uses
  <2>5. Content(U, e.c) = Content(T, e.c)
    BY <1>2 DEF Content
  <2>6. Sound(U, e)
    BY <1>2, <2>2, <2>3, <2>4, <2>5, SoundFrom
  <2> QED
    BY <2>1, <2>6
<1>5. State(U) /\ U.base = None /\ U.bad = {} /\ TempsKnown(U)
  BY <1>2 DEF Inv, State, TempsKnown
<1>6. Inv(U)
  BY <1>2, <1>3, <1>4, <1>5 DEF Inv, Alone
<1> QED
  BY <1>2, <1>3, <1>6 DEF Plain

-----------------------------------------------------------------------------
(* Saving registers *)

LEMMA UsesIs ==
    ASSUME NEW e \in Entries, NEW r \in Ints
    PROVE  Uses(e, r) <=> e.k \in {"reg", "at"} /\ e.r = r
<1>1. e.r2 = -1
  BY EntryIs DEF None
<1>2. r >= 0
  BY RegAssumption DEF Ints
<1>3. e.r2 # r
  BY <1>1, <1>2
<1> QED
  BY <1>3 DEF Uses

\* A set of natural numbers has a least element.
LEMMA LeastIn ==
    ASSUME NEW S, S \subseteq Nat, S # {}
    PROVE  \E i \in S : \A j \in S : i <= j
<1> DEFINE R == OpToRel(<, Nat)
<1>1. \A x, y \in Nat : <<y, x>> \notin R => x <= y
  BY DEF OpToRel
<1>2. IsWellFoundedOn(R, Nat)
  BY NatLessThanWellFounded
<1> HIDE DEF R
<1>3. PICK x \in S : \A y \in S : <<y, x>> \notin R
  BY <1>2, WFMin
<1> QED
  BY <1>1, <1>3

LEMMA MinIs ==
    ASSUME NEW S, S \subseteq Nat, S # {}
    PROVE  Min(S) \in S /\ \A j \in S : Min(S) <= j
<1>1. \E i \in S : \A j \in S : i <= j
  BY LeastIn
<1> QED
  BY <1>1 DEF Min

\* A variable to save a word in, that no entry uses.
Room(T, V) ==
    /\ DOMAIN V = Fields /\ V.st = T.st /\ V.reg = T.reg /\ V.mem = T.mem
    /\ V.base = T.base /\ V.bad = T.bad /\ V.got = T.got
    /\ V.loc \in Nat /\ T.loc <= V.loc /\ V.var \in 1..V.loc
    /\ V.temps \in Seq([b : Nat, two : BOOLEAN]) /\ TempsKnown(V)
    /\ ~TempInUse(T, V.var)

LEMMA RoomIs ==
    ASSUME NEW T, Inv(T)
    PROVE  /\ DOMAIN T = Fields
           /\ T.loc \in Nat /\ T.temps \in Seq([b : Nat, two : BOOLEAN])
           /\ \A i \in DOMAIN T.temps : T.temps[i].b \in 1..T.loc
BY DEF Inv, State, TempsKnown

LEMMA TempAgain ==
    ASSUME NEW T, Inv(T), NEW b, b \in 1..T.loc, ~TempInUse(T, b),
           NEW V, V = [T EXCEPT !.var = b]
    PROVE  Room(T, V)
<1>1. V = [T EXCEPT !.var = b] /\ DOMAIN T = Fields
  BY RoomIs
<1>2. /\ DOMAIN V = Fields /\ V.var = b
      /\ V.st = T.st /\ V.reg = T.reg /\ V.mem = T.mem /\ V.temps = T.temps
      /\ V.loc = T.loc /\ V.base = T.base /\ V.bad = T.bad /\ V.got = T.got
  BY <1>1, WithVar
<1>3. TempsKnown(V) /\ V.temps \in Seq([b : Nat, two : BOOLEAN]) /\ V.loc \in Nat
  BY <1>2 DEF Inv, State, TempsKnown
<1> QED
  BY <1>2, <1>3 DEF Room

LEMMA TempAdded ==
    ASSUME NEW t \in Seq([b : Nat, two : BOOLEAN]), NEW x \in [b : Nat, two : BOOLEAN],
           NEW l \in Nat, x.b \in 1..l, \A i \in 1..Len(t) : t[i].b \in 1..l
    PROVE  /\ Append(t, x) \in Seq([b : Nat, two : BOOLEAN])
           /\ \A i \in DOMAIN Append(t, x) : Append(t, x)[i].b \in 1..l
<1>1. DOMAIN Append(t, x) = 1..Len(t) + 1 /\ Append(t, x) \in Seq([b : Nat, two : BOOLEAN])
  OBVIOUS
<1>2. \A i \in 1..Len(t) + 1 : Append(t, x)[i] = IF i = Len(t) + 1 THEN x ELSE t[i]
  OBVIOUS
<1> QED
  BY <1>1, <1>2

LEMMA TempMade ==
    ASSUME NEW T, Inv(T), NEW l, l = T.loc + 1, NEW s,
           s = T.temps \/ s = Append(T.temps, [b |-> l, two |-> FALSE]),
           NEW V, V = [T EXCEPT !.loc = l, !.var = l, !.temps = s]
    PROVE  Room(T, V)
<1>1. DOMAIN T = Fields
  BY RoomIs
<1>2. /\ DOMAIN V = Fields /\ V.loc = l /\ V.var = l /\ V.temps = s
      /\ V.st = T.st /\ V.reg = T.reg /\ V.mem = T.mem
      /\ V.base = T.base /\ V.bad = T.bad /\ V.got = T.got
  BY <1>1, Zenon DEF Fields
<1>3. PICK x, t : x = [b |-> l, two |-> FALSE] /\ t = T.temps
  OBVIOUS
<1>4. T.loc \in Nat /\ l \in Nat /\ T.loc <= l /\ l \in 1..l
  BY RoomIs
<1>5. /\ x \in [b : Nat, two : BOOLEAN] /\ x.b \in 1..l
      /\ t \in Seq([b : Nat, two : BOOLEAN])
      /\ \A i \in 1..Len(t) : t[i].b \in 1..l
      /\ s = t \/ s = Append(t, x)
  BY <1>3, <1>4, RoomIs
<1>6. s \in Seq([b : Nat, two : BOOLEAN]) /\ \A i \in DOMAIN s : s[i].b \in 1..l
  <2>1. CASE s = t
    BY <1>5, <2>1
  <2>2. CASE s = Append(t, x)
    BY <1>5, <2>2, TempAdded
  <2> QED
    BY <1>5, <2>1, <2>2
<1>7. ~TempInUse(T, l)
  <2>1. SUFFICES ASSUME NEW i \in DOMAIN T.st, T.st[i].k \in {"local", "llocal"},
                        T.st[i].c = <<l, 0>>
                 PROVE  FALSE
    BY DEF TempInUse
  <2>2. T.st[i].c[1] <= T.loc
    BY <2>1, InvIs DEF Sound
  <2> QED
    BY <1>4, <2>1, <2>2
<1>8. TempsKnown(V)
  BY <1>2, <1>6 DEF TempsKnown
<1> QED
  BY <1>2, <1>4, <1>6, <1>7, <1>8 DEF Room

LEMMA TempFound ==
    ASSUME NEW T, Inv(T)
    PROVE  Room(T, get_temp_local_var(T, FALSE))
<1>2. CASE FreeTemps(T, FALSE) # {}
  <2>1. PICK i : i = Min(FreeTemps(T, FALSE))
    OBVIOUS
  <2>2. FreeTemps(T, FALSE) \subseteq Nat
    BY RoomIs DEF FreeTemps
  <2>3. i \in FreeTemps(T, FALSE)
    BY <1>2, <2>1, <2>2, MinIs
  <2>4. i \in DOMAIN T.temps /\ ~TempInUse(T, T.temps[i].b)
    BY <2>3 DEF FreeTemps
  <2>5. PICK b : b = T.temps[i].b
    OBVIOUS
  <2>6. b \in 1..T.loc /\ ~TempInUse(T, b)
    BY <2>4, <2>5, RoomIs
  <2>7. get_temp_local_var(T, FALSE) = [T EXCEPT !.var = b]
    BY <1>2, <2>1, <2>5 DEF get_temp_local_var
  <2> QED
    BY <2>6, <2>7, TempAgain
<1>3. CASE FreeTemps(T, FALSE) = {}
  <2>1. PICK l : l = T.loc + 1
    OBVIOUS
  <2>2. PICK s : s = IF Len(T.temps) < MaxTemps
                     THEN Append(T.temps, [b |-> l, two |-> FALSE]) ELSE T.temps
    OBVIOUS
  <2>3. get_temp_local_var(T, FALSE) = [T EXCEPT !.loc = l, !.var = l, !.temps = s]
    BY <1>3, <2>1, <2>2 DEF get_temp_local_var
  <2>4. s = T.temps \/ s = Append(T.temps, [b |-> l, two |-> FALSE])
    BY <2>2
  <2> QED
    BY <2>1, <2>3, <2>4, TempMade
<1> QED
  BY <1>2, <1>3

\* The memory after a word is stored in it.
LEMMA StoredWord ==
    ASSUME NEW m, NEW x, NEW w, NEW u, u = Written(m, x, w)
    PROVE  x \in DOMAIN u /\ u[x] = w
BY DEF Written

LEMMA OtherWord ==
    ASSUME NEW m, NEW x, NEW w, NEW u, u = Written(m, x, w), NEW c, c # x
    PROVE  (c \in DOMAIN u <=> c \in DOMAIN m) /\ (c \in DOMAIN m => u[c] = m[c])
BY DEF Written

\* What save_reg does: whoever has the register is told where its value is now.
Saved(T, r, U) ==
    /\ Inv(U) /\ Len(U.st) = Len(T.st) /\ U.reg = T.reg /\ U.got = T.got
    /\ Unused(U, r)
    /\ \A i \in 1..Len(T.st) : ~Uses(T.st[i], r) => U.st[i] = T.st[i]
    /\ \A i \in 1..Len(T.st) : Uses(T.st[i], r) => U.st[i].k \in {"local", "llocal"}
    /\ Plain(T) => Plain(U)
    /\ \A q \in Ints : Unused(T, q) => Unused(U, q)

\* One entry told of the variable b.
LEMMA ToldSound ==
    ASSUME NEW T, NEW e \in Entries, Sound(T, e), NEW r \in Ints, e.k \in {"reg", "at"}, e.r = r,
           NEW U, NEW b \in Nat, b >= 1, b <= U.loc, U.reg = T.reg,
           <<b, 0>> \in DOMAIN U.mem, U.mem[<<b, 0>>] = T.reg[r],
           NEW f, f = InTemp(e, b)
    PROVE  f \in Entries /\ Sound(U, f) /\ f.k \in {"local", "llocal"}
<1>0. b \in Int
  OBVIOUS
<1>1. /\ f \in Entries /\ f.c = <<b, 0>> /\ f.v = e.v
      /\ f.k = IF e.k = "at" THEN "llocal" ELSE "local"
  BY <1>0, InTempIs, Zenon
<1>2. Content(U, f.c) = T.reg[r]
  BY <1>1 DEF Content
<1>3. e.v[1] # 0 /\ First(T, e) = Word(e.v, 1)
  BY DEF Sound, Held
<1>4. CASE e.k = "reg"
  <2>1. f.k = "local"
    BY <1>1, <1>4
  <2>2. First(U, f) = T.reg[r] /\ First(T, e) = T.reg[r]
    BY <1>2, <1>4, <2>1, FirstIs
  <2> QED
    BY <1>1, <1>3, <2>1, <2>2 DEF Sound, Held
<1>5. CASE e.k = "at"
  <2>1. f.k = "llocal"
    BY <1>1, <1>5
  <2>2. First(U, f) = At(T.reg[r]) /\ First(T, e) = At(T.reg[r])
    BY <1>2, <1>5, <2>1, FirstIs
  <2> QED
    BY <1>1, <1>3, <2>1, <2>2 DEF Sound, Held
<1> QED
  BY <1>4, <1>5

LEMMA ToldOne ==
    ASSUME NEW T, Inv(T), NEW r \in Ints, NEW b, NEW U,
           U.reg = T.reg, U.loc \in Nat, T.loc <= U.loc, b \in 1..U.loc, ~TempInUse(T, b),
           U.mem = Written(T.mem, <<b, 0>>, T.reg[r]), NEW i \in 1..Len(T.st)
    PROVE  /\ Uses(T.st[i], r) => /\ InTemp(T.st[i], b) \in Entries
                                  /\ Sound(U, InTemp(T.st[i], b))
                                  /\ InTemp(T.st[i], b).k \in {"local", "llocal"}
           /\ ~Uses(T.st[i], r) => Sound(U, T.st[i])
<1>1. PICK e : e = T.st[i]
  OBVIOUS
<1>2. PICK m : m = Written(T.mem, <<b, 0>>, T.reg[r])
  OBVIOUS
<1>3. <<b, 0>> \in DOMAIN m /\ m[<<b, 0>>] = T.reg[r]
  BY <1>2, StoredWord
<1>4. U.mem = m /\ T.loc \in Int /\ U.loc \in Int /\ b \in Nat /\ b >= 1 /\ b <= U.loc
  BY <1>2, InvIs
<1>5. e \in Entries /\ Sound(T, e)
  BY <1>1, InvIs
<1>6. CASE Uses(e, r)
  <2>1. e.k \in {"reg", "at"} /\ e.r = r
    BY <1>5, <1>6, UsesIs
  <2>2. <<b, 0>> \in DOMAIN U.mem /\ U.mem[<<b, 0>>] = T.reg[r]
    BY <1>3, <1>4
  <2>3. PICK f : f = InTemp(e, b)
    OBVIOUS
  <2>4. f \in Entries /\ Sound(U, f) /\ f.k \in {"local", "llocal"}
    BY <1>4, <1>5, <2>1, <2>2, <2>3, ToldSound
  <2> QED
    BY <1>1, <1>6, <2>3, <2>4
<1>7. CASE ~Uses(e, r)
  <2>1. e.k \in Kinds /\ e.c \in Int \X Int
    BY <1>5, EntryIs
  <2>2. ASSUME e.k \in {"local", "llocal"} PROVE Content(U, e.c) = Content(T, e.c)
    <3>1. e.c # <<b, 0>>
      BY <1>1, <2>2, InvIs DEF TempInUse
    <3>2. PICK c : c = e.c
      OBVIOUS
    <3>3. (c \in DOMAIN m <=> c \in DOMAIN T.mem) /\ (c \in DOMAIN T.mem => m[c] = T.mem[c])
      <4>1. PICK x, w : x = <<b, 0>> /\ w = T.reg[r]
        OBVIOUS
      <4>2. m = Written(T.mem, x, w) /\ c # x
        BY <1>2, <3>1, <3>2, <4>1
      <4> QED
        BY ONLY <4>2, OtherWord
    <3>4. Content(U, c) = Content(T, c)
      BY <1>4, <3>3, Zenon DEF Content
    <3> QED
      BY <3>2, <3>4
  <2>3. Sound(U, e)
    BY <1>4, <1>5, <2>1, <2>2, SoundFrom
  <2> QED
    BY <1>1, <1>7, <2>3
<1> QED
  BY <1>6, <1>7

LEMMA ToldAll ==
    ASSUME NEW T, Inv(T), NEW r \in Ints, NEW U, DOMAIN U = Fields,
           U.st \in Seq(Entries), Len(U.st) = Len(T.st), U.reg = T.reg, U.got = T.got,
           U.base = T.base, U.bad = T.bad, U.loc \in Nat,
           U.temps \in Seq([b : Nat, two : BOOLEAN]), TempsKnown(U),
           \A i \in 1..Len(T.st) : Sound(U, U.st[i]),
           \A i \in 1..Len(T.st) : Uses(T.st[i], r) => U.st[i].k \in {"local", "llocal"},
           \A i \in 1..Len(T.st) : ~Uses(T.st[i], r) => U.st[i] = T.st[i]
    PROVE  Saved(T, r, U)
<1>1. DOMAIN U.st = 1..Len(T.st) /\ Len(T.st) \in Nat
  BY InvIs
<1>2. \A i \in 1..Len(T.st) : U.st[i] \in Entries
  BY <1>1
<1>3. State(U) /\ U.base = None /\ U.bad = {}
  <2>1. DOMAIN U.reg = Ints /\ U.base = None /\ U.bad = {}
    BY InvIs
  <2>2. None \in Int
    BY DEF None
  <2> QED
    BY <2>1, <2>2 DEF State
<1>4. ASSUME NEW i \in 1..Len(T.st), U.st[i].k \notin {"local", "llocal"}
      PROVE  U.st[i] = T.st[i] /\ ~Uses(T.st[i], r)
  BY <1>4
<1>5. \A i \in 1..Len(T.st) : U.st[i].k = "cmp" => i = Len(T.st) /\ T.st[i].k = "cmp"
  BY <1>4, InvIs
<1>6. ASSUME NEW i \in 1..Len(T.st), U.st[i].k = "reg" PROVE Alone(U, i)
  <2>1. SUFFICES ASSUME NEW j \in 1..Len(T.st), j # i PROVE ~Uses(U.st[j], U.st[i].r)
    BY <1>1 DEF Alone
  <2>2. U.st[i] = T.st[i]
    BY <1>4, <1>6
  <2>3. CASE Uses(T.st[j], r)
    <3>1. U.st[j] \in Entries /\ U.st[j].k \in {"local", "llocal"}
      BY <1>2, <2>3
    <3>2. U.st[i].r \in Ints
      BY <1>6, <2>2, InvIs DEF Sound
    <3> QED
      BY <3>1, <3>2, UsesIs
  <2>4. CASE ~Uses(T.st[j], r)
    <3>1. U.st[j] = T.st[j]
      BY <2>4
    <3> QED
      BY <1>6, <2>1, <2>2, <3>1, InvIs
  <2> QED
    BY <2>3, <2>4
<1>7. Inv(U)
  BY <1>1, <1>3, <1>5, <1>6 DEF Inv
<1>8. \A j \in 1..Len(T.st) : ~Uses(U.st[j], r)
  <2>1. SUFFICES ASSUME NEW j \in 1..Len(T.st) PROVE ~Uses(U.st[j], r)
    OBVIOUS
  <2>2. CASE Uses(T.st[j], r)
    <3>1. U.st[j] \in Entries /\ U.st[j].k \in {"local", "llocal"}
      BY <1>2, <2>2
    <3> QED
      BY <3>1, UsesIs
  <2>3. CASE ~Uses(T.st[j], r)
    BY <2>3
  <2> QED
    BY <2>2, <2>3
<1>9. Plain(T) => Plain(U)
  BY <1>1, <1>5, InvIs DEF Plain
<1>10. ASSUME NEW q \in Ints, Unused(T, q) PROVE Unused(U, q)
  <2>1. SUFFICES ASSUME NEW j \in 1..Len(T.st) PROVE ~Uses(U.st[j], q)
    BY DEF Unused
  <2>2. CASE Uses(T.st[j], r)
    <3>1. U.st[j] \in Entries /\ U.st[j].k \in {"local", "llocal"}
      BY <1>2, <2>2
    <3> QED
      BY <3>1, UsesIs
  <2>3. CASE ~Uses(T.st[j], r)
    BY <1>10, <2>3 DEF Unused
  <2> QED
    BY <2>2, <2>3
<1> QED
  BY <1>7, <1>8, <1>9, <1>10 DEF Saved, Unused

\* save_reg of a register that some entry has.
LEMMA SaveUsed ==
    ASSUME NEW T, Inv(T), NEW r \in Ints, Users(T, r, 0) # {}
    PROVE  Saved(T, r, save_reg(T, r))
<1>1. PICK V : V = get_temp_local_var(T, FALSE)
  OBVIOUS
<1>2. Room(T, V)
  BY <1>1, TempFound
<1>3. PICK e : e = T.st[Min(Users(T, r, 0))]
  OBVIOUS
<1>4. Len(T.st) \in Nat /\ DOMAIN T.st = 1..Len(T.st)
  BY InvIs
<1>5. Users(T, r, 0) = {i \in DOMAIN T.st : Uses(T.st[i], r)}
  BY <1>4 DEF Users
<1>6. Min(Users(T, r, 0)) \in Users(T, r, 0)
  BY <1>4, <1>5, MinIs
<1>7. e \in Entries /\ Uses(e, r)
  BY <1>3, <1>4, <1>5, <1>6, InvIs
<1>8. e.r = r /\ Pair(e) = FALSE
  BY <1>7, UsesIs, EntryIs DEF Pair
<1>9. save_reg(T, r) = SaveInTemp(V, e, Users(T, r, 0))
  <2>1. ~NoCode(T)
    BY InvIs
  <2>2. save_reg(T, r) = Save(T, e, Users(T, r, 0))
    BY <1>3, <2>1 DEF save_reg, save_reg_upstack
  <2> QED
    BY <1>1, <1>8, <2>2 DEF Save
<1>10. PICK m : m = Written(T.mem, <<V.var, 0>>, T.reg[r])
  OBVIOUS
<1>11. PICK s : s = [i \in DOMAIN T.st |->
                      IF Uses(T.st[i], r) THEN InTemp(T.st[i], V.var) ELSE T.st[i]]
  OBVIOUS
<1>12. V.st = T.st /\ V.reg = T.reg /\ V.mem = T.mem /\ ~NoCode(V) /\ DOMAIN V = Fields
  BY <1>2, InvIs DEF Room, NoCode
<1>13. s = [i \in DOMAIN V.st |->
               IF i \in Users(T, r, 0) THEN InTemp(V.st[i], V.var) ELSE V.st[i]]
  BY <1>5, <1>11, <1>12
<1>14. SaveInTemp(V, e, Users(T, r, 0)) = [V EXCEPT !.mem = m, !.st = s]
  BY <1>8, <1>10, <1>12, <1>13, Zenon DEF SaveInTemp
<1>15. PICK U : U = [V EXCEPT !.mem = m, !.st = s]
  OBVIOUS
<1>16. /\ DOMAIN U = Fields /\ U.mem = m /\ U.st = s
       /\ U.reg = V.reg /\ U.temps = V.temps /\ U.loc = V.loc
       /\ U.base = V.base /\ U.bad = V.bad /\ U.var = V.var /\ U.got = V.got
  BY <1>12, <1>15, Zenon DEF Fields
<1>17. /\ U.reg = T.reg /\ U.got = T.got /\ U.base = T.base /\ U.bad = T.bad
       /\ U.loc \in Nat /\ T.loc <= U.loc /\ V.var \in 1..U.loc /\ ~TempInUse(T, V.var)
       /\ U.temps \in Seq([b : Nat, two : BOOLEAN])
  BY <1>2, <1>16 DEF Room
<1>18. TempsKnown(U)
  BY <1>2, <1>16 DEF Room, TempsKnown
<1>19. ASSUME NEW i \in 1..Len(T.st)
       PROVE  /\ s[i] \in Entries /\ Sound(U, s[i])
              /\ Uses(T.st[i], r) => s[i].k \in {"local", "llocal"}
              /\ ~Uses(T.st[i], r) => s[i] = T.st[i]
  <2>1. s[i] = IF Uses(T.st[i], r) THEN InTemp(T.st[i], V.var) ELSE T.st[i]
    BY <1>4, <1>11
  <2>2. U.mem = Written(T.mem, <<V.var, 0>>, T.reg[r])
    BY <1>10, <1>16
  <2>3. /\ Uses(T.st[i], r) => /\ InTemp(T.st[i], V.var) \in Entries
                               /\ Sound(U, InTemp(T.st[i], V.var))
                               /\ InTemp(T.st[i], V.var).k \in {"local", "llocal"}
        /\ ~Uses(T.st[i], r) => Sound(U, T.st[i])
    BY <1>17, <2>2, ToldOne
  <2>4. T.st[i] \in Entries
    BY InvIs
  <2> QED
    BY <2>1, <2>3, <2>4, Zenon
<1>20. s \in Seq(Entries) /\ Len(s) = Len(T.st)
  <2>1. s = [i \in 1..Len(T.st) |-> s[i]]
    BY <1>4, <1>11
  <2> QED
    BY <1>4, <1>19, <2>1
<1>21. Saved(T, r, U)
  BY <1>16, <1>17, <1>18, <1>19, <1>20, ToldAll
<1> QED
  BY <1>9, <1>14, <1>15, <1>21

\* save_reg
LEMMA SaveIs ==
    ASSUME NEW T, Inv(T), NEW r \in Ints, NEW U, U = save_reg(T, r)
    PROVE  Saved(T, r, U)
<1>1. CASE Users(T, r, 0) = {}
  <2>1. U = T
    BY <1>1 DEF save_reg, save_reg_upstack
  <2>2. Len(T.st) \in Nat
    BY InvIs
  <2>3. \A i \in 1..Len(T.st) : ~Uses(T.st[i], r)
    BY <1>1, <2>2 DEF Users
  <2> QED
    BY <2>1, <2>3 DEF Saved, Unused
<1>2. CASE Users(T, r, 0) # {}
  BY <1>2, SaveUsed
<1> QED
  BY <1>1, <1>2

-----------------------------------------------------------------------------
(* Getting a register *)

\* What get_reg does.  The two entries on top keep the registers they are in, if any will do.
Got(T, class, U) ==
    /\ Inv(U) /\ Len(U.st) = Len(T.st) /\ U.reg = T.reg
    /\ U.got \in class /\ Unused(U, U.got)
    /\ \A i \in 1..Len(T.st) : ~Uses(T.st[i], U.got) => U.st[i] = T.st[i]
    /\ Plain(T) => Plain(U)
    /\ \A q \in Ints : Unused(T, q) => Unused(U, q)
    /\ class = Ints => \A i \in 1..Len(T.st) :
                          T.st[i].k = "reg" /\ i >= Len(T.st) - 1 => U.st[i] = T.st[i]

Class(class) == class = Ints \/ \E r \in Ints : class = {r}

LEMMA ClassIs ==
    ASSUME NEW class, Class(class)
    PROVE  class \subseteq Ints /\ class # {} /\ class \subseteq Nat
<1>1. Ints \subseteq Nat /\ 0 \in Ints
  BY RegAssumption DEF Ints
<1> QED
  BY <1>1 DEF Class

LEMMA GotFree ==
    ASSUME NEW T, Inv(T), NEW class, Class(class), NEW r \in class, Unused(T, r),
           NEW U, U = [T EXCEPT !.got = r]
    PROVE  Got(T, class, U)
<1>1. U = [T EXCEPT !.got = r] /\ DOMAIN T = Fields
  BY InvIs
<1>2. /\ DOMAIN U = Fields /\ U.got = r
      /\ U.st = T.st /\ U.reg = T.reg /\ U.mem = T.mem /\ U.temps = T.temps
      /\ U.loc = T.loc /\ U.base = T.base /\ U.bad = T.bad /\ U.var = T.var
  BY <1>1, WithGot
<1>3. Inv(U)
  BY <1>2, InvSame
<1>4. Unused(U, r) /\ (Plain(T) => Plain(U)) /\ \A q \in Ints : Unused(T, q) => Unused(U, q)
  BY <1>2 DEF Unused, Plain
<1> QED
  BY <1>2, <1>3, <1>4 DEF Got

LEMMA GotSaved ==
    ASSUME NEW T, Inv(T), NEW class, Class(class), NEW r \in class,
           class = Ints => \A i \in 1..Len(T.st) :
                              T.st[i].k = "reg" /\ i >= Len(T.st) - 1 => T.st[i].r # r,
           NEW U, U = SaveHeld(T, r)
    PROVE  Got(T, class, U)
<1>1. PICK S : S = save_reg(T, r)
  OBVIOUS
<1>2. r \in Ints
  BY ClassIs
<1>3. Saved(T, r, S)
  BY <1>1, <1>2, SaveIs
<1>4. Inv(S)
  BY <1>3 DEF Saved
<1>5. U = [S EXCEPT !.got = r] /\ DOMAIN S = Fields
  BY <1>1, <1>4, InvIs DEF SaveHeld
<1>6. /\ DOMAIN U = Fields /\ U.got = r
      /\ U.st = S.st /\ U.reg = S.reg /\ U.mem = S.mem /\ U.temps = S.temps
      /\ U.loc = S.loc /\ U.base = S.base /\ U.bad = S.bad /\ U.var = S.var
  BY <1>5, WithGot
<1>7. Inv(U)
  BY <1>4, <1>6, InvSame
<1>8. /\ Len(S.st) = Len(T.st) /\ S.reg = T.reg /\ Unused(S, r)
      /\ \A i \in 1..Len(T.st) : ~Uses(T.st[i], r) => S.st[i] = T.st[i]
      /\ Plain(T) => Plain(S)
      /\ \A q \in Ints : Unused(T, q) => Unused(S, q)
  BY <1>3 DEF Saved
<1>9. /\ Unused(U, r) /\ (Plain(T) => Plain(U))
      /\ \A q \in Ints : Unused(T, q) => Unused(U, q)
  BY <1>6, <1>8 DEF Unused, Plain
<1>10. ASSUME class = Ints, NEW i \in 1..Len(T.st), T.st[i].k = "reg", i >= Len(T.st) - 1
       PROVE  U.st[i] = T.st[i]
  <2>1. T.st[i].r # r /\ T.st[i] \in Entries
    BY <1>10, InvIs
  <2>2. ~Uses(T.st[i], r)
    BY <1>2, <2>1, UsesIs
  <2> QED
    BY <1>6, <1>8, <2>2
<1> QED
  BY <1>6, <1>7, <1>8, <1>9, <1>10 DEF Got

\* When no register is free the lowest entry that has one gives it up: with three registers
\* that is never one of the two entries on top.
LEMMA FirstHeldIs ==
    ASSUME NEW T, Inv(T), NEW class, Class(class),
           \A r \in class : \E i \in DOMAIN T.st : Uses(T.st[i], r)
    PROVE  /\ FirstHeld(T, class) \in class
           /\ class = Ints => \A i \in 1..Len(T.st) :
                 T.st[i].k = "reg" /\ i >= Len(T.st) - 1 => T.st[i].r # FirstHeld(T, class)
<1> DEFINE held(e) == {r \in class : Uses(e, r)}
           holders == {i \in DOMAIN T.st : held(T.st[i]) # {}}
<1>1. PICK m : m = Min(holders)
  OBVIOUS
<1>2. class \subseteq Ints /\ class # {} /\ -1 \notin class
  BY ClassIs
<1>3. holders # {}
  BY <1>2
<1>4. DOMAIN T.st = 1..Len(T.st) /\ Len(T.st) \in Nat
  BY InvIs
<1>5. holders \subseteq Nat
  BY <1>4
<1>6. m \in holders /\ \A i \in holders : m <= i
  <2> HIDE DEF holders
  <2> QED
    BY <1>1, <1>3, <1>5, MinIs
<1>7. PICK e : e = T.st[m]
  OBVIOUS
<1>8. FirstHeld(T, class) = IF e.r2 \in class THEN e.r2 ELSE e.r
  BY <1>1, <1>7 DEF FirstHeld
<1>9. m \in 1..Len(T.st) /\ e \in Entries
  BY <1>4, <1>6, <1>7, InvIs
<1>10. e.r2 \notin class
  BY <1>2, <1>9, EntryIs DEF None
<1>11. PICK q \in class : Uses(e, q)
  BY <1>6, <1>7
<1>12. e.k \in {"reg", "at"} /\ e.r = q /\ q \in Ints
  BY <1>2, <1>9, <1>11, UsesIs
<1>13. FirstHeld(T, class) = q
  BY <1>8, <1>10, <1>12
<1>14. ASSUME class = Ints, NEW p \in 1..Len(T.st), T.st[p].k = "reg", p >= Len(T.st) - 1,
              T.st[p].r = q
       PROVE  FALSE
  <2>1. m = p
    BY <1>7, <1>9, <1>11, <1>14, InvIs
  <2>2. \A r \in class : \E i \in 1..Len(T.st) : Uses(T.st[i], r) /\ i >= p
    <3>1. SUFFICES ASSUME NEW r \in class PROVE \E i \in 1..Len(T.st) : Uses(T.st[i], r) /\ i >= p
      OBVIOUS
    <3>2. PICK i \in 1..Len(T.st) : Uses(T.st[i], r)
      BY <1>4, <3>1
    <3>3. i \in holders
      BY <1>4, <3>2
    <3> QED
      BY <1>6, <2>1, <3>2, <3>3
  <2>3. 0 \in class /\ 1 \in class /\ 2 \in class
    BY <1>14, RegAssumption DEF Ints
  <2>4. PICK i0 \in 1..Len(T.st) : Uses(T.st[i0], 0) /\ i0 >= p
    BY <2>2, <2>3
  <2>5. PICK i1 \in 1..Len(T.st) : Uses(T.st[i1], 1) /\ i1 >= p
    BY <2>2, <2>3
  <2>6. PICK i2 \in 1..Len(T.st) : Uses(T.st[i2], 2) /\ i2 >= p
    BY <2>2, <2>3
  <2>7. T.st[i0] \in Entries /\ T.st[i1] \in Entries /\ T.st[i2] \in Entries
    BY InvIs
  <2>8. T.st[i0].r = 0 /\ T.st[i1].r = 1 /\ T.st[i2].r = 2
    BY <1>14, <2>3, <2>4, <2>5, <2>6, <2>7, UsesIs
  <2>9. i0 # i1 /\ i1 # i2 /\ i0 # i2
    BY <2>8
  <2>10. Len(T.st) \in Nat /\ p >= Len(T.st) - 1 /\ i0 >= p /\ i1 >= p /\ i2 >= p
    BY <1>4, <1>14, <2>4, <2>5, <2>6
  <2> QED
    BY <2>9, <2>10
<1> HIDE DEF held, holders
<1> QED
  BY <1>11, <1>13, <1>14

LEMMA GetRegIs ==
    ASSUME NEW T, Inv(T), NEW class, Class(class), NEW U, U = get_reg(T, class)
    PROVE  Got(T, class, U)
<1> DEFINE free == {r \in class : \A i \in DOMAIN T.st : ~Uses(T.st[i], r)}
<1>1. ~NoCode(T) /\ DOMAIN T.st = 1..Len(T.st)
  BY InvIs
<1>2. CASE free # {}
  <2>1. PICK r : r = Min(free)
    OBVIOUS
  <2>2. free \subseteq Nat
    BY ClassIs
  <2>3. r \in free
    <3> HIDE DEF free
    <3> QED
      BY <1>2, <2>1, <2>2, MinIs
  <2>4. r \in class /\ Unused(T, r)
    BY <1>1, <2>3, ClassIs DEF Unused
  <2>5. U = [T EXCEPT !.got = r]
    BY <1>1, <1>2, <2>1 DEF get_reg
  <2> QED
    BY <2>4, <2>5, GotFree
<1>3. CASE free = {}
  <2>1. PICK r : r = FirstHeld(T, class)
    OBVIOUS
  <2>2. U = SaveHeld(T, r)
    BY <1>1, <1>3, <2>1 DEF get_reg
  <2>3. \A q \in class : \E i \in DOMAIN T.st : Uses(T.st[i], q)
    BY <1>3
  <2>4. /\ r \in class
        /\ class = Ints => \A i \in 1..Len(T.st) :
              T.st[i].k = "reg" /\ i >= Len(T.st) - 1 => T.st[i].r # r
    BY <2>1, <2>3, FirstHeldIs
  <2> QED
    BY <2>2, <2>4, GotSaved
<1> QED
  BY <1>2, <1>3

-----------------------------------------------------------------------------
(* gv *)

LEMMA WordIn ==
    ASSUME NEW v \in Int \X Int
    PROVE  Word(v, 1) \in Words3 /\ Word(v, 1)[1] = v[1]
BY DEF Word, Words3

\* The value v pushed in the register that holds it.
LEMMA PushReg ==
    ASSUME NEW T, Inv(T), Plain(T), NEW r, Unused(T, r), NEW v \in Int \X Int, v[1] # 0,
           T.reg[r] = Word(v, 1), NEW U, U = vpushv(T, InReg(v, r))
    PROVE  /\ Inv(U) /\ Plain(U) /\ Rest(T, U)
           /\ Len(U.st) = Len(T.st) + 1
           /\ \A i \in 1..Len(T.st) : U.st[i] = T.st[i]
           /\ U.st[Len(T.st) + 1].k = "reg" /\ U.st[Len(T.st) + 1].r = r
<1>1. r \in Int /\ r \in Ints
  BY RegAssumption DEF Unused, Ints
<1>2. PICK e : e = InReg(v, r)
  OBVIOUS
<1>3. e \in Entries /\ e.k = "reg" /\ e.r = r /\ e.v = v
  BY <1>1, <1>2, InRegIs
<1>4. Sound(T, e)
  BY <1>1, <1>3, FirstIs DEF Sound, Held
<1>5. \A j \in 1..Len(T.st) : T.st[j].k = "reg" => ~Uses(e, T.st[j].r)
  <2>1. SUFFICES ASSUME NEW j \in 1..Len(T.st), T.st[j].k = "reg" PROVE ~Uses(e, T.st[j].r)
    OBVIOUS
  <2>2. T.st[j] \in Entries /\ T.st[j].r \in Ints /\ ~Uses(T.st[j], r)
    BY <2>1, InvIs DEF Sound, Unused
  <2>3. T.st[j].r # r
    BY <1>1, <2>1, <2>2, UsesIs
  <2> QED
    BY <1>3, <2>2, <2>3, UsesIs
<1>6. Pushable(T, e)
  BY <1>3, <1>4, <1>5 DEF Pushable, Unused
<1>7. U = vpushv(T, e) /\ e.k # "cmp"
  BY <1>2, <1>3
<1> QED
  BY <1>3, <1>6, <1>7, PushInv

LEMMA SetRegIs ==
    ASSUME NEW T, Inv(T), NEW r \in Ints, NEW w, NEW U, U = SetReg(T, r, w)
    PROVE  /\ DOMAIN U = Fields /\ U.reg = [T.reg EXCEPT ![r] = w]
           /\ U.st = T.st /\ U.mem = T.mem /\ U.temps = T.temps /\ U.loc = T.loc
           /\ U.base = T.base /\ U.bad = T.bad /\ U.var = T.var /\ U.got = T.got
<1>1. U = [T EXCEPT !.reg[r] = w] /\ DOMAIN T = Fields
  BY InvIs DEF SetReg
<1> QED
  BY <1>1, Zenon DEF Fields

\* A register is loaded and entries are dropped: in either order.
LEMMA DropSetReg ==
    ASSUME NEW T, Inv(T), NEW n \in 1..Len(T.st), NEW r, Unused(T, r), NEW w,
           NEW U, U = Drop(SetReg(T, r, w), n)
    PROVE  /\ Inv(U) /\ Plain(U) /\ U.reg[r] = w /\ U.mem = T.mem /\ U.loc = T.loc
           /\ U.got = T.got /\ Unused(U, r)
           /\ Len(U.st) = Len(T.st) - n
           /\ \A i \in 1..Len(T.st) - n : U.st[i] = T.st[i]
<1>0. r \in Ints /\ n \in 0..Len(T.st) /\ n > 0
  BY DEF Unused
<1>1. PICK X : X = SetReg(T, r, w)
  OBVIOUS
<1>2. /\ DOMAIN X = Fields /\ X.reg = [T.reg EXCEPT ![r] = w]
      /\ X.st = T.st /\ X.mem = T.mem /\ X.temps = T.temps /\ X.loc = T.loc
      /\ X.base = T.base /\ X.bad = T.bad /\ X.var = T.var /\ X.got = T.got
  BY <1>0, <1>1, SetRegIs
<1>3. PICK D : D = Drop(T, n)
  OBVIOUS
<1>4. /\ Inv(D) /\ Plain(D) /\ Rest(T, D) /\ Len(D.st) = Len(T.st) - n
      /\ \A i \in 1..Len(D.st) : D.st[i] = T.st[i]
  BY <1>0, <1>3, DropInv
<1>5. Len(T.st) \in Nat
  BY InvIs
<1>6. Unused(D, r)
  BY <1>0, <1>4, <1>5 DEF Unused
<1>7. PICK Y : Y = SetReg(D, r, w)
  OBVIOUS
<1>8. Inv(Y) /\ Plain(Y) /\ Y.st = D.st /\ Y.reg[r] = w
  BY <1>4, <1>6, <1>7, SetRegInv
<1>9. /\ DOMAIN Y = Fields /\ Y.reg = [D.reg EXCEPT ![r] = w]
      /\ Y.st = D.st /\ Y.mem = D.mem /\ Y.temps = D.temps /\ Y.loc = D.loc
      /\ Y.base = D.base /\ Y.bad = D.bad /\ Y.var = D.var /\ Y.got = D.got
  BY <1>0, <1>4, <1>7, SetRegIs
<1>10. PICK s : s = SubSeq(T.st, 1, Len(T.st) - n)
  OBVIOUS
<1>11. U = [X EXCEPT !.st = s] /\ DOMAIN X = Fields
  BY <1>1, <1>2, <1>10 DEF Drop
<1>12. DOMAIN U = Fields /\ U.st = s /\ Rest(X, U)
  BY <1>11, WithStack
<1>13. D = [T EXCEPT !.st = s] /\ DOMAIN T = Fields
  BY <1>3, <1>10, InvIs DEF Drop
<1>14. D.st = s
  BY <1>13, WithStack
<1>15. /\ U.st = Y.st /\ U.reg = Y.reg /\ U.mem = Y.mem /\ U.temps = Y.temps
       /\ U.loc = Y.loc /\ U.base = Y.base /\ U.bad = Y.bad
  BY <1>2, <1>4, <1>9, <1>12, <1>14 DEF Rest
<1>16. Inv(U)
  BY <1>8, <1>12, <1>15, InvSame
<1>17. Plain(U) /\ Unused(U, r)
  BY <1>6, <1>8, <1>15 DEF Plain, Unused
<1>18. U.got = T.got /\ U.mem = T.mem /\ U.loc = T.loc
  BY <1>2, <1>12 DEF Rest
<1> QED
  BY <1>4, <1>8, <1>15, <1>16, <1>17, <1>18

\* The entry on top is now in register r.
TopIn(T, r, U) ==
    /\ Inv(U) /\ Plain(U) /\ Len(U.st) = Len(T.st)
    /\ \A i \in 1..Len(T.st) - 1 : U.st[i] = T.st[i]
    /\ U.st[Len(T.st)].k = "reg" /\ U.st[Len(T.st)].r = r

LEMMA TopOf ==
    ASSUME NEW T, Inv(T), Len(T.st) >= 1
    PROVE  vtop(T) = T.st[Len(T.st)] /\ vtop(T) \in Entries /\ Sound(T, vtop(T))
<1>1. vtop(T) = T.st[Len(T.st)]
  BY DEF vtop, Last
<1>2. Len(T.st) \in 1..Len(T.st)
  BY InvIs
<1> QED
  BY <1>1, <1>2, InvIs

LEMMA LoadIs ==
    ASSUME NEW T, Inv(T), Len(T.st) >= 1, Unused(T, T.got), NEW U, U = Load(T)
    PROVE  TopIn(T, T.got, U)
<1>0. Len(T.st) \in Nat /\ 1 \in 1..Len(T.st)
  BY InvIs
<1>1. PICK e, w, r : e = vtop(T) /\ w = First(T, e) /\ r = T.got
  OBVIOUS
<1>2. e \in Entries /\ Sound(T, e)
  BY <1>1, TopOf
<1>3. e.v \in Int \X Int /\ e.v[1] # 0 /\ w = Word(e.v, 1)
  BY <1>1, <1>2, EntryIs DEF Sound, Held
<1>4. PICK D : D = Drop(SetReg(T, r, w), 1)
  OBVIOUS
<1>14. Inv(T) /\ 1 \in 1..Len(T.st) /\ Unused(T, r) /\ D = Drop(SetReg(T, r, w), 1)
  BY <1>0, <1>1, <1>4
<1>5. /\ Inv(D) /\ Plain(D) /\ D.reg[r] = w /\ Unused(D, r) /\ Len(D.st) = Len(T.st) - 1
      /\ \A i \in 1..Len(T.st) - 1 : D.st[i] = T.st[i]
  BY <1>14, DropSetReg
<1>6. U = vpushv(D, InReg(e.v, r))
  BY <1>1, <1>4 DEF Load, SetTop, load
<1>7. PICK v : v = e.v
  OBVIOUS
<1>8. /\ Inv(D) /\ Plain(D) /\ Unused(D, r) /\ v \in Int \X Int /\ v[1] # 0
      /\ D.reg[r] = Word(v, 1) /\ U = vpushv(D, InReg(v, r))
  BY <1>3, <1>5, <1>6, <1>7
<1>9. /\ Inv(U) /\ Plain(U) /\ Len(U.st) = Len(D.st) + 1
      /\ \A i \in 1..Len(D.st) : U.st[i] = D.st[i]
      /\ U.st[Len(D.st) + 1].k = "reg" /\ U.st[Len(D.st) + 1].r = r
  BY <1>8, PushReg
<1>10. Len(D.st) + 1 = Len(T.st) /\ Len(D.st) = Len(T.st) - 1
  BY <1>0, <1>5
<1> QED
  BY <1>1, <1>5, <1>9, <1>10 DEF TopIn

\* What gv does: the value on top is in a register of the class; an entry keeps its place
\* unless it has the register, and the one under the top keeps a register it is in.
Fetched(T, class, U) ==
    /\ Inv(U) /\ Plain(U) /\ Len(U.st) = Len(T.st)
    /\ U.st[Len(T.st)].k = "reg" /\ U.st[Len(T.st)].r \in class
    /\ \A i \in 1..Len(T.st) - 1 :
          ~Uses(T.st[i], U.st[Len(T.st)].r) => U.st[i] = T.st[i]
    /\ class = Ints => \A i \in 1..Len(T.st) - 1 :
                          T.st[i].k = "reg" /\ i = Len(T.st) - 1 => U.st[i] = T.st[i]

LEMMA GvWordIs ==
    ASSUME NEW T, Inv(T), Len(T.st) >= 1, NEW class, Class(class),
           NEW U, U = gvWord(T, class)
    PROVE  Fetched(T, class, U)
<1>0. vtop(T) = T.st[Len(T.st)] /\ Len(T.st) \in Nat
  BY TopOf, InvIs
<1>1. CASE vtop(T).k = "reg" /\ vtop(T).r \in class
  <2>1. U = T
    BY <1>1 DEF gvWord
  <2>2. Plain(T)
    BY <1>0, <1>1, InvIs DEF Plain
  <2> QED
    BY <1>0, <1>1, <2>1, <2>2 DEF Fetched
<1>2. CASE ~(vtop(T).k = "reg" /\ vtop(T).r \in class)
  <2>1. PICK G : G = get_reg(T, class)
    OBVIOUS
  <2>2. Got(T, class, G)
    BY <2>1, GetRegIs
  <2>3. U = Load(G)
    BY <1>2, <2>1 DEF gvWord
  <2>4. Inv(G) /\ Len(G.st) = Len(T.st) /\ G.got \in class /\ Unused(G, G.got)
    BY <2>2 DEF Got
  <2>5. TopIn(G, G.got, U)
    BY <2>3, <2>4, LoadIs
  <2>6. /\ Inv(U) /\ Plain(U) /\ Len(U.st) = Len(T.st)
        /\ U.st[Len(T.st)].k = "reg" /\ U.st[Len(T.st)].r = G.got
        /\ \A i \in 1..Len(T.st) - 1 : U.st[i] = G.st[i]
    BY <2>4, <2>5 DEF TopIn
  <2>7. \A i \in 1..Len(T.st) - 1 : ~Uses(T.st[i], G.got) => U.st[i] = T.st[i]
    BY <1>0, <2>2, <2>6 DEF Got
  <2>8. class = Ints => \A i \in 1..Len(T.st) - 1 :
                           T.st[i].k = "reg" /\ i = Len(T.st) - 1 => U.st[i] = T.st[i]
    BY <1>0, <2>2, <2>6 DEF Got
  <2> QED
    BY <2>4, <2>6, <2>7, <2>8 DEF Fetched
<1> QED
  BY <1>1, <1>2

LEMMA GvIs ==
    ASSUME NEW T, Inv(T), Len(T.st) >= 1, NEW class, Class(class), NEW U, U = gv(T, class)
    PROVE  Fetched(T, class, U)
<1>1. ~vtop(T).two
  BY TopOf, EntryIs
<1>2. U = gvWord(T, class)
  BY <1>1 DEF gv
<1> QED
  BY <1>2, GvWordIs

-----------------------------------------------------------------------------
(* Rotations *)

LEMMA Concat ==
    ASSUME NEW a \in Seq(Entries), NEW b \in Seq(Entries), NEW c, c = a \o b
    PROVE  /\ c \in Seq(Entries) /\ Len(c) = Len(a) + Len(b)
           /\ \A i \in 1..Len(a) : c[i] = a[i]
           /\ \A i \in 1..Len(b) : c[Len(a) + i] = b[i]
<1>1. c \in Seq(Entries)
  OBVIOUS
<1>2. Len(c) = Len(a) + Len(b)
  OBVIOUS
<1>3. \A i \in 1..Len(a) : c[i] = a[i]
  OBVIOUS
<1>4. ASSUME NEW i \in 1..Len(b) PROVE c[Len(a) + i] = b[i]
  OBVIOUS
<1> QED
  BY <1>1, <1>2, <1>3, <1>4

LEMMA Piece ==
    ASSUME NEW s \in Seq(Entries), NEW m \in Nat, NEW n \in 0..Len(s), m >= 1, m <= n + 1,
           NEW b, b = SubSeq(s, m, n)
    PROVE  /\ b \in Seq(Entries) /\ Len(b) = n - m + 1
           /\ \A i \in 1..n - m + 1 : b[i] = s[m + i - 1]
<1>1. b = [i \in 1..n - m + 1 |-> s[m + i - 1]]
  BY DEF SubSeq
<1>2. \A i \in 1..n - m + 1 : m + i - 1 \in 1..Len(s) /\ s[m + i - 1] \in Entries
  OBVIOUS
<1> QED
  BY <1>1, <1>2

LEMMA RotBIs ==
    ASSUME NEW s \in Seq(Entries), NEW n \in 1..Len(s), NEW t, t = RotB(s, n)
    PROVE  /\ t \in Seq(Entries) /\ Len(t) = Len(s)
           /\ \A i \in 1..Len(s) - n : t[i] = s[i]
           /\ \A i \in Len(s) - n + 1..Len(s) - 1 : t[i] = s[i + 1]
           /\ t[Len(s)] = s[Len(s) - n + 1]
<1>1. PICK m, a, b, u : /\ m = Len(s) - n + 1
                        /\ a = SubSeq(s, 1, m - 1) /\ b = SubSeq(s, m + 1, Len(s))
                        /\ u = a \o b
  OBVIOUS
<1>2. m \in 1..Len(s) /\ Len(s) \in Nat
  BY <1>1
<1>3. t = Append(u, s[m])
  BY <1>1 DEF RotB, RemoveAt
<1>4. a \in Seq(Entries) /\ Len(a) = m - 1 /\ \A i \in 1..m - 1 : a[i] = s[i]
  <2>1. m - 1 \in 0..Len(s) /\ 1 \in Nat /\ a = SubSeq(s, 1, m - 1) /\ 1 <= (m - 1) + 1
    BY <1>1, <1>2
  <2>2. a \in Seq(Entries) /\ Len(a) = m - 1 - 1 + 1 /\ \A i \in 1..m - 1 - 1 + 1 : a[i] = s[1 + i - 1]
    BY <2>1, Piece
  <2> QED
    BY <1>2, <2>2
<1>5. b \in Seq(Entries) /\ Len(b) = Len(s) - m /\ \A i \in 1..Len(s) - m : b[i] = s[m + i]
  <2>1. Len(s) \in 0..Len(s) /\ m + 1 \in Nat /\ b = SubSeq(s, m + 1, Len(s))
        /\ m + 1 >= 1 /\ m + 1 <= Len(s) + 1
    BY <1>1, <1>2
  <2>2. /\ b \in Seq(Entries) /\ Len(b) = Len(s) - (m + 1) + 1
        /\ \A i \in 1..Len(s) - (m + 1) + 1 : b[i] = s[m + 1 + i - 1]
    BY <2>1, Piece
  <2> QED
    BY <1>2, <2>2
<1>11. a \in Seq(Entries) /\ b \in Seq(Entries) /\ u = a \o b
  BY <1>1, <1>4, <1>5
<1>6. /\ u \in Seq(Entries) /\ Len(u) = Len(a) + Len(b)
      /\ \A i \in 1..Len(a) : u[i] = a[i]
      /\ \A i \in 1..Len(b) : u[Len(a) + i] = b[i]
  BY <1>11, Concat
<1>7. Len(u) = Len(s) - 1 /\ \A i \in 1..m - 1 : u[i] = s[i]
  BY <1>2, <1>4, <1>5, <1>6
<1>8. ASSUME NEW i \in m..Len(s) - 1 PROVE u[i] = s[i + 1]
  <2>1. i - m + 1 \in 1..Len(s) - m /\ Len(a) + (i - m + 1) = i
    BY <1>2, <1>4
  <2>2. u[i] = b[i - m + 1]
    BY <1>5, <1>6, <2>1
  <2> QED
    BY <1>2, <1>5, <2>1, <2>2
<1>9. s[m] \in Entries
  BY <1>2
<1>10. /\ t \in Seq(Entries) /\ Len(t) = Len(u) + 1 /\ t[Len(u) + 1] = s[m]
       /\ \A i \in 1..Len(u) : t[i] = u[i]
  BY <1>3, <1>6, <1>9, PushSeq
<1>12. m = Len(s) - n + 1 /\ m - 1 = Len(s) - n
  BY <1>1, <1>2
<1>13. \A i \in m..Len(s) - 1 : t[i] = s[i + 1]
  BY <1>2, <1>7, <1>8, <1>10
<1>14. \A i \in 1..m - 1 : t[i] = s[i]
  BY <1>2, <1>7, <1>10
<1>15. Len(t) = Len(s) /\ t[Len(s)] = s[m]
  BY <1>2, <1>7, <1>10
<1> QED
  BY <1>10, <1>12, <1>13, <1>14, <1>15

LEMMA RotTIs ==
    ASSUME NEW s \in Seq(Entries), NEW n \in 1..Len(s), NEW t, t = RotT(s, n)
    PROVE  /\ t \in Seq(Entries) /\ Len(t) = Len(s)
           /\ \A i \in 1..Len(s) - n : t[i] = s[i]
           /\ t[Len(s) - n + 1] = s[Len(s)]
           /\ \A i \in Len(s) - n + 2..Len(s) : t[i] = s[i - 1]
<1>1. PICK m, u, l : m = Len(s) - n + 1 /\ u = SubSeq(s, 1, Len(s) - 1) /\ l = Last(s)
  OBVIOUS
<1>2. m \in 1..Len(s) /\ Len(s) \in Nat /\ l = s[Len(s)] /\ l \in Entries
  BY <1>1 DEF Last
<1>3. u \in Seq(Entries) /\ Len(u) = Len(s) - 1 /\ \A i \in 1..Len(s) - 1 : u[i] = s[i]
  <2>1. Len(s) - 1 \in 0..Len(s)
    BY <1>2
  <2> QED
    BY <1>1, <2>1, DropSeq
<1>4. t = SubSeq(u, 1, m - 1) \o <<l>> \o SubSeq(u, m, Len(u))
  BY <1>1 DEF RotT, InsertAt
<1>5. PICK a, b, d : a = SubSeq(u, 1, m - 1) /\ b = SubSeq(u, m, Len(u)) /\ d = <<l>>
  OBVIOUS
<1>6. a \in Seq(Entries) /\ Len(a) = m - 1 /\ \A i \in 1..m - 1 : a[i] = u[i]
  <2>1. u \in Seq(Entries) /\ m - 1 \in 0..Len(u) /\ 1 \in Nat /\ a = SubSeq(u, 1, m - 1)
        /\ 1 <= (m - 1) + 1
    BY <1>2, <1>3, <1>5
  <2>2. a \in Seq(Entries) /\ Len(a) = m - 1 - 1 + 1 /\ \A i \in 1..m - 1 - 1 + 1 : a[i] = u[1 + i - 1]
    BY <2>1, Piece
  <2> QED
    BY <1>2, <2>2
<1>7. b \in Seq(Entries) /\ Len(b) = Len(s) - m /\ \A i \in 1..Len(s) - m : b[i] = u[m + i - 1]
  <2>1. u \in Seq(Entries) /\ Len(u) \in 0..Len(u) /\ m \in Nat /\ b = SubSeq(u, m, Len(u))
        /\ m >= 1 /\ m <= Len(u) + 1
    BY <1>2, <1>3, <1>5
  <2>2. /\ b \in Seq(Entries) /\ Len(b) = Len(u) - m + 1
        /\ \A i \in 1..Len(u) - m + 1 : b[i] = u[m + i - 1]
    BY <2>1, Piece
  <2> QED
    BY <1>2, <1>3, <2>2
<1>8. d \in Seq(Entries) /\ Len(d) = 1 /\ d[1] = l
  BY <1>2, <1>5
<1>9. PICK c : c = a \o d
  OBVIOUS
<1>19. a \in Seq(Entries) /\ d \in Seq(Entries) /\ c = a \o d
  BY <1>6, <1>8, <1>9
<1>10. /\ c \in Seq(Entries) /\ Len(c) = Len(a) + Len(d)
       /\ \A i \in 1..Len(a) : c[i] = a[i]
       /\ \A i \in 1..Len(d) : c[Len(a) + i] = d[i]
  BY <1>19, Concat
<1>11. Len(c) = m /\ c[m] = l /\ \A i \in 1..m - 1 : c[i] = u[i]
  <2>1. 1 \in 1..Len(d) /\ Len(a) + 1 = m
    BY <1>2, <1>6, <1>8
  <2>2. c[m] = d[1]
    BY <1>10, <2>1
  <2> QED
    BY <1>2, <1>6, <1>8, <1>10, <2>2
<1>12. t = c \o b
  BY <1>4, <1>5, <1>9
<1>20. c \in Seq(Entries) /\ b \in Seq(Entries) /\ t = c \o b
  BY <1>7, <1>10, <1>12
<1>13. /\ t \in Seq(Entries) /\ Len(t) = Len(c) + Len(b)
       /\ \A i \in 1..Len(c) : t[i] = c[i]
       /\ \A i \in 1..Len(b) : t[Len(c) + i] = b[i]
  BY <1>20, Concat
<1>14. \A i \in 1..m - 1 : t[i] = s[i]
  BY <1>2, <1>3, <1>11, <1>13
<1>15. t[m] = s[Len(s)]
  BY <1>2, <1>11, <1>13
<1>16. ASSUME NEW i \in m + 1..Len(s) PROVE t[i] = s[i - 1]
  <2>1. i - m \in 1..Len(s) - m /\ Len(c) + (i - m) = i
    BY <1>2, <1>11
  <2>2. t[i] = b[i - m]
    BY <1>7, <1>13, <2>1
  <2>3. b[i - m] = u[i - 1] /\ i - 1 \in 1..Len(s) - 1
    BY <1>2, <1>7, <2>1
  <2> QED
    BY <1>3, <2>2, <2>3
<1>17. Len(t) = Len(s)
  BY <1>2, <1>7, <1>11, <1>13
<1>18. m = Len(s) - n + 1 /\ m - 1 = Len(s) - n /\ m + 1 = Len(s) - n + 2
  BY <1>1, <1>2
<1> QED
  BY <1>13, <1>14, <1>15, <1>16, <1>17, <1>18

\* The entries in another order.
Shuffled(l, s, t) ==
    /\ t \in Seq(Entries) /\ Len(t) = l /\ Len(s) = l
    /\ \A i \in 1..l : \E a \in 1..l : t[i] = s[a]
    /\ \A i, j \in 1..l : i # j => \E a, b \in 1..l : a # b /\ t[i] = s[a] /\ t[j] = s[b]

LEMMA RotBShuffles ==
    ASSUME NEW s \in Seq(Entries), NEW n \in 1..Len(s)
    PROVE  Shuffled(Len(s), s, RotB(s, n))
<1>1. PICK t, l : t = RotB(s, n) /\ l = Len(s)
  OBVIOUS
<1>2. l \in Nat /\ n \in 1..l
  BY <1>1
<1>3. /\ t \in Seq(Entries) /\ Len(t) = l
      /\ \A i \in 1..l - n : t[i] = s[i]
      /\ \A i \in l - n + 1..l - 1 : t[i] = s[i + 1]
      /\ t[l] = s[l - n + 1]
  BY <1>1, RotBIs
<1>4. PICK p : p = [i \in 1..l |-> IF i <= l - n THEN i ELSE IF i < l THEN i + 1 ELSE l - n + 1]
  OBVIOUS
<1>5. \A i \in 1..l : p[i] \in 1..l
  BY <1>2, <1>4
<1>6. \A i, j \in 1..l : p[i] = p[j] => i = j
  BY <1>2, <1>4
<1>7. ASSUME NEW i \in 1..l PROVE t[i] = s[p[i]]
  <2>1. CASE i \in 1..l - n
    BY <1>2, <1>3, <1>4, <2>1
  <2>2. CASE i \in l - n + 1..l - 1
    BY <1>2, <1>3, <1>4, <2>2
  <2>3. CASE i = l
    BY <1>2, <1>3, <1>4, <2>3
  <2> QED
    BY <1>2, <2>1, <2>2, <2>3
<1>8. \A i \in 1..l : \E a \in 1..l : t[i] = s[a]
  BY <1>5, <1>7
<1>9. ASSUME NEW i \in 1..l, NEW j \in 1..l, i # j
      PROVE  \E a, b \in 1..l : a # b /\ t[i] = s[a] /\ t[j] = s[b]
  <2>1. p[i] # p[j] /\ t[i] = s[p[i]] /\ t[j] = s[p[j]] /\ p[i] \in 1..l /\ p[j] \in 1..l
    BY <1>5, <1>6, <1>7, <1>9
  <2> QED
    BY <2>1
<1>10. \A i, j \in 1..l : i # j => \E a, b \in 1..l : a # b /\ t[i] = s[a] /\ t[j] = s[b]
  BY <1>9
<1>11. t \in Seq(Entries) /\ Len(t) = l /\ Len(s) = l /\ t = RotB(s, n)
  BY <1>1, <1>3
<1>12. Shuffled(l, s, t)
  BY <1>8, <1>10, <1>11 DEF Shuffled
<1> QED
  BY <1>1, <1>12

LEMMA RotTShuffles ==
    ASSUME NEW s \in Seq(Entries), NEW n \in 1..Len(s)
    PROVE  Shuffled(Len(s), s, RotT(s, n))
<1>1. PICK t, l : t = RotT(s, n) /\ l = Len(s)
  OBVIOUS
<1>2. l \in Nat /\ n \in 1..l
  BY <1>1
<1>3. /\ t \in Seq(Entries) /\ Len(t) = l
      /\ \A i \in 1..l - n : t[i] = s[i]
      /\ t[l - n + 1] = s[l]
      /\ \A i \in l - n + 2..l : t[i] = s[i - 1]
  BY <1>1, RotTIs
<1>4. PICK p : p = [i \in 1..l |-> IF i <= l - n THEN i ELSE IF i = l - n + 1 THEN l ELSE i - 1]
  OBVIOUS
<1>5. \A i \in 1..l : p[i] \in 1..l
  BY <1>2, <1>4
<1>6. \A i, j \in 1..l : p[i] = p[j] => i = j
  BY <1>2, <1>4
<1>7. ASSUME NEW i \in 1..l PROVE t[i] = s[p[i]]
  <2>1. CASE i \in 1..l - n
    BY <1>2, <1>3, <1>4, <2>1
  <2>2. CASE i = l - n + 1
    BY <1>2, <1>3, <1>4, <2>2
  <2>3. CASE i \in l - n + 2..l
    BY <1>2, <1>3, <1>4, <2>3
  <2> QED
    BY <1>2, <2>1, <2>2, <2>3
<1>8. \A i \in 1..l : \E a \in 1..l : t[i] = s[a]
  BY <1>5, <1>7
<1>9. ASSUME NEW i \in 1..l, NEW j \in 1..l, i # j
      PROVE  \E a, b \in 1..l : a # b /\ t[i] = s[a] /\ t[j] = s[b]
  <2>1. p[i] # p[j] /\ t[i] = s[p[i]] /\ t[j] = s[p[j]] /\ p[i] \in 1..l /\ p[j] \in 1..l
    BY <1>5, <1>6, <1>7, <1>9
  <2> QED
    BY <2>1
<1>10. \A i, j \in 1..l : i # j => \E a, b \in 1..l : a # b /\ t[i] = s[a] /\ t[j] = s[b]
  BY <1>9
<1>11. t \in Seq(Entries) /\ Len(t) = l /\ Len(s) = l /\ t = RotT(s, n)
  BY <1>1, <1>3
<1>12. Shuffled(l, s, t)
  BY <1>8, <1>10, <1>11 DEF Shuffled
<1> QED
  BY <1>1, <1>12

LEMMA PermInv ==
    ASSUME NEW T, Inv(T), Plain(T), NEW t, Shuffled(Len(T.st), T.st, t), NEW U, U = [T EXCEPT !.st = t]
    PROVE  Inv(U) /\ Plain(U) /\ Rest(T, U) /\ U.st = t /\ Len(U.st) = Len(T.st)
<1>0. U = [T EXCEPT !.st = t] /\ DOMAIN T = Fields
  BY InvIs
<1>1. DOMAIN U = Fields /\ U.st = t /\ Rest(T, U)
  BY <1>0, WithStack
<1>2. /\ t \in Seq(Entries) /\ Len(t) = Len(T.st) /\ Len(T.st) \in Nat
      /\ DOMAIN T.st = 1..Len(T.st)
  BY InvIs DEF Shuffled
<1>3. DOMAIN t = 1..Len(T.st)
  BY <1>2
<1>4. ASSUME NEW i \in DOMAIN t PROVE Sound(T, t[i]) /\ t[i].k # "cmp"
  <2>1. PICK p \in 1..Len(T.st) : t[i] = T.st[p]
    BY <1>3 DEF Shuffled
  <2> QED
    BY <1>2, <2>1, InvIs DEF Plain
<1>5. ASSUME NEW i \in DOMAIN t, t[i].k = "reg" PROVE Alone(U, i)
  <2>1. SUFFICES ASSUME NEW j \in DOMAIN t, j # i PROVE ~Uses(t[j], t[i].r)
    BY <1>1 DEF Alone
  <2>2. i \in 1..Len(T.st) /\ j \in 1..Len(T.st) /\ i # j
    BY <1>3, <2>1
  <2>3. PICK s, l : s = T.st /\ l = Len(T.st)
    OBVIOUS
  <2>4. Shuffled(l, s, t) /\ i \in 1..l /\ j \in 1..l /\ i # j
    BY <2>2, <2>3
  <2>5. \E a, b \in 1..l : a # b /\ t[i] = s[a] /\ t[j] = s[b]
    BY <2>4 DEF Shuffled
  <2>6. PICK a, b \in 1..l : a # b /\ t[i] = s[a] /\ t[j] = s[b]
    BY <2>5
  <2> QED
    BY <1>5, <2>3, <2>6, InvIs
<1>6. /\ U.reg = T.reg /\ U.mem = T.mem /\ U.temps = T.temps /\ U.loc = T.loc
      /\ U.base = T.base /\ U.bad = T.bad
  BY <1>1 DEF Rest
<1>7. Inv(U)
  BY <1>1, <1>2, <1>4, <1>5, <1>6, InvStack
<1> QED
  BY <1>1, <1>2, <1>4, <1>7 DEF Plain

LEMMA CheckPlain ==
    ASSUME NEW T, Inv(T), Plain(T)
    PROVE  vcheck_cmp(T) = T
<1>1. CASE T.st = <<>>
  BY <1>1 DEF vcheck_cmp
<1>2. CASE T.st # <<>>
  <2>1. Len(T.st) \in DOMAIN T.st
    <3>1. T.st \in Seq(Entries)
      BY InvIs
    <3> QED
      BY <1>2, <3>1
  <2>2. vtop(T).k # "cmp"
    BY <2>1 DEF vtop, Last, Plain
  <2> QED
    BY <2>2 DEF vcheck_cmp
<1> QED
  BY <1>1, <1>2

\* vcheck_cmp
LEMMA CheckIs ==
    ASSUME NEW T, Inv(T), NEW U, U = vcheck_cmp(T)
    PROVE  Inv(U) /\ Plain(U) /\ Len(U.st) = Len(T.st)
<1>0. ~NoCode(T) /\ T.st \in Seq(Entries)
  BY InvIs
<1>1. CASE Plain(T)
  BY <1>1, CheckPlain
<1>2. CASE ~Plain(T)
  <2>1. T.st # <<>> /\ vtop(T).k = "cmp" /\ Len(T.st) >= 1
    <3>1. PICK i \in 1..Len(T.st) : T.st[i].k = "cmp"
      BY <1>2, InvIs DEF Plain
    <3>2. i = Len(T.st)
      BY <3>1, InvIs
    <3> QED
      BY <1>0, <3>1, <3>2 DEF vtop, Last
  <2>2. U = gvWord(T, Ints)
    BY <1>0, <2>1 DEF vcheck_cmp
  <2>3. Class(Ints)
    BY DEF Class
  <2>4. Fetched(T, Ints, U)
    BY <2>1, <2>2, <2>3, GvWordIs
  <2> QED
    BY <2>4 DEF Fetched
<1> QED
  BY <1>1, <1>2

\* vrotb and vrott of a stack that has no comparison on top.
LEMMA VrotbIs ==
    ASSUME NEW T, Inv(T), Plain(T), NEW n \in 1..Len(T.st), NEW U, U = vrotb(T, n)
    PROVE  /\ Inv(U) /\ Plain(U) /\ Rest(T, U) /\ Len(U.st) = Len(T.st)
           /\ \A i \in 1..Len(T.st) - n : U.st[i] = T.st[i]
           /\ \A i \in Len(T.st) - n + 1..Len(T.st) - 1 : U.st[i] = T.st[i + 1]
           /\ U.st[Len(T.st)] = T.st[Len(T.st) - n + 1]
<1>1. PICK s, t : s = T.st /\ t = RotB(T.st, n)
  OBVIOUS
<1>2. s \in Seq(Entries) /\ n \in 1..Len(s) /\ t = RotB(s, n)
  BY <1>1, InvIs
<1>3. /\ Len(t) = Len(s)
      /\ \A i \in 1..Len(s) - n : t[i] = s[i]
      /\ \A i \in Len(s) - n + 1..Len(s) - 1 : t[i] = s[i + 1]
      /\ t[Len(s)] = s[Len(s) - n + 1]
  BY <1>2, RotBIs
<1>4. Shuffled(Len(s), s, t)
  BY <1>2, RotBShuffles
<1>5. U = [T EXCEPT !.st = t]
  BY <1>1, CheckPlain DEF vrotb
<1>6. Inv(U) /\ Plain(U) /\ Rest(T, U) /\ U.st = t
  BY <1>1, <1>4, <1>5, PermInv
<1> QED
  BY <1>1, <1>3, <1>6

LEMMA VrottIs ==
    ASSUME NEW T, Inv(T), Plain(T), NEW n \in 1..Len(T.st), NEW U, U = vrott(T, n)
    PROVE  /\ Inv(U) /\ Plain(U) /\ Rest(T, U) /\ Len(U.st) = Len(T.st)
           /\ \A i \in 1..Len(T.st) - n : U.st[i] = T.st[i]
           /\ U.st[Len(T.st) - n + 1] = T.st[Len(T.st)]
           /\ \A i \in Len(T.st) - n + 2..Len(T.st) : U.st[i] = T.st[i - 1]
<1>1. PICK s, t : s = T.st /\ t = RotT(T.st, n)
  OBVIOUS
<1>2. s \in Seq(Entries) /\ n \in 1..Len(s) /\ t = RotT(s, n)
  BY <1>1, InvIs
<1>3. /\ Len(t) = Len(s)
      /\ \A i \in 1..Len(s) - n : t[i] = s[i]
      /\ t[Len(s) - n + 1] = s[Len(s)]
      /\ \A i \in Len(s) - n + 2..Len(s) : t[i] = s[i - 1]
  BY <1>2, RotTIs
<1>4. Shuffled(Len(s), s, t)
  BY <1>2, RotTShuffles
<1>5. U = [T EXCEPT !.st = t]
  BY <1>1, CheckPlain DEF vrott
<1>6. Inv(U) /\ Plain(U) /\ Rest(T, U) /\ U.st = t
  BY <1>1, <1>4, <1>5, PermInv
<1> QED
  BY <1>1, <1>3, <1>6

-----------------------------------------------------------------------------
(* Operations *)

\* An entry that has no register.
LEMMA PushOther ==
    ASSUME NEW T, Inv(T), Plain(T), NEW e \in Entries, Sound(T, e), e.k \notin {"reg", "at"},
           NEW U, U = vpushv(T, e)
    PROVE  /\ Inv(U) /\ Rest(T, U) /\ Len(U.st) = Len(T.st) + 1
           /\ \A i \in 1..Len(T.st) : U.st[i] = T.st[i]
           /\ U.st[Len(T.st) + 1] = e
           /\ e.k # "cmp" => Plain(U)
<1>1. \A j \in 1..Len(T.st) : T.st[j].k = "reg" => ~Uses(e, T.st[j].r)
  <2>1. SUFFICES ASSUME NEW j \in 1..Len(T.st), T.st[j].k = "reg" PROVE ~Uses(e, T.st[j].r)
    OBVIOUS
  <2>2. T.st[j].r \in Ints
    BY <2>1, InvIs DEF Sound
  <2> QED
    BY <2>2, UsesIs
<1>2. Pushable(T, e)
  BY <1>1 DEF Pushable
<1> QED
  BY <1>2, PushInv

LEMMA SwapPlain ==
    ASSUME NEW T, Inv(T), Plain(T), Len(T.st) >= 2, NEW U, U = vswap(T)
    PROVE  /\ Inv(U) /\ Plain(U) /\ Rest(T, U) /\ Len(U.st) = Len(T.st)
           /\ \A i \in 1..Len(T.st) - 2 : U.st[i] = T.st[i]
           /\ U.st[Len(T.st) - 1] = T.st[Len(T.st)]
           /\ U.st[Len(T.st)] = T.st[Len(T.st) - 1]
<1>1. Len(T.st) \in Nat
  BY InvIs
<1>2. U = vrotb(T, 2) /\ 2 \in 1..Len(T.st)
  BY <1>1 DEF vswap
<1>3. /\ Inv(U) /\ Plain(U) /\ Rest(T, U) /\ Len(U.st) = Len(T.st)
      /\ \A i \in 1..Len(T.st) - 2 : U.st[i] = T.st[i]
      /\ \A i \in Len(T.st) - 2 + 1..Len(T.st) - 1 : U.st[i] = T.st[i + 1]
      /\ U.st[Len(T.st)] = T.st[Len(T.st) - 2 + 1]
  BY <1>2, VrotbIs, SMTT(60)
<1>4. /\ Len(T.st) - 1 \in Len(T.st) - 2 + 1..Len(T.st) - 1
      /\ (Len(T.st) - 1) + 1 = Len(T.st) /\ Len(T.st) - 2 + 1 = Len(T.st) - 1
  BY <1>1
<1> QED
  BY <1>3, <1>4

LEMMA SwapAny ==
    ASSUME NEW T, Inv(T), Len(T.st) >= 2, NEW U, U = vswap(T)
    PROVE  Inv(U) /\ Plain(U) /\ Len(U.st) = Len(T.st)
<1>1. PICK C : C = vcheck_cmp(T)
  OBVIOUS
<1>2. Inv(C) /\ Plain(C) /\ Len(C.st) = Len(T.st)
  BY <1>1, CheckIs
<1>3. vcheck_cmp(C) = C
  BY <1>2, CheckPlain
<1>4. U = vswap(C)
  BY <1>1, <1>3 DEF vswap, vrotb
<1> QED
  BY <1>2, <1>4, SwapPlain

\* gv of the entry under the top: one on top keeps its register.
LEMMA GvUnderIs ==
    ASSUME NEW T, Inv(T), Plain(T), Len(T.st) >= 2, NEW U, U = gvUnder(T)
    PROVE  /\ Inv(U) /\ Plain(U) /\ Len(U.st) = Len(T.st)
           /\ U.st[Len(T.st) - 1].k = "reg"
           /\ T.st[Len(T.st)].k = "reg" => U.st[Len(T.st)] = T.st[Len(T.st)]
<1>1. PICK A, B, l : A = vswap(T) /\ B = gv(A, Ints) /\ l = Len(T.st)
  OBVIOUS
<1>2. l \in Nat /\ l >= 2
  BY <1>1, InvIs
<1>3. /\ Inv(A) /\ Plain(A) /\ Len(A.st) = l
      /\ A.st[l - 1] = T.st[l] /\ A.st[l] = T.st[l - 1]
  BY <1>1, SwapPlain
<1>4. Class(Ints) /\ Len(A.st) >= 1
  BY <1>2, <1>3 DEF Class
<1>5. Fetched(A, Ints, B)
  BY <1>1, <1>3, <1>4, GvIs
<1>6. /\ Inv(B) /\ Plain(B) /\ Len(B.st) = l /\ B.st[l].k = "reg"
      /\ A.st[l - 1].k = "reg" => B.st[l - 1] = A.st[l - 1]
  BY <1>2, <1>3, <1>5 DEF Fetched
<1>7. U = vswap(B) /\ Len(B.st) >= 2
  BY <1>1, <1>2, <1>6 DEF gvUnder
<1>8. /\ Inv(U) /\ Plain(U) /\ Len(U.st) = l
      /\ U.st[l - 1] = B.st[l] /\ U.st[l] = B.st[l - 1]
  BY <1>6, <1>7, SwapPlain
<1> QED
  BY <1>1, <1>3, <1>6, <1>8

\* Both operands in registers.
Both(T) ==
    /\ Inv(T) /\ Plain(T) /\ Len(T.st) >= 2
    /\ T.st[Len(T.st)].k = "reg" /\ T.st[Len(T.st) - 1].k = "reg"

LEMMA Gv2Is ==
    ASSUME NEW T, Inv(T), Len(T.st) >= 2, NEW U, U = gv2(T)
    PROVE  Both(U) /\ Len(U.st) = Len(T.st)
<1>1. PICK l : l = Len(T.st)
  OBVIOUS
<1>2. l \in Nat /\ l >= 2 /\ Class(Ints) /\ vtop(T) = T.st[l]
  BY <1>1, InvIs, TopOf DEF Class
<1>3. CASE vtop(T).k # "cmp"
  <2>1. Plain(T)
    BY <1>1, <1>2, <1>3, InvIs DEF Plain
  <2>2. PICK V, W : V = gvUnder(T) /\ W = gv(V, Ints)
    OBVIOUS
  <2>3. Inv(V) /\ Plain(V) /\ Len(V.st) = l /\ V.st[l - 1].k = "reg"
    BY <1>1, <2>1, <2>2, GvUnderIs
  <2>4. Fetched(V, Ints, W)
    BY <1>2, <2>2, <2>3, GvIs
  <2>5. /\ Inv(W) /\ Plain(W) /\ Len(W.st) = l /\ W.st[l].k = "reg"
        /\ W.st[l - 1] = V.st[l - 1]
    BY <1>2, <2>3, <2>4 DEF Fetched
  <2>6. Under(W).k = "reg"
    BY <2>3, <2>5 DEF Under
  <2>7. U = W
    BY <1>3, <2>2, <2>6 DEF gv2
  <2> QED
    BY <1>1, <1>2, <2>3, <2>5, <2>7 DEF Both
<1>4. CASE vtop(T).k = "cmp"
  <2>1. PICK V, W : V = gv(T, Ints) /\ W = gvUnder(V)
    OBVIOUS
  <2>2. Fetched(T, Ints, V)
    BY <1>1, <1>2, <2>1, GvIs
  <2>3. Inv(V) /\ Plain(V) /\ Len(V.st) = l /\ V.st[l].k = "reg"
    BY <1>1, <2>2 DEF Fetched
  <2>4. /\ Inv(W) /\ Plain(W) /\ Len(W.st) = l /\ W.st[l - 1].k = "reg"
        /\ W.st[l] = V.st[l]
    BY <1>2, <2>1, <2>3, GvUnderIs
  <2>5. vtop(W).k = "reg"
    BY <2>3, <2>4 DEF vtop, Last
  <2>6. U = W
    BY <1>4, <2>1, <2>5 DEF gv2
  <2> QED
    BY <1>1, <1>2, <2>3, <2>4, <2>6 DEF Both
<1> QED
  BY <1>3, <1>4

LEMMA RequireIs ==
    ASSUME NEW T, NEW what, NEW p, p
    PROVE  Require(T, what, p) = T
BY DEF Require

LEMMA IsInIs ==
    ASSUME NEW T, NEW e, Sound(T, e), e.k = "reg"
    PROVE  IsIn(T, e)
BY DEF IsIn, Sound, Held

\* A comparison pushed, of words that are in the registers.
LEMMA PushCmp ==
    ASSUME NEW T, Inv(T), Plain(T), NEW v \in Int \X Int, v[1] # 0,
           NEW c \in Int \X Int, NEW of \in Seq(Words3),
           \A i \in DOMAIN of : i \in {1, 2} /\ c[i] \in Ints /\ T.reg[c[i]] = of[i],
           NEW U, U = vpushv(T, Compared(v, c, of))
    PROVE  Inv(U) /\ Len(U.st) = Len(T.st) + 1
<1>1. PICK e : e = Compared(v, c, of)
  OBVIOUS
<1>2. e \in Entries /\ e.k = "cmp" /\ e.c = c /\ e.v = v /\ e.of = of
  BY <1>1, ComparedIs
<1>3. First(T, e) = Word(e.v, 1)
  BY <1>2, FirstIs
<1>4. Sound(T, e)
  BY <1>2, <1>3 DEF Sound, Held
<1>5. U = vpushv(T, e)
  BY <1>1
<1> QED
  BY <1>2, <1>4, <1>5, PushOther

Ops == {"add", "mul", "less", "equal"}

\* The result v of an operation in a register that nobody has.
LEMMA PushResult ==
    ASSUME NEW T, Inv(T), Plain(T), NEW r, Unused(T, r), NEW v \in Int \X Int, v[1] # 0,
           NEW U, U = vpushv(SetReg(T, r, Word(v, 1)), InReg(v, r))
    PROVE  Inv(U) /\ Plain(U) /\ Len(U.st) = Len(T.st) + 1
<1>1. PICK w, S : w = Word(v, 1) /\ S = SetReg(T, r, w)
  OBVIOUS
<1>2. Inv(S) /\ Plain(S) /\ S.st = T.st /\ S.reg[r] = w
  BY <1>1, SetRegInv
<1>3. Unused(S, r)
  BY <1>2 DEF Unused
<1>4. U = vpushv(S, InReg(v, r)) /\ S.reg[r] = Word(v, 1)
  BY <1>1, <1>2
<1>5. Inv(U) /\ Plain(U) /\ Len(U.st) = Len(S.st) + 1
  BY <1>2, <1>3, <1>4, PushReg
<1> QED
  BY <1>2, <1>5

\* What an operation leaves: one entry less.
Result(T, U) == Inv(U) /\ Len(U.st) = Len(T.st) - 1

LEMMA RegOf ==
    ASSUME NEW T, Inv(T), NEW i \in 1..Len(T.st), T.st[i].k = "reg"
    PROVE  /\ T.st[i] \in Entries /\ T.st[i].r \in Ints /\ T.st[i].r \in Int
           /\ T.st[i].v \in Int \X Int /\ T.st[i].v[1] # 0
           /\ T.reg[T.st[i].r] = Word(T.st[i].v, 1)
<1>1. T.st[i] \in Entries /\ Sound(T, T.st[i])
  BY InvIs
<1>2. T.st[i].r \in Ints /\ First(T, T.st[i]) = Word(T.st[i].v, 1) /\ T.st[i].v[1] # 0
  BY <1>1 DEF Sound, Held
<1>3. First(T, T.st[i]) = T.reg[T.st[i].r]
  BY FirstIs
<1> QED
  BY <1>1, <1>2, <1>3, EntryIs

LEMMA OperateIs ==
    ASSUME NEW T, Both(T), NEW op, NEW v \in Int \X Int, v[1] # 0, NEW U, U = Operate(T, op, v)
    PROVE  Result(T, U)
<1>1. PICK a, b, l : a = Under(T) /\ b = vtop(T) /\ l = Len(T.st)
  OBVIOUS
<1>2. Inv(T) /\ Plain(T) /\ l \in Nat /\ l >= 2
  BY <1>1, InvIs DEF Both
<1>3. a = T.st[l - 1] /\ b = T.st[l] /\ l - 1 \in 1..l /\ l \in 1..l
  BY <1>1, <1>2 DEF Under, vtop, Last
<1>4. a.k = "reg" /\ b.k = "reg"
  BY <1>1, <1>3 DEF Both
<1>5. /\ a.r \in Ints /\ a.r \in Int /\ a.v \in Int \X Int /\ T.reg[a.r] = Word(a.v, 1)
      /\ b.r \in Ints /\ b.r \in Int /\ b.v \in Int \X Int /\ T.reg[b.r] = Word(b.v, 1)
  BY <1>1, <1>2, <1>3, <1>4, RegOf
<1>6. IsIn(T, a) /\ IsIn(T, b)
  BY <1>1, <1>2, <1>3, <1>4, IsInIs, InvIs
<1>7. Require(T, "operand", IsIn(T, Under(T)) /\ IsIn(T, vtop(T))) = T
  BY <1>1, <1>6, RequireIs
<1>8. PICK D, G : D = Drop(T, 2) /\ G = get_reg(D, Ints)
  OBVIOUS
<1>9. U = Combine(G, a, b, op, v)
  BY <1>1, <1>7, <1>8 DEF Operate
<1>10. 2 \in 0..Len(T.st)
  BY <1>1, <1>2
<1>11. Inv(D) /\ Len(D.st) = l - 2 /\ Rest(T, D) /\ Plain(D)
  BY <1>1, <1>2, <1>8, <1>10, DropInv
<1>12. Class(Ints)
  BY DEF Class
<1>13. Got(D, Ints, G)
  BY <1>8, <1>11, <1>12, GetRegIs
<1>14. /\ Inv(G) /\ Plain(G) /\ Len(G.st) = l - 2 /\ G.reg = T.reg
       /\ Unused(G, G.got)
  BY <1>11, <1>13 DEF Got, Rest
<1>15. CASE op \in {"less", "equal"}
  <2>1. PICK c, of : c = <<a.r, b.r>> /\ of = <<Word(a.v, 1), Word(b.v, 1)>>
    OBVIOUS
  <2>2. Word(a.v, 1) \in Words3 /\ Word(b.v, 1) \in Words3
    BY <1>5, WordIn
  <2>3. c \in Int \X Int /\ of \in Seq(Words3) /\ DOMAIN of = {1, 2}
    BY <1>5, <2>1, <2>2
  <2>4. /\ c[1] = a.r /\ of[1] = Word(a.v, 1)
        /\ c[2] = b.r /\ of[2] = Word(b.v, 1)
    BY <2>1
  <2>5. \A i \in DOMAIN of : i \in {1, 2} /\ c[i] \in Ints /\ G.reg[c[i]] = of[i]
    BY <1>5, <1>14, <2>3, <2>4
  <2>6. U = vpushv(G, Compared(v, c, of))
    BY <1>9, <1>15, <2>1 DEF Combine
  <2>7. Inv(U) /\ Len(U.st) = Len(G.st) + 1
    BY <1>14, <2>3, <2>5, <2>6, PushCmp, SMTT(60)
  <2> QED
    BY <1>1, <1>2, <1>14, <2>7 DEF Result
<1>16. CASE op \notin {"less", "equal"}
  <2>1. PICK r : r = G.got
    OBVIOUS
  <2>2. U = vpushv(SetReg(G, r, Word(v, 1)), InReg(v, r)) /\ Unused(G, r)
    BY <1>9, <1>14, <1>16, <2>1 DEF Combine
  <2>3. Inv(U) /\ Len(U.st) = Len(G.st) + 1
    BY <1>14, <2>2, PushResult
  <2> QED
    BY <1>1, <1>2, <1>14, <2>3 DEF Result
<1> QED
  BY <1>15, <1>16

LEMMA GeneralIs ==
    ASSUME NEW T, Inv(T), Len(T.st) >= 2, NEW op, NEW v \in Int \X Int, v[1] # 0,
           NEW U, U = General(T, op, v)
    PROVE  Result(T, U)
<1>1. PICK V : V = gv2(T)
  OBVIOUS
<1>2. Both(V) /\ Len(V.st) = Len(T.st)
  BY <1>1, Gv2Is
<1>3. U = Operate(V, op, v)
  BY <1>1 DEF General
<1>4. Result(V, U)
  BY <1>2, <1>3, OperateIs
<1> QED
  BY <1>2, <1>4 DEF Result

\* The result register may be the operand's own: the operand is dropped before it is written.
LEMMA ImmediateInIs ==
    ASSUME NEW T, Inv(T), Plain(T), Len(T.st) >= 2, NEW D, D = Drop(T, 2), Unused(D, T.got),
           NEW a \in Entries, a.r \in Ints, T.reg[a.r] = Word(a.v, 1),
           NEW op \in Ops, NEW v \in Int \X Int, v[1] # 0, NEW U, U = ImmediateIn(T, a, op, v)
    PROVE  Result(T, U)
<1>1. PICK l, r : l = Len(T.st) /\ r = T.got
  OBVIOUS
<1>2. l \in Nat /\ l >= 2 /\ 2 \in 0..Len(T.st)
  BY <1>1, InvIs
<1>3. Inv(D) /\ Plain(D) /\ Len(D.st) = l - 2 /\ Rest(T, D)
  BY <1>1, <1>2, DropInv
<1>4. PICK w, S : w = Word(v, 1) /\ S = SetReg(D, r, w)
  OBVIOUS
<1>5. Unused(D, r) /\ r \in Ints /\ r \in Int /\ None \in Int /\ a.r \in Int
  BY <1>1, RegAssumption DEF Unused, Ints, None
<1>6. Inv(S) /\ Plain(S) /\ S.st = D.st /\ S.reg[r] = w
  BY <1>3, <1>4, <1>5, SetRegInv
<1>7. CASE op = "add"
  <2>1. U = vpushv(SetReg(D, r, Word(v, 1)), InReg(v, r))
    BY <1>1, <1>7 DEF ImmediateIn
  <2>2. Inv(U) /\ Len(U.st) = Len(D.st) + 1
    BY <1>3, <1>5, <2>1, PushResult
  <2> QED
    BY <1>1, <1>2, <1>3, <2>2 DEF Result
<1>8. CASE op = "less"
  <2>1. PICK c, of : c = <<r, None>> /\ of = <<w>>
    OBVIOUS
  <2>2. w \in Words3
    BY <1>4, WordIn
  <2>3. /\ c \in Int \X Int /\ of \in Seq(Words3) /\ DOMAIN of = {1}
        /\ c[1] = r /\ of[1] = w
    BY <1>5, <2>1, <2>2
  <2>4. \A i \in DOMAIN of : i \in {1, 2} /\ c[i] \in Ints /\ S.reg[c[i]] = of[i]
    BY <1>5, <1>6, <2>3
  <2>5. U = vpushv(S, Compared(v, c, of))
    BY <1>1, <1>4, <1>8, <2>1 DEF ImmediateIn
  <2>6. Inv(U) /\ Len(U.st) = Len(S.st) + 1
    BY <1>6, <2>3, <2>4, <2>5, PushCmp, SMTT(60)
  <2> QED
    BY <1>1, <1>2, <1>3, <1>6, <2>6 DEF Result
<1>9. CASE op = "equal"
  <2>1. PICK c, of : c = <<a.r, None>> /\ of = <<Word(a.v, 1)>>
    OBVIOUS
  <2>2. Word(a.v, 1) \in Words3
    BY WordIn, EntryIs
  <2>3. /\ c \in Int \X Int /\ of \in Seq(Words3) /\ DOMAIN of = {1}
        /\ c[1] = a.r /\ of[1] = Word(a.v, 1)
    BY <1>5, <2>1, <2>2
  <2>4. D.reg = T.reg
    BY <1>3 DEF Rest
  <2>5. \A i \in DOMAIN of : i \in {1, 2} /\ c[i] \in Ints /\ D.reg[c[i]] = of[i]
    BY <2>3, <2>4
  <2>6. U = vpushv(D, Compared(v, c, of))
    BY <1>9, <2>1 DEF ImmediateIn
  <2>7. Inv(U) /\ Len(U.st) = Len(D.st) + 1
    BY <1>3, <2>3, <2>5, <2>6, PushCmp
  <2> QED
    BY <1>1, <1>2, <1>3, <2>7 DEF Result
<1>10. CASE op = "mul"
  <2>1. U = General(T, op, v)
    BY <1>10 DEF ImmediateIn
  <2> QED
    BY <2>1, GeneralIs
<1> QED
  BY <1>7, <1>8, <1>9, <1>10 DEF Ops

LEMMA ImmediateOfIs ==
    ASSUME NEW T, Inv(T), Plain(T), Len(T.st) >= 2, T.st[Len(T.st)].k = "reg",
           NEW op \in Ops, NEW v \in Int \X Int, v[1] # 0, NEW U, U = ImmediateOf(T, op, v)
    PROVE  Result(T, U)
<1>1. PICK a, l : a = vtop(T) /\ l = Len(T.st)
  OBVIOUS
<1>2. l \in Nat /\ l >= 2 /\ l \in 1..l /\ a = T.st[l] /\ a.k = "reg"
  BY <1>1, InvIs DEF vtop, Last
<1>3. a \in Entries /\ a.r \in Ints /\ T.reg[a.r] = Word(a.v, 1) /\ Sound(T, a)
  BY <1>1, <1>2, RegOf, InvIs
<1>4. Require(T, "operand", IsIn(T, a)) = T
  BY <1>2, <1>3, IsInIs, RequireIs
<1>5. PICK D, G, P, W : /\ D = Drop(T, 1) /\ G = get_reg(D, Ints)
                        /\ P = vpushv(G, a) /\ W = vswap(P)
  OBVIOUS
<1>6. U = ImmediateIn(W, a, op, v)
  BY <1>1, <1>4, <1>5 DEF ImmediateOf
<1>7. Len(T.st) >= 1 /\ D = Drop(T, 1)
  BY <1>1, <1>2, <1>5
<1>24. /\ Inv(D) /\ Plain(D) /\ Len(D.st) = Len(T.st) - 1 /\ Rest(T, D)
       /\ \A i \in 1..Len(D.st) : D.st[i] = T.st[i]
  BY <1>7, DropOne
<1>8. /\ Inv(D) /\ Plain(D) /\ Len(D.st) = l - 1 /\ Rest(T, D)
      /\ \A i \in 1..l - 1 : D.st[i] = T.st[i]
  BY <1>1, <1>24
<1>9. Unused(D, a.r)
  <2>1. SUFFICES ASSUME NEW j \in 1..l - 1 PROVE ~Uses(D.st[j], a.r)
    BY <1>3, <1>8 DEF Unused
  <2>2. D.st[j] = T.st[j] /\ j \in 1..l /\ j # l
    BY <1>2, <1>8
  <2> QED
    BY <1>1, <1>2, <2>2, InvIs
<1>10. Class(Ints)
  BY DEF Class
<1>11. Got(D, Ints, G)
  BY <1>5, <1>8, <1>10, GetRegIs
<1>12. /\ Inv(G) /\ Plain(G) /\ Len(G.st) = l - 1 /\ G.reg = T.reg
       /\ Unused(G, G.got) /\ Unused(G, a.r)
  BY <1>3, <1>8, <1>9, <1>11 DEF Got, Rest
<1>13. Pushable(G, a)
  <2>1. Sound(G, a)
    <3>1. First(G, a) = T.reg[a.r]
      BY <1>2, <1>12, FirstIs
    <3> QED
      BY <1>2, <1>3, <3>1 DEF Sound, Held
  <2>2. ASSUME NEW j \in 1..Len(G.st), G.st[j].k = "reg" PROVE ~Uses(a, G.st[j].r)
    <3>1. G.st[j] \in Entries /\ G.st[j].r \in Ints
      BY <1>12, <2>2, RegOf
    <3>2. ~Uses(G.st[j], a.r)
      BY <1>12 DEF Unused
    <3>3. G.st[j].r # a.r
      BY <1>3, <2>2, <3>1, <3>2, UsesIs
    <3> QED
      BY <1>3, <3>1, <3>3, UsesIs
  <2> QED
    BY <1>3, <1>12, <2>1, <2>2 DEF Pushable, Unused
<1>14. a.k # "cmp"
  BY <1>2
<1>15. /\ Inv(P) /\ Plain(P) /\ Len(P.st) = l /\ Rest(G, P)
       /\ \A i \in 1..l - 1 : P.st[i] = G.st[i]
  BY <1>2, <1>5, <1>12, <1>13, <1>14, PushInv, SMTT(60)
<1>16. Inv(P) /\ Plain(P) /\ Len(P.st) >= 2 /\ W = vswap(P)
  BY <1>2, <1>5, <1>15
<1>25. /\ Inv(W) /\ Plain(W) /\ Len(W.st) = Len(P.st) /\ Rest(P, W)
       /\ \A i \in 1..Len(P.st) - 2 : W.st[i] = P.st[i]
  BY <1>16, SwapPlain
<1>17. /\ Inv(W) /\ Plain(W) /\ Len(W.st) = l /\ Rest(P, W)
       /\ \A i \in 1..l - 2 : W.st[i] = P.st[i]
  BY <1>15, <1>25
<1>18. PICK E : E = Drop(W, 2)
  OBVIOUS
<1>19. 2 \in 0..Len(W.st)
  BY <1>2, <1>17
<1>20. Len(E.st) = l - 2 /\ \A i \in 1..l - 2 : E.st[i] = W.st[i]
  BY <1>17, <1>18, <1>19, DropInv
<1>21. W.got = G.got /\ W.reg = T.reg
  BY <1>12, <1>15, <1>17 DEF Rest
<1>22. Unused(E, W.got)
  <2>1. \A j \in 1..l - 2 : j \in 1..l - 1 /\ E.st[j] = G.st[j]
    BY <1>2, <1>15, <1>17, <1>20
  <2> QED
    BY <1>12, <1>20, <1>21, <2>1 DEF Unused
<1>23. Result(W, U)
  BY <1>2, <1>3, <1>6, <1>17, <1>18, <1>21, <1>22, ImmediateInIs
<1> QED
  BY <1>1, <1>17, <1>23 DEF Result

LEMMA GenOpilIs ==
    ASSUME NEW T, Inv(T), Plain(T), Len(T.st) >= 2, NEW op \in Ops,
           NEW v \in Int \X Int, v[1] # 0, NEW U, U = gen_opil(T, op, v)
    PROVE  Result(T, U)
<1>1. CASE vtop(T).k = "const"
  <2>1. PICK S, V : S = vswap(T) /\ V = gv(S, Ints)
    OBVIOUS
  <2>2. Inv(S) /\ Plain(S) /\ Len(S.st) = Len(T.st)
    BY <2>1, SwapPlain
  <2>3. Class(Ints) /\ Len(S.st) >= 1 /\ Len(T.st) \in Nat
    BY <2>2, InvIs DEF Class
  <2>4. Fetched(S, Ints, V)
    BY <2>1, <2>2, <2>3, GvIs
  <2>5. Inv(V) /\ Plain(V) /\ Len(V.st) = Len(T.st) /\ V.st[Len(V.st)].k = "reg"
    BY <2>2, <2>4 DEF Fetched
  <2>6. U = ImmediateOf(V, op, v) /\ Len(V.st) >= 2
    BY <1>1, <2>1, <2>5 DEF gen_opil
  <2>7. Result(V, U)
    BY <2>5, <2>6, ImmediateOfIs
  <2> QED
    BY <2>5, <2>7 DEF Result
<1>2. CASE vtop(T).k # "const"
  <2>1. U = General(T, op, v)
    BY <1>2 DEF gen_opil
  <2> QED
    BY <2>1, GeneralIs
<1> QED
  BY <1>1, <1>2

LEMMA PushConstIs ==
    ASSUME NEW T, Inv(T), Plain(T), NEW v \in Int \X Int, v[1] # 0,
           NEW U, U = vpushv(T, Const(v))
    PROVE  Inv(U) /\ Len(U.st) = Len(T.st) + 1
<1>1. PICK e : e = Const(v)
  OBVIOUS
<1>2. e \in Entries /\ e.k = "const" /\ e.v = v
  BY <1>1, ConstIs
<1>3. First(T, e) = Word(e.v, 1)
  BY <1>2, FirstIs
<1>4. Sound(T, e) /\ e.k \notin {"reg", "at"} /\ U = vpushv(T, e)
  BY <1>1, <1>2, <1>3 DEF Sound, Held
<1> QED
  BY <1>2, <1>4, PushOther

LEMMA GenOpicIs ==
    ASSUME NEW T, Inv(T), Plain(T), Len(T.st) >= 2, NEW op \in Ops,
           NEW v \in Int \X Int, v[1] # 0, NEW U, U = gen_opic(T, op, v)
    PROVE  Result(T, U)
<1>0. Len(T.st) \in Nat /\ 2 \in 0..Len(T.st)
  BY InvIs
<1>1. CASE Under(T).k = "const" /\ vtop(T).k = "const"
  <2>1. PICK D : D = Drop(T, 2)
    OBVIOUS
  <2>2. Inv(D) /\ Plain(D) /\ Len(D.st) = Len(T.st) - 2
    BY <1>0, <2>1, DropInv
  <2>3. U = vpushv(D, Const(v))
    BY <1>1, <2>1 DEF gen_opic
  <2>4. Inv(U) /\ Len(U.st) = Len(D.st) + 1
    BY <2>2, <2>3, PushConstIs
  <2> QED
    BY <1>0, <2>2, <2>4 DEF Result
<1>2. CASE ~(Under(T).k = "const" /\ vtop(T).k = "const")
  <2>1. PICK S : S = IF Under(T).k = "const" /\ op # "less" THEN vswap(T) ELSE T
    OBVIOUS
  <2>2. Inv(S) /\ Plain(S) /\ Len(S.st) = Len(T.st)
    <3>1. CASE S = vswap(T)
      BY <3>1, SwapPlain
    <3>2. CASE S = T
      BY <3>2
    <3> QED
      BY <2>1, <3>1, <3>2
  <2>3. U = gen_opil(S, op, v) /\ Len(S.st) >= 2
    BY <1>2, <2>1, <2>2 DEF gen_opic
  <2>4. Result(S, U)
    BY <2>2, <2>3, GenOpilIs
  <2> QED
    BY <2>2, <2>4 DEF Result
<1> QED
  BY <1>1, <1>2

\* There is always an id that no entry has.
LEMMA SomeIdLeft ==
    ASSUME NEW n \in Nat, NEW f, DOMAIN f = 1..n
    PROVE  (1..n + 1) \ {f[i] : i \in DOMAIN f} # {}
<1> DEFINE R == {f[i] : i \in DOMAIN f}
<1>1. SUFFICES ASSUME 1..n + 1 \subseteq R PROVE FALSE
  OBVIOUS
<1>2. IsFiniteSet(1..n) /\ Cardinality(1..n) = n
  BY FS_Interval
<1>3. IsFiniteSet(1..n + 1) /\ Cardinality(1..n + 1) = n + 1
  BY FS_Interval
<1>4. PICK g : g = [i \in 1..n |-> f[i]]
  OBVIOUS
<1>5. g \in Surjection(1..n, R)
  BY <1>4 DEF Surjection
<1> HIDE DEF R
<1>6. IsFiniteSet(R) /\ Cardinality(R) <= Cardinality(1..n)
  BY <1>2, <1>5, FS_Surjection
<1>7. Cardinality(1..n + 1) <= Cardinality(R) /\ Cardinality(R) \in Nat
  BY <1>1, <1>6, FS_Subset, FS_CardinalityType
<1> QED
  BY <1>2, <1>3, <1>6, <1>7

LEMMA FreshIs ==
    ASSUME NEW T, Len(T.st) \in Nat
    PROVE  Fresh(T) \in Int \X Int /\ Fresh(T)[1] # 0
<1>1. PICK n, f, S : /\ n = 3 * Len(T.st) /\ f = Ids(T)
                     /\ S = (1..n + 1) \ {f[i] : i \in DOMAIN f}
  OBVIOUS
<1>2. n \in Nat /\ DOMAIN f = 1..n /\ Len(T.st) * 3 = n
  BY <1>1 DEF Ids
<1>3. S # {} /\ S \subseteq Nat
  BY <1>1, <1>2, SomeIdLeft
<1>4. Min(S) \in S
  BY <1>3, MinIs
<1>5. Fresh(T) = <<Min(S), 0>>
  BY <1>1, <1>2 DEF Fresh, ToSet
<1>6. Min(S) \in Int /\ Min(S) # 0
  BY <1>1, <1>2, <1>4
<1> QED
  BY <1>5, <1>6

LEMMA GenOpIs ==
    ASSUME NEW T, Inv(T), Len(T.st) >= 2, NEW op \in Ops, NEW U, U = gen_op(T, op)
    PROVE  Result(T, U)
<1>1. PICK S, W, v : S = vswap(T) /\ W = vswap(S) /\ v = Fresh(T)
  OBVIOUS
<1>2. Inv(S) /\ Len(S.st) = Len(T.st)
  BY <1>1, SwapAny
<1>3. Inv(W) /\ Plain(W) /\ Len(W.st) = Len(T.st)
  BY <1>1, <1>2, SwapAny
<1>4. v \in Int \X Int /\ v[1] # 0
  BY <1>1, InvIs, FreshIs
<1>5. U = gen_opic(W, op, v)
  BY <1>1 DEF gen_op
<1>6. Result(W, U)
  BY <1>3, <1>4, <1>5, GenOpicIs
<1> QED
  BY <1>3, <1>6 DEF Result

-----------------------------------------------------------------------------
(* vstore and gv_dup *)

LEMMA SetRegAt ==
    ASSUME NEW T, DOMAIN T = Fields, ~NoCode(T), NEW r, NEW w, NEW U, U = SetReg(T, r, w)
    PROVE  /\ DOMAIN U = Fields /\ U.reg = [T.reg EXCEPT ![r] = w]
           /\ U.st = T.st /\ U.mem = T.mem /\ U.temps = T.temps /\ U.loc = T.loc
           /\ U.base = T.base /\ U.bad = T.bad /\ U.var = T.var /\ U.got = T.got
<1>1. U = [T EXCEPT !.reg[r] = w] /\ DOMAIN T = Fields
  BY DEF SetReg
<1> QED
  BY <1>1, Zenon DEF Fields

\* An entry made the place that register r points to.
AtOf(e, r) == [e EXCEPT !.k = "at", !.r = r, !.c = <<0, 0>>]

LEMMA AtIs ==
    ASSUME NEW e \in Entries, NEW q \in Int, NEW f, f = AtOf(e, q)
    PROVE  f \in Entries /\ f.k = "at" /\ f.r = q /\ f.v = e.v
<1>1. "at" \in Kinds /\ <<0, 0>> \in Int \X Int
  BY DEF Kinds
<1>2. PICK g : g = [e EXCEPT !.k = "at"]
  OBVIOUS
<1>3. g \in Entries /\ g.k = "at" /\ g.v = e.v
  BY <1>1, <1>2, WithK
<1>4. PICK h : h = [g EXCEPT !.r = q]
  OBVIOUS
<1>5. h \in Entries /\ h.k = "at" /\ h.v = e.v /\ h.r = q
  BY <1>3, <1>4, WithR
<1>6. PICK x : x = [h EXCEPT !.c = <<0, 0>>]
  OBVIOUS
<1>7. x \in Entries /\ x.k = "at" /\ x.v = e.v /\ x.r = q
  BY <1>1, <1>5, <1>6, WithC
<1>8. x = f
  BY <1>2, <1>4, <1>6 DEF AtOf
<1> QED
  BY <1>7, <1>8

LEMMA ReloadIs ==
    ASSUME NEW T, Inv(T), Plain(T), Len(T.st) >= 2, T.st[Len(T.st) - 1].k = "llocal",
           Unused(T, T.got), NEW U, U = ReloadPointer(T)
    PROVE  /\ Inv(U) /\ Plain(U) /\ Len(U.st) = Len(T.st)
           /\ U.st[Len(T.st)] = T.st[Len(T.st)]
<1>1. PICK l, q, e : l = Len(T.st) /\ q = T.got /\ e = T.st[l - 1]
  OBVIOUS
<1>2. l \in Nat /\ l >= 2 /\ l - 1 \in 1..l /\ l \in 1..l /\ q \in Int /\ q \in Ints
  BY <1>1, InvIs, RegAssumption DEF Unused, Ints
<1>3. e \in Entries /\ Sound(T, e) /\ e.k = "llocal" /\ e = Under(T)
  BY <1>1, <1>2, InvIs DEF Under
<1>4. PICK f : f = AtOf(e, q)
  OBVIOUS
<1>18. e \in Entries /\ q \in Int /\ f = AtOf(e, q)
  BY <1>2, <1>3, <1>4
<1>5. f \in Entries /\ f.k = "at" /\ f.r = q /\ f.v = e.v
  <2> HIDE <1>1, <1>2, <1>3, <1>4
  <2>1. \A d \in Entries : \A p \in Int : \A g : g = AtOf(d, p) =>
            g \in Entries /\ g.k = "at" /\ g.r = p /\ g.v = d.v
    BY AtIs
  <2>2. e \in Entries => \A p \in Int : \A g : g = AtOf(e, p) =>
            g \in Entries /\ g.k = "at" /\ g.r = p /\ g.v = e.v
    BY ONLY <2>1, Zenon
  <2>3. \A g : g = AtOf(e, q) =>
            g \in Entries /\ g.k = "at" /\ g.r = q /\ g.v = e.v
    BY ONLY <1>18, <2>2
  <2> QED
    BY ONLY <1>18, <2>3
<1>6. PICK w, S : w = Content(T, e.c) /\ S = SetReg(T, q, w)
  OBVIOUS
<1>7. /\ Inv(S) /\ Plain(S) /\ S.st = T.st /\ S.reg[q] = w
      /\ S.mem = T.mem /\ S.loc = T.loc
  BY <1>1, <1>6, SetRegInv
<1>8. PICK s, t : s = T.st /\ t = [s EXCEPT ![l - 1] = f]
  OBVIOUS
<1>9. U = [S EXCEPT !.st = t] /\ DOMAIN S = Fields
  BY <1>1, <1>3, <1>4, <1>6, <1>7, <1>8, InvIs DEF ReloadPointer, ReplaceAt, AtOf
<1>10. DOMAIN U = Fields /\ U.st = t /\ Rest(S, U)
  BY <1>9, WithStack
<1>11. s \in Seq(Entries) /\ Len(s) = l
  BY <1>1, <1>8, InvIs
<1>12. /\ t \in Seq(Entries) /\ Len(t) = l /\ DOMAIN t = 1..l
       /\ t[l - 1] = f /\ \A i \in 1..l : i # l - 1 => t[i] = s[i]
  BY <1>2, <1>5, <1>8, <1>11
<1>13. Sound(S, f)
  <2>1. First(S, f) = At(w)
    BY <1>5, <1>7, FirstIs
  <2>2. First(T, e) = At(w)
    BY <1>3, <1>6, FirstIs
  <2> QED
    BY <1>2, <1>3, <1>5, <2>1, <2>2 DEF Sound, Held
<1>14. ASSUME NEW i \in 1..l PROVE Sound(S, t[i]) /\ t[i].k # "cmp"
  <2>1. CASE i = l - 1
    BY <1>5, <1>12, <1>13, <2>1
  <2>2. CASE i # l - 1
    <3>1. t[i] = S.st[i] /\ i \in 1..Len(S.st)
      BY <1>1, <1>7, <1>8, <1>12, <2>2
    <3> QED
      BY <1>7, <3>1, InvIs DEF Plain
  <2> QED
    BY <2>1, <2>2
<1>15. ASSUME NEW i \in 1..l, t[i].k = "reg" PROVE Alone(U, i)
  <2>1. SUFFICES ASSUME NEW j \in 1..l, j # i PROVE ~Uses(t[j], t[i].r)
    BY <1>10, <1>12 DEF Alone
  <2>2. i # l - 1 /\ t[i] = T.st[i]
    BY <1>5, <1>8, <1>12, <1>15
  <2>3. T.st[i] \in Entries /\ T.st[i].r \in Ints /\ T.st[i].k = "reg"
    BY <1>1, <1>15, <2>2, RegOf
  <2>4. CASE j = l - 1
    <3>1. ~Uses(T.st[i], q)
      BY <1>1 DEF Unused
    <3>2. T.st[i].r # q
      BY <1>2, <2>3, <3>1, UsesIs
    <3>3. ~Uses(f, T.st[i].r)
      BY <1>5, <2>3, <3>2, UsesIs
    <3> QED
      BY <1>12, <2>2, <2>4, <3>3
  <2>5. CASE j # l - 1
    BY <1>1, <1>8, <1>12, <2>1, <2>2, <2>3, <2>5, InvIs
  <2> QED
    BY <2>4, <2>5
<1>16. /\ U.reg = S.reg /\ U.mem = S.mem /\ U.temps = S.temps /\ U.loc = S.loc
       /\ U.base = S.base /\ U.bad = S.bad
  BY <1>10 DEF Rest
<1>17. Inv(U)
  BY <1>7, <1>10, <1>12, <1>14, <1>15, <1>16, InvStack
<1> QED
  BY <1>1, <1>2, <1>8, <1>10, <1>12, <1>14, <1>17 DEF Plain

LEMMA StoreWordsIs ==
    ASSUME NEW T, Inv(T), Len(T.st) >= 2, T.st[Len(T.st)].k = "reg"
    PROVE  StoreWords(T) = T
<1>1. PICK a, b, l : a = Under(T) /\ b = vtop(T) /\ l = Len(T.st)
  OBVIOUS
<1>2. l \in Nat /\ l - 1 \in 1..l /\ l \in 1..l
  BY <1>1, InvIs
<1>3. a = T.st[l - 1] /\ b = T.st[l]
  BY <1>1 DEF Under, vtop, Last
<1>4. Sound(T, a) /\ Sound(T, b) /\ b \in Entries /\ b.k = "reg"
  BY <1>1, <1>2, <1>3, InvIs
<1>5. First(T, a) = Word(a.v, 1) /\ IsIn(T, b) /\ ~b.two
  BY <1>4, IsInIs, EntryIs DEF Sound, Held
<1>6. StoreFirst(T) = T
  BY <1>1, <1>5, RequireIs DEF StoreFirst
<1> QED
  BY <1>1, <1>5, <1>6 DEF StoreWords

\* vstore
LEMMA StoreIs ==
    ASSUME NEW T, Inv(T), Len(T.st) >= 2, NEW U, U = vstore(T)
    PROVE  Result(T, U)
<1>1. PICK l, G : l = Len(T.st) /\ G = gv(T, Ints)
  OBVIOUS
<1>2. Class(Ints) /\ l \in Nat /\ l >= 2 /\ Len(T.st) >= 1
  BY <1>1, InvIs DEF Class
<1>3. Fetched(T, Ints, G)
  BY <1>1, <1>2, GvIs
<1>4. Inv(G) /\ Plain(G) /\ Len(G.st) = l /\ G.st[l].k = "reg"
  BY <1>1, <1>3 DEF Fetched
<1>5. PICK P : P = IF Under(G).k = "llocal" THEN ReloadPointer(get_reg(G, Ints)) ELSE G
  OBVIOUS
<1>6. Inv(P) /\ Plain(P) /\ Len(P.st) = l /\ P.st[l].k = "reg"
  <2>1. CASE Under(G).k = "llocal"
    <3>1. PICK H : H = get_reg(G, Ints)
      OBVIOUS
    <3>2. Got(G, Ints, H)
      BY <1>2, <1>4, <3>1, GetRegIs
    <3>3. /\ Inv(H) /\ Len(H.st) = l /\ Plain(H) /\ Unused(H, H.got)
          /\ H.got \in Ints
          /\ \A i \in 1..l : ~Uses(G.st[i], H.got) => H.st[i] = G.st[i]
          /\ \A i \in 1..l : G.st[i].k = "reg" /\ i >= l - 1 => H.st[i] = G.st[i]
      BY <1>4, <3>2 DEF Got
    <3>4. H.st[l] = G.st[l]
      BY <1>2, <1>4, <3>3
    <3>5. l - 1 \in 1..l /\ G.st[l - 1].k = "llocal"
      BY <1>2, <1>4, <2>1 DEF Under
    <3>6. ~Uses(G.st[l - 1], H.got)
      BY <1>4, <3>3, <3>5, InvIs, UsesIs
    <3>7. H.st[Len(H.st) - 1].k = "llocal" /\ Len(H.st) >= 2
      BY <1>2, <3>3, <3>5, <3>6
    <3>8. P = ReloadPointer(H)
      BY <1>5, <2>1, <3>1
    <3>9. Inv(P) /\ Plain(P) /\ Len(P.st) = Len(H.st) /\ P.st[Len(H.st)] = H.st[Len(H.st)]
      BY <3>3, <3>7, <3>8, ReloadIs
    <3> QED
      BY <1>4, <3>3, <3>4, <3>9
  <2>2. CASE Under(G).k # "llocal"
    BY <1>4, <1>5, <2>2
  <2> QED
    BY <2>1, <2>2
<1>7. StoreValue(G) = P
  <2>1. StoreWords(P) = P
    BY <1>2, <1>6, StoreWordsIs
  <2> QED
    BY <1>5, <2>1 DEF StoreValue
<1>8. PICK W : W = vswap(P)
  OBVIOUS
<1>9. Inv(W) /\ Plain(W) /\ Len(W.st) = l
  BY <1>2, <1>6, <1>8, SwapPlain
<1>10. U = Drop(W, 1) /\ Len(W.st) >= 1
  BY <1>1, <1>2, <1>7, <1>8, <1>9 DEF vstore
<1>11. Inv(U) /\ Len(U.st) = Len(W.st) - 1
  BY <1>9, <1>10, DropOne
<1> QED
  BY <1>1, <1>9, <1>11 DEF Result

\* gv_dup
LEMMA DuplicateIs ==
    ASSUME NEW T, Inv(T), Plain(T), Len(T.st) >= 1, Unused(T, T.got), NEW U, U = Duplicate(T)
    PROVE  Inv(U) /\ Plain(U) /\ Len(U.st) = Len(T.st) + 1
<1>1. PICK e, l, r : e = vtop(T) /\ l = Len(T.st) /\ r = T.got
  OBVIOUS
<1>2. /\ l \in Nat /\ l >= 1 /\ l \in 1..l /\ T.st \in Seq(Entries) /\ DOMAIN T = Fields
      /\ ~NoCode(T) /\ r \in Ints
  BY <1>1, InvIs DEF Unused
<1>3. e = T.st[l] /\ e \in Entries /\ Sound(T, e) /\ e.k # "cmp"
  BY <1>1, <1>2, TopOf, InvIs DEF Plain
<1>4. PICK s, P : s = Append(T.st, e) /\ P = [T EXCEPT !.st = s]
  OBVIOUS
<1>5. DOMAIN P = Fields /\ P.st = s /\ Rest(T, P)
  BY <1>2, <1>4, WithStack
<1>6. s \in Seq(Entries) /\ Len(s) = l + 1 /\ s[l + 1] = e
  BY <1>1, <1>2, <1>3, <1>4, PushSeq
<1>7. vtop(P) = e /\ P = vpushv(T, vtop(T))
  BY <1>1, <1>4, <1>5, <1>6 DEF vtop, Last, vpushv
<1>8. PICK w, X : w = First(P, e) /\ X = SetReg(P, r, w)
  OBVIOUS
<1>9. P.base = T.base /\ P.got = T.got /\ ~NoCode(P)
  BY <1>2, <1>5 DEF Rest, NoCode
<1>10. /\ DOMAIN X = Fields /\ X.reg = [P.reg EXCEPT ![r] = w]
       /\ X.st = P.st /\ X.mem = P.mem /\ X.temps = P.temps /\ X.loc = P.loc
       /\ X.base = P.base /\ X.bad = P.bad /\ X.var = P.var /\ X.got = P.got
  BY <1>5, <1>8, <1>9, SetRegAt
<1>11. PICK D : D = Drop(X, 1)
  OBVIOUS
<1>12. SubSeq(s, 1, l) = T.st
  BY <1>1, <1>2, <1>3, <1>4
<1>27. X.st = s /\ Len(X.st) - 1 = l
  BY <1>2, <1>5, <1>6, <1>10
<1>28. SubSeq(X.st, 1, Len(X.st) - 1) = T.st
  BY <1>12, <1>27
<1>29. D = [X EXCEPT !.st = SubSeq(X.st, 1, Len(X.st) - 1)]
  BY <1>11 DEF Drop
<1>13. D = [X EXCEPT !.st = T.st]
  BY <1>28, <1>29, Zenon
<1>14. DOMAIN D = Fields /\ D.st = T.st /\ Rest(X, D)
  BY <1>10, <1>13, WithStack
<1>15. PICK Y : Y = SetReg(T, r, w)
  OBVIOUS
<1>16. Inv(Y) /\ Plain(Y) /\ Y.st = T.st /\ Y.reg[r] = w
  BY <1>1, <1>15, SetRegInv
<1>17. /\ DOMAIN Y = Fields /\ Y.reg = [T.reg EXCEPT ![r] = w]
       /\ Y.st = T.st /\ Y.mem = T.mem /\ Y.temps = T.temps /\ Y.loc = T.loc
       /\ Y.base = T.base /\ Y.bad = T.bad /\ Y.var = T.var /\ Y.got = T.got
  BY <1>2, <1>15, SetRegAt
<1>18. /\ D.st = Y.st /\ D.reg = Y.reg /\ D.mem = Y.mem /\ D.temps = Y.temps /\ D.loc = Y.loc
       /\ D.base = Y.base /\ D.bad = Y.bad
  BY <1>5, <1>10, <1>14, <1>17 DEF Rest
<1>19. Inv(D)
  BY <1>14, <1>16, <1>18, InvSame
<1>20. Plain(D) /\ Unused(D, r) /\ D.reg[r] = w /\ Len(D.st) = l
  BY <1>1, <1>14, <1>16, <1>18 DEF Plain, Unused
<1>21. w = Word(e.v, 1)
  <2>1. First(P, e) = First(T, e)
    BY <1>5 DEF Rest, First, Content
  <2> QED
    BY <1>3, <1>8, <2>1 DEF Sound, Held
<1>22. PICK v : v = e.v
  OBVIOUS
<1>23. v \in Int \X Int /\ v[1] # 0
  BY <1>3, <1>22, EntryIs DEF Sound
<1>24. vtop(X) = e
  BY <1>7, <1>10 DEF vtop
<1>25. U = vpushv(D, InReg(v, r)) /\ D.reg[r] = Word(v, 1)
  BY <1>1, <1>7, <1>8, <1>9, <1>11, <1>20, <1>21, <1>22, <1>24 DEF Duplicate, SetTop, load
<1>26. Inv(U) /\ Plain(U) /\ Len(U.st) = Len(D.st) + 1
  BY <1>19, <1>20, <1>23, <1>25, PushReg
<1> QED
  BY <1>1, <1>20, <1>26

LEMMA GvDupIs ==
    ASSUME NEW T, Inv(T), Len(T.st) >= 1, NEW U, U = gv_dup(T)
    PROVE  Inv(U) /\ Plain(U) /\ Len(U.st) = Len(T.st) + 1
<1>1. PICK G, H : G = gv(T, Ints) /\ H = get_reg(G, Ints)
  OBVIOUS
<1>2. Class(Ints)
  BY DEF Class
<1>3. Fetched(T, Ints, G)
  BY <1>1, <1>2, GvIs
<1>4. Inv(G) /\ Plain(G) /\ Len(G.st) = Len(T.st)
  BY <1>3 DEF Fetched
<1>5. Got(G, Ints, H)
  BY <1>1, <1>2, <1>4, GetRegIs
<1>6. Inv(H) /\ Plain(H) /\ Len(H.st) = Len(T.st) /\ Unused(H, H.got)
  BY <1>4, <1>5 DEF Got
<1>7. U = Duplicate(H) /\ Len(H.st) >= 1
  BY <1>1, <1>6 DEF gv_dup
<1>8. Inv(U) /\ Plain(U) /\ Len(U.st) = Len(H.st) + 1
  BY <1>6, <1>7, DuplicateIs
<1> QED
  BY <1>6, <1>8

-----------------------------------------------------------------------------
(* Calls *)

\* save_regs goes through the entries from the lowest on.
LEMMA SaveRegsUnfold ==
    ASSUME NEW T, NEW n, Len(T.st) - n \in Nat
    PROVE  \E f : f = [i \in 0..Len(T.st) - n |-> IF i = 0 THEN T ELSE SaveEntry(f[i - 1], i)]
                  /\ save_regs(T, n) = f[Len(T.st) - n]
<1> DEFINE Rec(f, k) == f = [i \in 0..k |-> IF i = 0 THEN T ELSE SaveEntry(f[i - 1], i)]
           S == {k \in Nat : ~\E f : Rec(f, k)}
<1>1. ASSUME S # {} PROVE FALSE
  <2>1. PICK k \in S : \A j \in S : k <= j
    BY <1>1, LeastIn
  <2>2. CASE k = 0
    <3>1. PICK f : f = [i \in 0..k |-> T]
      OBVIOUS
    <3>2. Rec(f, k)
      BY <2>2, <3>1
    <3> QED
      BY <2>1, <3>2
  <2>3. CASE k # 0
    <3>1. k \in Nat /\ k - 1 \in Nat /\ k - 1 \notin S
      <4>1. S \subseteq Nat
        OBVIOUS
      <4> HIDE DEF S
      <4> QED
        BY <2>1, <2>3, <4>1
    <3>2. PICK g : Rec(g, k - 1)
      BY <3>1
    <3>3. PICK f : f = [i \in 0..k |-> IF i = k THEN SaveEntry(g[k - 1], k) ELSE g[i]]
      OBVIOUS
    <3>4. ASSUME NEW i \in 0..k
          PROVE  f[i] = IF i = 0 THEN T ELSE SaveEntry(f[i - 1], i)
      <4>1. CASE i = k
        <5>1. f[k] = SaveEntry(g[k - 1], k) /\ f[k - 1] = g[k - 1]
          BY <3>1, <3>3
        <5> QED
          BY <2>3, <4>1, <5>1
      <4>2. CASE i # k /\ i # 0
        <5>1. i \in 0..k - 1 /\ i - 1 \in 0..k /\ i - 1 # k
          BY <3>1, <4>2
        <5>2. f[i] = g[i] /\ f[i - 1] = g[i - 1]
          BY <3>3, <4>2, <5>1
        <5>3. g[i] = SaveEntry(g[i - 1], i)
          BY <3>2, <4>2, <5>1
        <5> QED
          BY <4>2, <5>2, <5>3
      <4>3. CASE i # k /\ i = 0
        <5>1. 0 \in 0..k - 1
          BY <3>1
        <5>2. g[0] = T
          BY <3>2, <5>1
        <5> QED
          BY <3>3, <4>3, <5>2
      <4> QED
        BY <4>1, <4>2, <4>3
    <3>5. Rec(f, k)
      BY <3>3, <3>4
    <3> QED
      BY <2>1, <3>5
  <2> QED
    BY <2>2, <2>3
<1>2. PICK k : k = Len(T.st) - n
  OBVIOUS
<1>3. PICK h : Rec(h, k)
  BY <1>1, <1>2
<1>4. PICK f : f = CHOOSE x : x = [i \in 0..k |-> IF i = 0 THEN T ELSE SaveEntry(x[i - 1], i)]
  OBVIOUS
<1>5. Rec(f, k)
  BY <1>3, <1>4, Zenon
<1>6. save_regs(T, n) = f[k]
  BY <1>2, <1>4, Zenon DEF save_regs
<1> QED
  BY <1>2, <1>5, <1>6

\* gfunc_call goes through the arguments from the last one down.
LEMMA ArgumentsUnfold ==
    ASSUME NEW T, NEW n \in Nat
    PROVE  \E f : f = [i \in 0..n |-> IF i = 0 THEN T ELSE Argument(f[i - 1], n, n - i + 1)]
                  /\ Arguments(T, n) = f[n]
<1> DEFINE Rec(f, k) == f = [i \in 0..k |-> IF i = 0 THEN T ELSE Argument(f[i - 1], n, n - i + 1)]
           S == {k \in Nat : ~\E f : Rec(f, k)}
<1>1. ASSUME S # {} PROVE FALSE
  <2>1. PICK k \in S : \A j \in S : k <= j
    BY <1>1, LeastIn
  <2>2. CASE k = 0
    <3>1. PICK f : f = [i \in 0..k |-> T]
      OBVIOUS
    <3>2. Rec(f, k)
      BY <2>2, <3>1
    <3> QED
      BY <2>1, <3>2
  <2>3. CASE k # 0
    <3>1. k \in Nat /\ k - 1 \in Nat /\ k - 1 \notin S
      <4>1. S \subseteq Nat
        OBVIOUS
      <4> HIDE DEF S
      <4> QED
        BY <2>1, <2>3, <4>1
    <3>2. PICK g : Rec(g, k - 1)
      BY <3>1
    <3>3. PICK f : f = [i \in 0..k |-> IF i = k THEN Argument(g[k - 1], n, n - k + 1) ELSE g[i]]
      OBVIOUS
    <3>4. ASSUME NEW i \in 0..k
          PROVE  f[i] = IF i = 0 THEN T ELSE Argument(f[i - 1], n, n - i + 1)
      <4>1. CASE i = k
        <5>1. f[k] = Argument(g[k - 1], n, n - k + 1) /\ f[k - 1] = g[k - 1]
          BY <3>1, <3>3
        <5> QED
          BY <2>3, <4>1, <5>1
      <4>2. CASE i # k /\ i # 0
        <5>1. i \in 0..k - 1 /\ i - 1 \in 0..k /\ i - 1 # k
          BY <3>1, <4>2
        <5>2. f[i] = g[i] /\ f[i - 1] = g[i - 1]
          BY <3>3, <4>2, <5>1
        <5>3. g[i] = Argument(g[i - 1], n, n - i + 1)
          BY <3>2, <4>2, <5>1
        <5> QED
          BY <4>2, <5>2, <5>3
      <4>3. CASE i # k /\ i = 0
        <5>1. 0 \in 0..k - 1
          BY <3>1
        <5>2. g[0] = T
          BY <3>2, <5>1
        <5> QED
          BY <3>3, <4>3, <5>2
      <4> QED
        BY <4>1, <4>2, <4>3
    <3>5. Rec(f, k)
      BY <3>3, <3>4
    <3> QED
      BY <2>1, <3>5
  <2> QED
    BY <2>2, <2>3
<1>2. PICK k : k = n
  OBVIOUS
<1>3. PICK h : Rec(h, k)
  BY <1>1, <1>2
<1>4. PICK f : f = CHOOSE x : x = [i \in 0..k |-> IF i = 0 THEN T ELSE Argument(x[i - 1], n, n - i + 1)]
  OBVIOUS
<1>5. Rec(f, k)
  BY <1>3, <1>4, Zenon
<1>6. Arguments(T, n) = f[k]
  BY <1>2, <1>4, Zenon DEF Arguments
<1> QED
  BY <1>2, <1>5, <1>6

\* After save_regs came to entry i, of the m it may save: the first i are in no register, and
\* a register of those above is still theirs.
Spared(T, m, i, U) ==
    /\ Inv(U) /\ Plain(U) /\ Len(U.st) = Len(T.st) /\ U.reg = T.reg
    /\ \A j \in 1..i : U.st[j].k \notin {"reg", "at"}
    /\ \A j \in m + 1..Len(T.st) : T.st[j].k = "reg" => U.st[j] = T.st[j]

LEMMA SpareOne ==
    ASSUME NEW T, Inv(T), Plain(T), NEW m \in 0..Len(T.st), NEW i \in 1..m,
           NEW S, Spared(T, m, i - 1, S), NEW U, U = SaveEntry(S, i)
    PROVE  Spared(T, m, i, U)
<1>1. PICK l : l = Len(T.st)
  OBVIOUS
<1>2. l \in Nat /\ i \in 1..l /\ i \in Nat /\ m \in Nat
  BY <1>1, InvIs
<1>3. /\ Inv(S) /\ Plain(S) /\ Len(S.st) = l /\ S.reg = T.reg
      /\ \A j \in 1..i - 1 : S.st[j].k \notin {"reg", "at"}
      /\ \A j \in m + 1..l : T.st[j].k = "reg" => S.st[j] = T.st[j]
  BY <1>1 DEF Spared
<1>4. \A j \in 1..l : S.st[j] \in Entries /\ Sound(S, S.st[j])
  BY <1>3, InvIs
<1>5. CASE S.st[i].k \notin {"reg", "at"}
  <2>1. U = S
    BY <1>5, Zenon DEF SaveEntry
  <2>2. \A j \in 1..i : U.st[j].k \notin {"reg", "at"}
    BY <1>2, <1>3, <1>5, <2>1
  <2> QED
    BY <1>1, <1>3, <2>1, <2>2 DEF Spared
<1>6. CASE S.st[i].k \in {"reg", "at"}
  <2>1. PICK q : q = S.st[i].r
    OBVIOUS
  <2>2. q \in Ints /\ U = save_reg(S, q)
    BY <1>2, <1>4, <1>6, <2>1 DEF SaveEntry, Sound
  <2>3. Saved(S, q, U)
    BY <1>3, <2>2, SaveIs
  <2>4. /\ Inv(U) /\ Len(U.st) = l /\ U.reg = S.reg /\ Plain(U)
        /\ \A j \in 1..l : ~Uses(S.st[j], q) => U.st[j] = S.st[j]
        /\ \A j \in 1..l : Uses(S.st[j], q) => U.st[j].k \in {"local", "llocal"}
    BY <1>3, <2>3 DEF Saved
  <2>5. \A j \in 1..l : Uses(S.st[j], q) <=> S.st[j].k \in {"reg", "at"} /\ S.st[j].r = q
    BY <1>4, <2>2, UsesIs
  <2>6. ASSUME NEW j \in 1..i PROVE U.st[j].k \notin {"reg", "at"}
    <3>1. j \in 1..l
      BY <1>2
    <3>2. CASE j = i
      <4>1. Uses(S.st[j], q)
        BY <1>6, <2>1, <2>5, <3>1, <3>2
      <4> QED
        BY <2>4, <3>1, <4>1
    <3>3. CASE j # i
      <4>1. S.st[j].k \notin {"reg", "at"}
        BY <1>2, <1>3, <3>3
      <4> QED
        BY <2>4, <2>5, <3>1, <4>1
    <3> QED
      BY <3>2, <3>3
  <2>7. ASSUME NEW j \in m + 1..l, T.st[j].k = "reg" PROVE U.st[j] = T.st[j]
    <3>1. j \in 1..l /\ j # i
      BY <1>2
    <3>2. S.st[j] = T.st[j] /\ S.st[j].k = "reg"
      BY <1>3, <2>7
    <3>3. ~Uses(S.st[i], S.st[j].r)
      BY <1>2, <1>3, <3>1, <3>2, InvIs
    <3>4. S.st[j].r # q
      BY <1>2, <1>6, <2>1, <2>2, <2>5, <3>3
    <3> QED
      BY <2>4, <2>5, <3>1, <3>2, <3>4
  <2> QED
    BY <1>1, <1>3, <2>4, <2>6, <2>7 DEF Spared
<1> QED
  BY <1>5, <1>6

\* save_regs
LEMMA SaveRegsIs ==
    ASSUME NEW T, Inv(T), Plain(T), NEW n \in 0..Len(T.st), NEW U, U = save_regs(T, n)
    PROVE  Spared(T, Len(T.st) - n, Len(T.st) - n, U)
<1>1. PICK m : m = Len(T.st) - n
  OBVIOUS
<1>2. Len(T.st) \in Nat /\ m \in Nat /\ m \in 0..Len(T.st)
  BY <1>1, InvIs
<1>3. PICK f : f = [i \in 0..m |-> IF i = 0 THEN T ELSE SaveEntry(f[i - 1], i)]
               /\ save_regs(T, n) = f[m]
  BY <1>1, <1>2, SaveRegsUnfold
<1> DEFINE S == {i \in 0..m : ~Spared(T, m, i, f[i])}
<1>4. ASSUME S # {} PROVE FALSE
  <2>1. PICK i \in S : \A j \in S : i <= j
    <3>1. S \subseteq Nat
      BY <1>2
    <3> QED
      BY <1>4, <3>1, LeastIn
  <2>2. CASE i = 0
    <3>1. f[0] = T
      BY <1>2, <1>3
    <3>2. Spared(T, m, 0, T)
      BY <1>2 DEF Spared
    <3> QED
      BY <2>1, <2>2, <3>1, <3>2
  <2>3. CASE i # 0
    <3>1. i \in 1..m /\ i - 1 \in 0..m /\ i - 1 \notin S /\ i \in 0..m
      BY <1>2, <2>1, <2>3
    <3>2. Spared(T, m, i - 1, f[i - 1])
      BY <3>1
    <3>3. f[i] = SaveEntry(f[i - 1], i)
      BY <1>3, <2>3, <3>1
    <3>4. Spared(T, m, i, f[i])
      BY <1>2, <3>1, <3>2, <3>3, SpareOne
    <3> QED
      BY <2>1, <3>4
  <2> QED
    BY <2>2, <2>3
<1>5. Spared(T, m, m, f[m])
  BY <1>2, <1>4
<1> QED
  BY <1>1, <1>3, <1>5

\* No argument has two words: argument i goes to register i - 1.
LEMMA ArgRegIs ==
    ASSUME NEW T, State(T), NEW n \in 0..Len(T.st), NEW i \in 1..n
    PROVE  ArgReg(T, n, i) = i - 1
<1>1. T.st \in Seq(Entries) /\ Len(T.st) \in Nat
  BY DEF State
<1>2. ASSUME NEW j \in 1..i - 1 PROVE T.st[Len(T.st) - n + j].two = FALSE
  <2>1. Len(T.st) - n + j \in 1..Len(T.st)
    BY <1>1
  <2>2. T.st[Len(T.st) - n + j] \in Entries
    BY <1>1, <2>1
  <2> QED
    BY <2>2, EntryIs
<1>3. {j \in 1..i - 1 : T.st[Len(T.st) - n + j].two} = {}
  BY <1>2
<1> QED
  BY <1>3, FS_EmptySet DEF ArgReg

\* The last j of n arguments are in their registers.
Placed(l, n, j, U) ==
    /\ Inv(U) /\ Plain(U) /\ Len(U.st) = l
    /\ \A i \in n - j + 1..n : U.st[l - n + i].k = "reg" /\ U.st[l - n + i].r = i - 1

LEMMA InvState ==
    ASSUME NEW T, Inv(T)
    PROVE  State(T)
BY DEF Inv

LEMMA ArgumentIs ==
    ASSUME NEW l \in Nat, NEW n \in 0..l, n <= NRegs, NEW j \in 1..n, NEW T,
           Placed(l, n, j - 1, T), NEW U, U = Argument(T, n, n - j + 1)
    PROVE  Placed(l, n, j, U)
<1>1. /\ Inv(T) /\ Plain(T) /\ Len(T.st) = l
      /\ \A i \in n - j + 2..n : T.st[l - n + i].k = "reg" /\ T.st[l - n + i].r = i - 1
  <2>1. n - (j - 1) + 1 = n - j + 2
    OBVIOUS
  <2> QED
    BY <2>1 DEF Placed
<1>2. PICK q : q = n - j
  OBVIOUS
<1>3. /\ q \in Nat /\ n \in Nat /\ q \in Ints /\ q \in Int /\ j \in 1..l /\ l >= 1 /\ n - j + 1 \in 1..n
      /\ n - (n - j + 1) + 1 = j /\ n - j + 1 - 1 = q
  BY <1>2, RegAssumption DEF Ints
<1>4. ArgReg(T, n, n - j + 1) = q
  <2>1. PICK x : x = n - j + 1
    OBVIOUS
  <2>2. State(T) /\ n \in 0..Len(T.st) /\ x \in 1..n
    BY <1>1, <1>3, <2>1, InvState
  <2>3. ArgReg(T, n, x) = x - 1
    BY <2>2, ArgRegIs
  <2> QED
    BY <1>3, <2>1, <2>3
<1>5. PICK R, G, M : R = vrotb(T, j) /\ G = gv(R, {q}) /\ M = MoveSecond(G, q + 1)
  OBVIOUS
<1>6. U = vrott(M, j)
  BY <1>3, <1>4, <1>5, Zenon DEF Argument
<1>7. /\ Inv(R) /\ Plain(R) /\ Len(R.st) = l
      /\ \A i \in 1..l - j : R.st[i] = T.st[i]
      /\ \A i \in l - j + 1..l - 1 : R.st[i] = T.st[i + 1]
  <2>1. Inv(T) /\ Plain(T) /\ j \in 1..Len(T.st) /\ R = vrotb(T, j)
    BY <1>1, <1>3, <1>5
  <2>2. /\ Inv(R) /\ Plain(R) /\ Len(R.st) = Len(T.st)
        /\ \A i \in 1..Len(T.st) - j : R.st[i] = T.st[i]
        /\ \A i \in Len(T.st) - j + 1..Len(T.st) - 1 : R.st[i] = T.st[i + 1]
    BY <2>1, VrotbIs
  <2> QED
    BY <1>1, <2>2
<1>8. Fetched(R, {q}, G)
  <2>1. Class({q})
    BY <1>3 DEF Class
  <2>2. Inv(R) /\ Len(R.st) >= 1 /\ Class({q}) /\ G = gv(R, {q})
    BY <1>3, <1>5, <1>7, <2>1
  <2> QED
    BY <2>2, GvIs
<1>9. /\ Inv(G) /\ Plain(G) /\ Len(G.st) = l
      /\ G.st[l].k = "reg" /\ G.st[l].r = q
      /\ \A i \in 1..l - 1 : ~Uses(R.st[i], q) => G.st[i] = R.st[i]
  BY <1>7, <1>8 DEF Fetched
<1>10. M = G
  <2>1. vtop(G) \in Entries
    BY <1>3, <1>9, TopOf
  <2>2. vtop(G).two = FALSE
    BY <2>1, EntryIs
  <2> QED
    BY <1>5, <2>2 DEF MoveSecond
<1>11. /\ Inv(U) /\ Plain(U) /\ Len(U.st) = l
       /\ U.st[l - j + 1] = G.st[l]
       /\ \A i \in l - j + 2..l : U.st[i] = G.st[i - 1]
  <2>1. Inv(G) /\ Plain(G) /\ j \in 1..Len(G.st) /\ U = vrott(G, j)
    BY <1>3, <1>6, <1>9, <1>10
  <2>2. /\ Inv(U) /\ Plain(U) /\ Len(U.st) = Len(G.st)
        /\ U.st[Len(G.st) - j + 1] = G.st[Len(G.st)]
        /\ \A i \in Len(G.st) - j + 2..Len(G.st) : U.st[i] = G.st[i - 1]
    BY <2>1, VrottIs
  <2> QED
    BY <1>9, <2>2
<1>12. ASSUME NEW i \in n - j + 1..n
       PROVE  U.st[l - n + i].k = "reg" /\ U.st[l - n + i].r = i - 1
  <2>1. CASE i = n - j + 1
    <3>1. l - n + i = l - j + 1 /\ i - 1 = q
      BY <1>2, <2>1
    <3> QED
      BY <1>9, <1>11, <3>1
  <2>2. CASE i # n - j + 1
    <3>1. PICK p, x : p = l - n + i /\ x = T.st[p]
      OBVIOUS
    <3>2. /\ i \in n - j + 2..n /\ p \in l - j + 2..l /\ p - 1 \in l - j + 1..l - 1
          /\ p - 1 \in 1..l - 1 /\ p - 1 + 1 = p /\ p \in 1..l /\ i - 1 # q /\ i - 1 \in Int
      BY <1>2, <1>3, <2>2, <3>1
    <3>3. x.k = "reg" /\ x.r = i - 1
      BY <1>1, <3>1, <3>2
    <3>4. R.st[p - 1] = x
      BY <1>7, <3>1, <3>2
    <3>5. x \in Entries
      BY <1>1, <3>1, <3>2, InvIs
    <3>6. ~Uses(x, q)
      BY <1>3, <3>2, <3>3, <3>5, UsesIs
    <3>7. U.st[p] = x
      BY <1>9, <1>11, <3>2, <3>4, <3>6
    <3> QED
      BY <3>1, <3>3, <3>7
  <2> QED
    BY <2>1, <2>2
<1> QED
  BY <1>11, <1>12 DEF Placed

LEMMA ArgumentsAre ==
    ASSUME NEW T, Inv(T), Plain(T), NEW n \in 0..Len(T.st), n <= NRegs,
           NEW U, U = Arguments(T, n)
    PROVE  Placed(Len(T.st), n, n, U)
<1>1. PICK l : l = Len(T.st)
  OBVIOUS
<1>2. l \in Nat /\ n \in Nat /\ n \in 0..l
  BY <1>1, InvIs
<1>3. PICK f : f = [i \in 0..n |-> IF i = 0 THEN T ELSE Argument(f[i - 1], n, n - i + 1)]
               /\ Arguments(T, n) = f[n]
  BY <1>2, ArgumentsUnfold
<1> DEFINE S == {i \in 0..n : ~Placed(l, n, i, f[i])}
<1>4. ASSUME S # {} PROVE FALSE
  <2>1. PICK i \in S : \A j \in S : i <= j
    <3>1. S \subseteq Nat
      BY <1>2
    <3> QED
      BY <1>4, <3>1, LeastIn
  <2>2. CASE i = 0
    <3>1. f[0] = T
      BY <1>2, <1>3
    <3>2. Placed(l, n, 0, T)
      BY <1>1, <1>2 DEF Placed
    <3> QED
      BY <2>1, <2>2, <3>1, <3>2
  <2>3. CASE i # 0
    <3>1. i \in 1..n /\ i - 1 \in 0..n /\ i - 1 \notin S /\ i \in 0..n
      BY <1>2, <2>1, <2>3
    <3>2. Placed(l, n, i - 1, f[i - 1])
      BY <3>1
    <3>3. f[i] = Argument(f[i - 1], n, n - i + 1)
      BY <1>3, <2>3, <3>1
    <3>4. Placed(l, n, i, f[i])
      BY <1>2, <3>1, <3>2, <3>3, ArgumentIs
    <3> QED
      BY <2>1, <3>4
  <2> QED
    BY <2>2, <2>3
<1>5. Placed(l, n, n, f[n])
  BY <1>2, <1>4
<1> QED
  BY <1>1, <1>3, <1>5

\* A value pushed: vsetc fetches a comparison first.
LEMMA ResultEntry ==
    ASSUME NEW v \in Int \X Int
    PROVE  [InReg(v, 0) EXCEPT !.r2 = IF FALSE THEN 1 ELSE None, !.two = FALSE] = InReg(v, 0)
<1>1. InReg(v, 0) \in Entries
  BY InRegIs
<1> QED
  BY <1>1 DEF Entries

\* The words that a call leaves in the registers.
Results(v) == [q \in Ints |-> IF q = 0 THEN Word(v, 1) ELSE Junk]

\* When gfunc_call jumps the arguments are in their registers, and nothing else is in any.
Ready(T, n) ==
    /\ Inv(T) /\ n \in Nat /\ n + 1 <= Len(T.st)
    /\ \A i \in 1..n : T.st[Len(T.st) - 1 - n + i].k = "reg"
                       /\ T.st[Len(T.st) - 1 - n + i].r = i - 1
    /\ \A i \in 1..Len(T.st) - (n + 1) : T.st[i].k \notin {"reg", "at"}

LEMMA JumpRight ==
    ASSUME NEW T, NEW n, Ready(T, n), NEW v, NEW U, U = Jump(T, n, FALSE, v)
    PROVE  U = vsetc([Drop(T, n + 1) EXCEPT !.reg = Results(v)],
                     [InReg(v, 0) EXCEPT !.r2 = IF FALSE THEN 1 ELSE None, !.two = FALSE])
<1>0. /\ Inv(T) /\ n \in Nat /\ n + 1 <= Len(T.st)
      /\ \A i \in 1..n : T.st[Len(T.st) - 1 - n + i].k = "reg"
                         /\ T.st[Len(T.st) - 1 - n + i].r = i - 1
  BY DEF Ready
<1>1. PICK l : l = Len(T.st)
  OBVIOUS
<1>2. l \in Nat /\ l >= 1
  BY <1>0, <1>1, InvIs
<1>3. PICK D : D = Drop(T, 1)
  OBVIOUS
<1>4. Inv(D) /\ Len(D.st) = l - 1
  <2>1. Inv(T) /\ Len(T.st) >= 1 /\ D = Drop(T, 1)
    BY <1>0, <1>1, <1>2, <1>3
  <2>2. Inv(D) /\ Len(D.st) = Len(T.st) - 1
    BY <2>1, DropOne
  <2> QED
    BY <1>1, <2>2
<1>5. ASSUME NEW i \in 1..n
      PROVE  /\ T.reg[ArgReg(D, n, i)] = Word(T.st[l - 1 - n + i].v, 1)
             /\ T.st[l - 1 - n + i].two = FALSE
  <2>1. State(D) /\ n \in 0..Len(D.st)
    BY <1>0, <1>1, <1>2, <1>4, InvState
  <2>2. ArgReg(D, n, i) = i - 1
    BY <1>0, <2>1, ArgRegIs
  <2>3. PICK j : j = l - 1 - n + i
    OBVIOUS
  <2>4. j \in 1..l
    BY <1>0, <1>1, <1>2, <2>3
  <2>5. T.st[j].k = "reg" /\ T.st[j].r = i - 1
    BY <1>0, <1>1, <2>3
  <2>6. T.st[j] \in Entries /\ T.reg[T.st[j].r] = Word(T.st[j].v, 1)
    BY <1>0, <1>1, <2>4, <2>5, RegOf
  <2>7. T.st[j].two = FALSE
    BY <2>6, EntryIs
  <2> QED
    BY <2>2, <2>3, <2>5, <2>6, <2>7
<1>6. First(T, vtop(T)) = Word(vtop(T).v, 1)
  BY <1>0, <1>1, <1>2, TopOf DEF Sound, Held
<1>7. PICK p : p = (/\ \A i \in 1..n :
                          /\ T.reg[ArgReg(D, n, i)] = Word(T.st[l - 1 - n + i].v, 1)
                          /\ T.st[l - 1 - n + i].two =>
                                 T.reg[ArgReg(D, n, i) + 1] = Word(T.st[l - 1 - n + i].v, 2)
                    /\ First(T, vtop(T)) = Word(vtop(T).v, 1))
  OBVIOUS
<1>8. p
  BY <1>5, <1>6, <1>7, Zenon
<1>9. Require(T, "call", p) = T
  BY <1>8, RequireIs
<1>10. PICK w : w = [r \in Ints |-> CASE r = 0           -> Word(v, 1)
                                      [] r = 1 /\ FALSE -> Word(v, 2)
                                      [] OTHER          -> Junk]
  OBVIOUS
<1>11. w = Results(v)
  BY <1>10 DEF Results
<1>12. ~NoCode(T) /\ ~NoCode(Drop(T, n + 1))
  BY <1>0, InvIs DEF NoCode, Drop, Fields, None
<1>13. U = vsetc(IF NoCode(T) THEN Drop(Require(T, "call", p), n + 1)
                 ELSE [Drop(Require(T, "call", p), n + 1) EXCEPT !.reg = w],
                 [InReg(v, 0) EXCEPT !.r2 = IF FALSE THEN 1 ELSE None, !.two = FALSE])
  BY <1>1, <1>3, <1>7, <1>10, Zenon DEF Jump
<1> QED
  BY <1>9, <1>11, <1>12, <1>13, Zenon

Dropped(T, m, D) ==
    /\ Inv(D) /\ Plain(D) /\ Len(D.st) = Len(T.st) - m
    /\ \A i \in 1..Len(D.st) : D.st[i] = T.st[i]

LEMMA DropSome ==
    ASSUME NEW T, Inv(T), NEW m \in 0..Len(T.st), m > 0, NEW D, D = Drop(T, m)
    PROVE  Dropped(T, m, D)
BY DropInv DEF Dropped

LEMMA JumpIs ==
    ASSUME NEW T, NEW n, Ready(T, n), NEW v \in Int \X Int, v[1] # 0,
           NEW U, U = Jump(T, n, FALSE, v)
    PROVE  Inv(U) /\ Len(U.st) = Len(T.st) - n
<1>1. PICK l, m : l = Len(T.st) /\ m = n + 1
  OBVIOUS
<1>2. /\ Inv(T) /\ n \in Nat /\ l \in Nat /\ m \in 1..l /\ m \in 0..Len(T.st) /\ m > 0
      /\ \A i \in 1..l - m : T.st[i].k \notin {"reg", "at"}
  BY <1>1, InvIs DEF Ready
<1>3. PICK D : D = Drop(T, m)
  OBVIOUS
<1>4. /\ Inv(D) /\ Plain(D) /\ Len(D.st) = l - m
      /\ \A i \in 1..l - m : D.st[i].k \notin {"reg", "at"}
  <2>1. Inv(T) /\ m \in 0..Len(T.st) /\ m > 0 /\ D = Drop(T, m)
    BY <1>1, <1>2, <1>3
  <2>2. Dropped(T, m, D)
    BY ONLY <2>1, DropSome
  <2> QED
    BY ONLY <1>1, <1>2, <2>2 DEF Dropped
<1>5. PICK w, E : w = Results(v) /\ E = [D EXCEPT !.reg = w]
  OBVIOUS
<1>6. DOMAIN D = Fields
  BY <1>4, InvIs
<1>7. /\ DOMAIN E = Fields /\ E.reg = w
      /\ E.st = D.st /\ E.mem = D.mem /\ E.temps = D.temps /\ E.loc = D.loc
      /\ E.base = D.base /\ E.bad = D.bad
  BY <1>5, <1>6, WithRegs
<1>8. DOMAIN w = Ints /\ 0 \in Ints /\ w[0] = Word(v, 1)
  BY <1>5, RegAssumption DEF Results, Ints
<1>9. ASSUME NEW i \in 1..l - m PROVE Sound(E, D.st[i])
  <2>1. PICK e : e = D.st[i]
    OBVIOUS
  <2>2. e \in Entries /\ Sound(D, e) /\ D.loc \in Int /\ e.k # "cmp"
    BY <1>4, <2>1, InvIs DEF Plain
  <2>3. e.k \notin {"reg", "at"} /\ e.k \in Kinds /\ e.c \in Int \X Int
    BY <1>4, <2>1, <2>2, EntryIs
  <2>4. Content(E, e.c) = Content(D, e.c)
    BY <1>7 DEF Content
  <2>5. Sound(E, e)
    <3>1. /\ Sound(D, e) /\ e.k \in Kinds /\ D.loc \in Int /\ E.loc \in Int
          /\ e.c \in Int \X Int /\ D.loc <= E.loc
          /\ e.k \in {"reg", "at"} => E.reg[e.r] = D.reg[e.r]
          /\ e.k \in {"local", "llocal"} => Content(E, e.c) = Content(D, e.c)
          /\ e.k = "cmp" => \A j \in DOMAIN e.of : E.reg[e.c[j]] = D.reg[e.c[j]]
      BY <1>7, <2>2, <2>3, <2>4
    <3> QED
      BY <3>1, SoundFrom
  <2> QED
    BY <2>1, <2>5
<1>10. Inv(E) /\ Plain(E)
  <2>1. State(D) /\ D.base = None /\ D.bad = {} /\ TempsKnown(D)
    BY <1>4 DEF Inv
  <2>2. State(E) /\ E.base = None /\ E.bad = {} /\ TempsKnown(E)
    BY <1>7, <1>8, <2>1 DEF State, TempsKnown
  <2>3. DOMAIN E.st = 1..l - m
    BY <1>4, <1>7, InvIs
  <2>4. \A i \in DOMAIN E.st : E.st[i].k \notin {"reg", "at", "cmp"}
    BY <1>4, <1>7, <2>3 DEF Plain
  <2> QED
    BY <1>7, <1>9, <2>2, <2>3, <2>4 DEF Inv, Plain
<1>11. Unused(E, 0)
  <2>1. \A i \in 1..l - m : E.st[i] \in Entries
    BY <1>4, <1>7, <1>10, InvIs
  <2>2. \A i \in 1..l - m : ~Uses(E.st[i], 0)
    BY <1>4, <1>7, <1>8, <2>1, UsesIs
  <2> QED
    BY <1>4, <1>7, <1>8, <2>2 DEF Unused
<1>12. PICK V : V = vpushv(E, InReg(v, 0))
  OBVIOUS
<1>13. U = V
  <2>1. U = vsetc([Drop(T, n + 1) EXCEPT !.reg = Results(v)],
                  [InReg(v, 0) EXCEPT !.r2 = IF FALSE THEN 1 ELSE None, !.two = FALSE])
    BY JumpRight
  <2>2. U = vsetc(E, InReg(v, 0))
    BY <1>1, <1>3, <1>5, <2>1, ResultEntry
  <2>3. vcheck_cmp(E) = E
    BY <1>10, CheckPlain
  <2> QED
    BY <1>12, <2>2, <2>3, Zenon DEF vsetc
<1>14. Inv(V) /\ Len(V.st) = Len(E.st) + 1
  <2>1. /\ Inv(E) /\ Plain(E) /\ Unused(E, 0) /\ v \in Int \X Int /\ v[1] # 0
        /\ E.reg[0] = Word(v, 1) /\ V = vpushv(E, InReg(v, 0))
    BY <1>7, <1>8, <1>10, <1>11, <1>12
  <2> QED
    BY <2>1, PushReg
<1>15. l - m + 1 = Len(T.st) - n
  BY <1>1, <1>2
<1> QED
  BY <1>4, <1>7, <1>13, <1>14, <1>15

\* gfunc_call
LEMMA CallIs ==
    ASSUME NEW T, Inv(T), NEW n \in 0..NRegs, n + 1 <= Len(T.st),
           NEW U, U = gfunc_call(T, n, FALSE)
    PROVE  Inv(U) /\ Len(U.st) = Len(T.st) - n
<1>1. PICK l, m : l = Len(T.st) /\ m = n + 1
  OBVIOUS
<1>2. l \in Nat /\ n \in Nat /\ m \in 1..l /\ n \in 0..l /\ n <= NRegs /\ l >= 1
  BY <1>1, InvIs, RegAssumption
<1>3. PICK v : v = Fresh(T)
  OBVIOUS
<1>4. v \in Int \X Int /\ v[1] # 0
  BY <1>1, <1>2, <1>3, FreshIs
<1>5. PICK F : F = IF vtop(T).k = "cmp" THEN gv(T, Ints) ELSE T
  OBVIOUS
<1>6. Inv(F) /\ Plain(F) /\ Len(F.st) = l
  <2>1. CASE vtop(T).k = "cmp"
    <3>1. Class(Ints)
      BY DEF Class
    <3>2. Inv(T) /\ Len(T.st) >= 1 /\ Class(Ints) /\ F = gv(T, Ints)
      BY <1>1, <1>2, <1>5, <2>1, <3>1
    <3>3. Fetched(T, Ints, F)
      BY <3>2, GvIs
    <3> QED
      BY <1>1, <3>3 DEF Fetched
  <2>2. CASE vtop(T).k # "cmp"
    <3>1. F = T /\ T.st[l].k # "cmp"
      BY <1>1, <1>2, <1>5, <2>2, TopOf
    <3>2. Plain(T)
      BY <1>1, <3>1, InvIs DEF Plain
    <3> QED
      BY <1>1, <3>1, <3>2
  <2> QED
    BY <2>1, <2>2
<1>7. PICK A, W, S : A = Arguments(F, n) /\ W = vrotb(A, m) /\ S = save_regs(W, m)
  OBVIOUS
<1>8. U = Jump(S, n, FALSE, v)
  BY <1>1, <1>3, <1>5, <1>7, Zenon DEF gfunc_call
<1>9. Placed(l, n, n, A)
  <2>1. Inv(F) /\ Plain(F) /\ n \in 0..Len(F.st) /\ n <= NRegs /\ A = Arguments(F, n)
    BY <1>2, <1>6, <1>7
  <2>2. Placed(Len(F.st), n, n, A)
    BY <2>1, ArgumentsAre
  <2> QED
    BY <1>6, <2>2
<1>10. /\ Inv(A) /\ Plain(A) /\ Len(A.st) = l
       /\ \A i \in 1..n : A.st[l - n + i].k = "reg" /\ A.st[l - n + i].r = i - 1
  <2>1. n - n + 1 = 1
    BY <1>2
  <2> QED
    BY <1>9, <2>1 DEF Placed
<1>11. /\ Inv(W) /\ Plain(W) /\ Len(W.st) = l
       /\ \A i \in l - m + 1..l - 1 : W.st[i] = A.st[i + 1]
  <2>1. Inv(A) /\ Plain(A) /\ m \in 1..Len(A.st) /\ W = vrotb(A, m)
    BY <1>2, <1>7, <1>10
  <2>2. /\ Inv(W) /\ Plain(W) /\ Len(W.st) = Len(A.st)
        /\ \A i \in Len(A.st) - m + 1..Len(A.st) - 1 : W.st[i] = A.st[i + 1]
    BY <2>1, VrotbIs
  <2> QED
    BY <1>10, <2>2
<1>12. ASSUME NEW i \in 1..n
       PROVE  W.st[l - 1 - n + i].k = "reg" /\ W.st[l - 1 - n + i].r = i - 1
  <2>1. PICK j : j = l - 1 - n + i
    OBVIOUS
  <2>2. j \in l - m + 1..l - 1 /\ j + 1 = l - n + i
    BY <1>1, <1>2, <2>1
  <2> QED
    BY <1>10, <1>11, <2>1, <2>2
<1>13. Spared(W, l - m, l - m, S)
  <2>1. Inv(W) /\ Plain(W) /\ m \in 0..Len(W.st) /\ S = save_regs(W, m)
    BY <1>2, <1>7, <1>11
  <2>2. Spared(W, Len(W.st) - m, Len(W.st) - m, S)
    BY <2>1, SaveRegsIs
  <2> QED
    BY <1>11, <2>2
<1>14. /\ Inv(S) /\ Len(S.st) = l
       /\ \A j \in 1..l - m : S.st[j].k \notin {"reg", "at"}
       /\ \A j \in l - m + 1..l : W.st[j].k = "reg" => S.st[j] = W.st[j]
  BY <1>11, <1>13 DEF Spared
<1>15. ASSUME NEW i \in 1..n
       PROVE  S.st[l - 1 - n + i].k = "reg" /\ S.st[l - 1 - n + i].r = i - 1
  <2>1. PICK j : j = l - 1 - n + i
    OBVIOUS
  <2>2. j \in l - m + 1..l
    BY <1>1, <1>2, <2>1
  <2> QED
    BY <1>12, <1>14, <2>1, <2>2
<1>16. Inv(U) /\ Len(U.st) = Len(S.st) - n
  <2>1. /\ Inv(S) /\ n \in Nat /\ n + 1 <= Len(S.st) /\ v \in Int \X Int /\ v[1] # 0
        /\ U = Jump(S, n, FALSE, v)
    BY <1>1, <1>2, <1>4, <1>8, <1>14
  <2>2. \A i \in 1..n : S.st[Len(S.st) - 1 - n + i].k = "reg"
                        /\ S.st[Len(S.st) - 1 - n + i].r = i - 1
    BY <1>14, <1>15
  <2>3. \A i \in 1..Len(S.st) - (n + 1) : S.st[i].k \notin {"reg", "at"}
    BY <1>1, <1>14
  <2>4. Ready(S, n)
    BY <2>1, <2>2, <2>3 DEF Ready
  <2> QED
    BY <2>1, <2>4, JumpIs
<1> QED
  BY <1>1, <1>14, <1>16

-----------------------------------------------------------------------------
(* What the parser asks for, while code is generated *)

\* vsetc of a constant that is new.
LEMMA PushNewIs ==
    ASSUME NEW T, Inv(T), NEW v \in Int \X Int, v[1] # 0, NEW U, U = vsetc(T, Const(v))
    PROVE  Inv(U) /\ Len(U.st) = Len(T.st) + 1
<1>1. PICK V : V = vcheck_cmp(T)
  OBVIOUS
<1>2. Inv(V) /\ Plain(V) /\ Len(V.st) = Len(T.st)
  BY <1>1, CheckIs
<1>3. /\ Inv(V) /\ Plain(V) /\ v \in Int \X Int /\ v[1] # 0 /\ U = vpushv(V, Const(v))
  BY <1>1, <1>2 DEF vsetc
<1>4. Inv(U) /\ Len(U.st) = Len(V.st) + 1
  BY <1>3, PushConstIs
<1> QED
  BY <1>2, <1>4

\* vsetc of a variable of the program.
LEMMA PushVarIs ==
    ASSUME NEW T, Inv(T), NEW U, U = vsetc(T, Local(<<-1, 0>>, -1, FALSE))
    PROVE  Inv(U)
<1>1. PICK V, v, b, e : V = vcheck_cmp(T) /\ v = <<-1, 0>> /\ b = -1 /\ e = Local(v, b, FALSE)
  OBVIOUS
<1>2. Inv(V) /\ Plain(V)
  BY <1>1, CheckIs
<1>3. v \in Int \X Int /\ b \in Int
  BY <1>1
<1>4. e \in Entries /\ e.k = "local" /\ e.c = <<b, 0>> /\ e.v = v
  BY <1>1, <1>3, LocalIs
<1>10. v[1] = -1 /\ v[2] = 0 /\ e.c[1] = -1 /\ e.c[2] = 0
  <2>1. v[1] = -1 /\ v[2] = 0 /\ b = -1
    BY <1>1
  <2>2. e.c = <<b, 0>>
    BY <1>4
  <2> QED
    BY ONLY <2>1, <2>2
<1>11. Content(V, e.c) = <<e.c[1], 0, e.c[2] + 1>>
  BY <1>10 DEF Content
<1>5. Content(V, e.c) = Word(v, 1)
  BY <1>10, <1>11 DEF Word
<1>6. First(V, e) = Word(e.v, 1)
  BY <1>4, <1>5, FirstIs
<1>7. V.loc \in Nat
  BY <1>2, InvIs
<1>8. Sound(V, e)
  <2>1. e.v[1] # 0 /\ e.c[1] <= V.loc
    BY <1>4, <1>7, <1>10
  <2> QED
    BY <1>4, <1>6, <1>10, <2>1 DEF Sound, Held
<1>9. /\ Inv(V) /\ Plain(V) /\ e \in Entries /\ Sound(V, e) /\ e.k \notin {"reg", "at"}
      /\ U = vpushv(V, e)
  BY <1>1, <1>2, <1>4, <1>8 DEF vsetc
<1> QED
  BY <1>9, PushOther

\* The place that the pointer e in a register points to.
PlaceOf(e) == [e EXCEPT !.k = "at", !.two = FALSE, !.v = <<@[1], @[2] + 1>>]

LEMMA PlaceIs ==
    ASSUME NEW e \in Entries, NEW f, f = PlaceOf(e)
    PROVE  f \in Entries /\ f.k = "at" /\ f.r = e.r /\ f.v = <<e.v[1], e.v[2] + 1>>
<1>1. "at" \in Kinds /\ e.v \in Int \X Int
  BY EntryIs DEF Kinds
<1>2. PICK y : y = <<e.v[1], e.v[2] + 1>>
  OBVIOUS
<1>3. y \in Int \X Int
  BY <1>1, <1>2
<1>4. PICK g : g = [e EXCEPT !.k = "at"]
  OBVIOUS
<1>5. g \in Entries /\ g.k = "at" /\ g.r = e.r
  BY <1>1, <1>4, WithK
<1>6. PICK h : h = [g EXCEPT !.v = y]
  OBVIOUS
<1>7. h \in Entries /\ h.k = "at" /\ h.r = e.r /\ h.v = y
  BY <1>3, <1>5, <1>6, WithV
<1>8. h = f
  BY <1>2, <1>4, <1>6 DEF PlaceOf, Entries
<1> QED
  BY <1>2, <1>7, <1>8

LEMMA AtWord ==
    ASSUME NEW v \in Int \X Int, NEW y, y = <<v[1], v[2] + 1>>
    PROVE  At(Word(v, 1)) = Word(y, 1)
BY DEF At, Word, Junk

\* indir of a pointer in a register.
LEMMA PlaceAtIs ==
    ASSUME NEW T, Inv(T), Plain(T), Len(T.st) >= 1, T.st[Len(T.st)].k = "reg",
           NEW f, f = PlaceOf(T.st[Len(T.st)]), NEW U, U = SetTop(T, f)
    PROVE  Inv(U)
<1>1. PICK l, e : l = Len(T.st) /\ e = T.st[l]
  OBVIOUS
<1>2. l \in Nat /\ l \in 1..l
  BY <1>1, InvIs
<1>3. e \in Entries /\ e.r \in Ints /\ e.v \in Int \X Int /\ e.v[1] # 0 /\ T.reg[e.r] = Word(e.v, 1)
  BY <1>1, <1>2, RegOf
<1>4. f \in Entries /\ f.k = "at" /\ f.r = e.r /\ f.v = <<e.v[1], e.v[2] + 1>>
  <2>1. e \in Entries /\ f = PlaceOf(e)
    BY <1>1, <1>3
  <2> QED
    BY <2>1, PlaceIs
<1>5. PICK D : D = Drop(T, 1)
  OBVIOUS
<1>6. /\ Inv(D) /\ Plain(D) /\ Len(D.st) = l - 1 /\ D.reg = T.reg
      /\ \A i \in 1..l - 1 : D.st[i] = T.st[i]
  <2>1. Inv(T) /\ Len(T.st) >= 1 /\ D = Drop(T, 1)
    BY <1>5
  <2>2. /\ Inv(D) /\ Plain(D) /\ Len(D.st) = Len(T.st) - 1 /\ Rest(T, D)
        /\ \A i \in 1..Len(D.st) : D.st[i] = T.st[i]
    BY <2>1, DropOne
  <2> QED
    BY <1>1, <2>2 DEF Rest
<1>7. ASSUME NEW j \in 1..l - 1 PROVE ~Uses(D.st[j], e.r)
  <2>1. j \in 1..l /\ j # l
    BY <1>2
  <2>2. ~Uses(T.st[j], T.st[l].r)
    BY <1>1, <1>2, <2>1, InvIs
  <2> QED
    BY <1>1, <1>6, <2>2
<1>8. First(D, f) = Word(f.v, 1)
  <2>1. PICK y : y = f.v
    OBVIOUS
  <2>2. At(Word(e.v, 1)) = Word(y, 1)
    BY <1>3, <1>4, <2>1, AtWord
  <2>3. First(D, f) = At(D.reg[f.r])
    BY <1>4, FirstIs
  <2> QED
    BY <1>3, <1>4, <1>6, <2>1, <2>2, <2>3
<1>9. Sound(D, f)
  BY <1>3, <1>4, <1>8 DEF Sound, Held
<1>10. Pushable(D, f)
  <2>1. ASSUME NEW j \in 1..l - 1, D.st[j].k = "reg" PROVE ~Uses(f, D.st[j].r)
    <3>1. D.st[j] \in Entries /\ D.st[j].r \in Ints
      BY <1>6, <2>1, RegOf
    <3>2. D.st[j].r # e.r
      BY <1>3, <1>7, <2>1, <3>1, UsesIs
    <3> QED
      BY <1>4, <3>1, <3>2, UsesIs
  <2> QED
    BY <1>4, <1>6, <1>9, <2>1 DEF Pushable
<1>11. Inv(D) /\ Plain(D) /\ Pushable(D, f) /\ U = vpushv(D, f)
  BY <1>5, <1>6, <1>10 DEF SetTop
<1> QED
  BY <1>11, PushInv

LEMMA DerefIs ==
    ASSUME NEW T, Inv(T), Len(T.st) >= 1, vtop(T).k # "cmp",
           NEW P, P = IF vtop(T).k = "reg" THEN T ELSE gv(T, Ints),
           NEW U, U = SetTop(P, PlaceOf(vtop(P)))
    PROVE  Inv(U)
<1>1. Len(T.st) \in Nat
  BY InvIs
<1>2. /\ Inv(P) /\ Plain(P) /\ Len(P.st) = Len(T.st) /\ P.st[Len(P.st)].k = "reg"
  <2>1. CASE vtop(T).k = "reg"
    <3>1. P = T /\ T.st[Len(T.st)].k = "reg"
      BY <2>1, TopOf
    <3>2. Plain(T)
      BY <3>1, InvIs DEF Plain
    <3> QED
      BY <3>1, <3>2
  <2>2. CASE vtop(T).k # "reg"
    <3>1. Inv(T) /\ Len(T.st) >= 1 /\ Class(Ints) /\ P = gv(T, Ints)
      BY <2>2 DEF Class
    <3>2. Fetched(T, Ints, P)
      BY <3>1, GvIs
    <3> QED
      BY <3>2 DEF Fetched
  <2> QED
    BY <2>1, <2>2
<1>3. vtop(P) = P.st[Len(P.st)]
  BY <1>2, TopOf
<1>4. PICK f : f = PlaceOf(P.st[Len(P.st)])
  OBVIOUS
<1>5. /\ Inv(P) /\ Plain(P) /\ Len(P.st) >= 1 /\ P.st[Len(P.st)].k = "reg"
      /\ f = PlaceOf(P.st[Len(P.st)]) /\ U = SetTop(P, f)
  BY <1>2, <1>3, <1>4
<1> QED
  BY <1>5, PlaceAtIs

\* vdup of an lvalue.
LEMMA DupIs ==
    ASSUME NEW T, Inv(T), Len(T.st) >= 1, IsLvalue(vtop(T)), NEW U, U = vpushv(T, vtop(T))
    PROVE  Inv(U) /\ Plain(U) /\ Len(U.st) = Len(T.st) + 1
<1>1. PICK l, e : l = Len(T.st) /\ e = T.st[l]
  OBVIOUS
<1>2. l \in Nat /\ l \in 1..l /\ vtop(T) = e /\ e \in Entries /\ Sound(T, e)
  BY <1>1, InvIs, TopOf
<1>3. e.k \in {"at", "llocal", "local"}
  BY <1>2 DEF IsLvalue
<1>4. Plain(T)
  BY <1>1, <1>3, InvIs DEF Plain
<1>5. ASSUME NEW j \in 1..l, T.st[j].k = "reg" PROVE ~Uses(e, T.st[j].r)
  <2>1. j # l
    BY <1>1, <1>3, <1>5
  <2> QED
    BY <1>1, <1>2, <1>5, <2>1, InvIs
<1>6. Pushable(T, e)
  BY <1>1, <1>2, <1>3, <1>5 DEF Pushable
<1>7. Inv(T) /\ Plain(T) /\ Pushable(T, e) /\ U = vpushv(T, e)
  BY <1>2, <1>4, <1>6
<1> QED
  BY <1>3, <1>7, PushInv

\* vpop
LEMMA PopIs ==
    ASSUME NEW T, Inv(T), Len(T.st) >= 1, NEW U, U = Drop(T, 1)
    PROVE  Inv(U) /\ Len(U.st) = Len(T.st) - 1
BY DropOne

\* inc
LEMMA IncIs ==
    ASSUME NEW T, Inv(T), Len(T.st) >= 1, IsLvalue(vtop(T)), NEW post \in BOOLEAN,
           NEW D, D = vpushv(T, vtop(T)),
           NEW P, P = IF post THEN vrotb(vrotb(gv_dup(D), 3), 3) ELSE D,
           NEW v \in Int \X Int, v[1] # 0,
           NEW U, U = EndInc(vstore(gen_op(vsetc(P, Const(v)), "add")), post)
    PROVE  Inv(U)
<1>1. PICK l : l = Len(T.st)
  OBVIOUS
<1>2. l \in Nat /\ l >= 1
  BY <1>1, InvIs
<1>3. Inv(D) /\ Plain(D) /\ Len(D.st) = l + 1
  BY <1>1, DupIs
<1>4. Inv(P) /\ Len(P.st) = IF post THEN l + 2 ELSE l + 1
  <2>1. CASE post
    <3>1. PICK G, A, B : G = gv_dup(D) /\ A = vrotb(G, 3) /\ B = vrotb(A, 3)
      OBVIOUS
    <3>2. Inv(D) /\ Len(D.st) >= 1 /\ G = gv_dup(D)
      BY <1>2, <1>3, <3>1
    <3>3. Inv(G) /\ Plain(G) /\ Len(G.st) = Len(D.st) + 1
      BY <3>2, GvDupIs
    <3>4. Inv(G) /\ Plain(G) /\ 3 \in 1..Len(G.st) /\ A = vrotb(G, 3)
      BY <1>2, <1>3, <3>1, <3>3
    <3>5. Inv(A) /\ Plain(A) /\ Len(A.st) = Len(G.st)
      BY <3>4, VrotbIs
    <3>6. Inv(A) /\ Plain(A) /\ 3 \in 1..Len(A.st) /\ B = vrotb(A, 3)
      BY <3>1, <3>4, <3>5
    <3>7. Inv(B) /\ Plain(B) /\ Len(B.st) = Len(A.st)
      BY <3>6, VrotbIs
    <3> QED
      BY <1>2, <1>3, <2>1, <3>1, <3>3, <3>5, <3>7
  <2>2. CASE ~post
    BY <1>3, <2>2
  <2> QED
    BY <2>1, <2>2
<1>5. PICK C, G, S : C = vsetc(P, Const(v)) /\ G = gen_op(C, "add") /\ S = vstore(G)
  OBVIOUS
<1>6. Inv(C) /\ Len(C.st) = Len(P.st) + 1
  <2>1. Inv(P) /\ v \in Int \X Int /\ v[1] # 0 /\ C = vsetc(P, Const(v))
    BY <1>4, <1>5
  <2> QED
    BY <2>1, PushNewIs
<1>7. Result(C, G)
  <2>1. Inv(C) /\ Len(C.st) >= 2 /\ "add" \in Ops /\ G = gen_op(C, "add")
    BY <1>2, <1>4, <1>5, <1>6 DEF Ops
  <2> QED
    BY <2>1, GenOpIs
<1>8. Inv(G) /\ Len(G.st) = Len(P.st) /\ Len(G.st) >= 2
  BY <1>2, <1>4, <1>6, <1>7 DEF Result
<1>9. Inv(S) /\ Len(S.st) >= 1
  <2>1. Inv(G) /\ Len(G.st) >= 2 /\ S = vstore(G)
    BY <1>5, <1>8
  <2>2. Result(G, S)
    BY <2>1, StoreIs
  <2> QED
    BY <1>2, <1>4, <1>8, <2>2 DEF Result
<1>10. U = IF post THEN Drop(S, 1) ELSE S
  BY <1>5, Zenon DEF EndInc
<1> QED
  BY <1>9, <1>10, PopIs

-----------------------------------------------------------------------------
(* Suppressed code: nothing is generated, and the entries below the expression stay *)

\* From the suppressed state T the stack is U, with l entries.
Quiet(T, l, U) ==
    /\ State(U) /\ Len(U.st) = l
    /\ U.reg = T.reg /\ U.mem = T.mem /\ U.temps = T.temps /\ U.loc = T.loc
    /\ U.base = T.base /\ U.bad = T.bad
    /\ T.base \in 0..l
    /\ \A i \in 1..T.base : U.st[i] = T.st[i]

\* A suppressed state that can lose n entries.
Above(T, n) == State(T) /\ T.base \in Nat /\ n \in Nat /\ T.base + n <= Len(T.st)

LEMMA AboveIs ==
    ASSUME NEW T, NEW n, Above(T, n)
    PROVE  /\ DOMAIN T = Fields
           /\ T.st \in Seq(Entries) /\ Len(T.st) \in Nat /\ DOMAIN T.st = 1..Len(T.st)
           /\ T.base \in Nat /\ n \in Nat /\ T.base + n <= Len(T.st)
           /\ NoCode(T)
           /\ \A i \in 1..Len(T.st) : T.st[i] \in Entries
<1>1. T.st \in Seq(Entries)
  BY DEF Above, State
<1>2. Len(T.st) \in Nat /\ DOMAIN T.st = 1..Len(T.st)
  BY <1>1
<1>3. \A i \in 1..Len(T.st) : T.st[i] \in Entries
  BY <1>1, <1>2
<1> QED
  BY <1>1, <1>2, <1>3 DEF Above, State, NoCode

LEMMA AboveLess ==
    ASSUME NEW T, NEW n, Above(T, n), NEW m \in 0..n
    PROVE  Above(T, m)
<1>1. T.base \in Nat /\ n \in Nat /\ T.base + n <= Len(T.st) /\ Len(T.st) \in Nat
  BY AboveIs
<1> QED
  BY <1>1 DEF Above

LEMMA QuietAbove ==
    ASSUME NEW T, NEW U, NEW l \in Nat, Quiet(T, l, U), NEW n \in Nat, T.base + n <= l
    PROVE  Above(U, n)
BY DEF Quiet, Above

LEMMA QuietThen ==
    ASSUME NEW T, NEW U, NEW V, NEW l, NEW m, Quiet(T, l, U), Quiet(U, m, V)
    PROVE  Quiet(T, m, V)
BY DEF Quiet

LEMMA QuietSelf ==
    ASSUME NEW T, NEW n, Above(T, n)
    PROVE  Quiet(T, Len(T.st), T)
<1>1. T.base \in 0..Len(T.st) /\ State(T)
  BY AboveIs DEF Above
<1> QED
  BY <1>1 DEF Quiet

\* A stack with other entries above the base.
LEMMA QuietStack ==
    ASSUME NEW T, NEW n, Above(T, n), NEW s \in Seq(Entries), NEW l, l = Len(s), T.base <= l,
           \A i \in 1..T.base : s[i] = T.st[i], NEW U, U = [T EXCEPT !.st = s]
    PROVE  Quiet(T, l, U) /\ U.st = s
<1>1. DOMAIN T = Fields /\ T.base \in Nat
  BY AboveIs
<1>2. DOMAIN U = Fields /\ U.st = s /\ Rest(T, U)
  BY <1>1, WithStack
<1>3. State(T)
  BY DEF Above
<1>4. State(U)
  BY <1>2, <1>3 DEF State, Rest
<1>5. T.base \in 0..l
  BY <1>1
<1> QED
  BY <1>2, <1>4, <1>5 DEF Quiet, Rest

LEMMA QuietDrop ==
    ASSUME NEW T, NEW n, Above(T, n), NEW U, U = Drop(T, n)
    PROVE  Quiet(T, Len(T.st) - n, U)
<1>1. PICK l, m, s : l = Len(T.st) /\ m = l - n /\ s = SubSeq(T.st, 1, m)
  OBVIOUS
<1>2. /\ T.st \in Seq(Entries) /\ l \in Nat /\ m \in 0..l /\ T.base \in Nat /\ T.base <= m
      /\ T.base <= l
  BY <1>1, AboveIs
<1>3. s \in Seq(Entries) /\ Len(s) = m /\ \A i \in 1..m : s[i] = T.st[i]
  BY <1>1, <1>2, DropSeq
<1>4. \A i \in 1..T.base : s[i] = T.st[i]
  BY <1>2, <1>3
<1>5. U = [T EXCEPT !.st = s]
  BY <1>1 DEF Drop
<1>6. Above(T, n) /\ s \in Seq(Entries) /\ m = Len(s) /\ T.base <= m
  BY <1>2, <1>3
<1>7. Quiet(T, m, U)
  BY <1>4, <1>5, <1>6, QuietStack
<1> QED
  BY <1>1, <1>7

LEMMA QuietPush ==
    ASSUME NEW T, NEW n, Above(T, n), NEW e \in Entries, NEW U, U = vpushv(T, e)
    PROVE  /\ Quiet(T, Len(T.st) + 1, U)
           /\ \A i \in 1..Len(T.st) : U.st[i] = T.st[i]
           /\ U.st[Len(T.st) + 1] = e
<1>1. PICK l, m, s : l = Len(T.st) /\ m = l + 1 /\ s = Append(T.st, e)
  OBVIOUS
<1>2. T.st \in Seq(Entries) /\ l \in Nat /\ T.base \in Nat /\ T.base <= l /\ T.base <= m
  BY <1>1, AboveIs
<1>3. s \in Seq(Entries) /\ Len(s) = m /\ s[m] = e /\ \A i \in 1..l : s[i] = T.st[i]
  BY <1>1, <1>2, PushSeq
<1>4. \A i \in 1..T.base : s[i] = T.st[i]
  BY <1>2, <1>3
<1>5. U = [T EXCEPT !.st = s]
  BY <1>1 DEF vpushv
<1>6. Above(T, n) /\ s \in Seq(Entries) /\ m = Len(s) /\ T.base <= m
  BY <1>2, <1>3
<1>7. Quiet(T, m, U) /\ U.st = s
  BY <1>4, <1>5, <1>6, QuietStack
<1> QED
  BY <1>1, <1>3, <1>7

LEMMA QuietTop ==
    ASSUME NEW T, NEW n, Above(T, n)
    PROVE  /\ Len(T.st) >= 1 => vtop(T) = T.st[Len(T.st)] /\ vtop(T) \in Entries
           /\ Len(T.st) >= 2 => Under(T) = T.st[Len(T.st) - 1] /\ Under(T) \in Entries
<1>1. /\ T.st \in Seq(Entries) /\ Len(T.st) \in Nat
      /\ \A i \in 1..Len(T.st) : T.st[i] \in Entries
  BY AboveIs
<1> QED
  BY <1>1 DEF vtop, Under, Last

LEMMA QuietSetTop ==
    ASSUME NEW T, Above(T, 1), NEW e \in Entries, NEW U, U = SetTop(T, e)
    PROVE  Quiet(T, Len(T.st), U)
<1>1. PICK l, D : l = Len(T.st) /\ D = Drop(T, 1)
  OBVIOUS
<1>2. l \in Nat /\ T.base \in Nat /\ T.base + 1 <= l /\ l - 1 \in Nat /\ l - 1 + 1 = l
  BY <1>1, AboveIs
<1>3. Quiet(T, l - 1, D)
  BY <1>1, QuietDrop
<1>4. Above(D, 0) /\ Len(D.st) = l - 1
  <2>1. PICK m : m = l - 1
    OBVIOUS
  <2>2. m \in Nat /\ Quiet(T, m, D) /\ 0 \in Nat /\ T.base + 0 <= m
    BY <1>2, <1>3, <2>1
  <2> QED
    BY <2>1, <2>2, QuietAbove DEF Quiet
<1>5. U = vpushv(D, e)
  BY <1>1 DEF SetTop
<1>6. Quiet(D, Len(D.st) + 1, U)
  BY <1>4, <1>5, QuietPush
<1>7. Quiet(D, l, U)
  BY <1>2, <1>4, <1>6
<1> QED
  BY <1>1, <1>3, <1>7, QuietThen

LEMMA QuietSetReg ==
    ASSUME NEW T, NEW n, Above(T, n), NEW r, NEW w
    PROVE  SetReg(T, r, w) = T
BY AboveIs DEF SetReg

LEMMA QuietRequire ==
    ASSUME NEW T, NEW n, Above(T, n), NEW what, NEW p
    PROVE  Require(T, what, p) = T
BY AboveIs, Zenon DEF Require

LEMMA QuietCheck ==
    ASSUME NEW T, NEW n, Above(T, n)
    PROVE  vcheck_cmp(T) = T
BY AboveIs, Zenon DEF vcheck_cmp

LEMMA QuietGetReg ==
    ASSUME NEW T, NEW n, Above(T, n), NEW class, Class(class), NEW U, U = get_reg(T, class)
    PROVE  Quiet(T, Len(T.st), U) /\ U.st = T.st /\ U.got \in Int
<1>1. PICK g : g = Min(class)
  OBVIOUS
<1>2. class \subseteq Nat /\ class # {}
  BY ClassIs
<1>3. g \in Int
  <2>1. g \in class
    BY <1>1, <1>2, MinIs
  <2> QED
    BY <1>2, <2>1
<1>4. NoCode(T) /\ DOMAIN T = Fields /\ T.base \in 0..Len(T.st)
  BY AboveIs
<1>5. U = [T EXCEPT !.got = g]
  BY <1>1, <1>4, Zenon DEF get_reg
<1>6. /\ DOMAIN U = Fields /\ U.got = g
      /\ U.st = T.st /\ U.reg = T.reg /\ U.mem = T.mem /\ U.temps = T.temps
      /\ U.loc = T.loc /\ U.base = T.base /\ U.bad = T.bad
  BY <1>4, <1>5, WithGot
<1>7. State(T)
  BY DEF Above
<1>8. State(U)
  BY <1>6, <1>7 DEF State
<1> QED
  BY <1>3, <1>4, <1>6, <1>8 DEF Quiet

LEMMA QuietGv ==
    ASSUME NEW T, Above(T, 1), NEW class, Class(class), NEW U, U = gv(T, class)
    PROVE  Quiet(T, Len(T.st), U)
<1>1. PICK l : l = Len(T.st)
  OBVIOUS
<1>2. l \in Nat /\ l >= 1 /\ T.base \in Nat /\ T.base + 1 <= l
  BY <1>1, AboveIs
<1>3. vtop(T) \in Entries
  BY <1>1, <1>2, QuietTop
<1>4. U = gvWord(T, class)
  <2>1. vtop(T).two = FALSE
    BY <1>3, EntryIs
  <2> QED
    BY <2>1 DEF gv
<1>5. CASE vtop(T).k = "reg" /\ vtop(T).r \in class
  <2>1. U = T
    BY <1>4, <1>5, Zenon DEF gvWord
  <2> QED
    BY <1>1, <2>1, QuietSelf
<1>6. CASE ~(vtop(T).k = "reg" /\ vtop(T).r \in class)
  <2>1. PICK G, e : G = get_reg(T, class) /\ e = InReg(vtop(G).v, G.got)
    OBVIOUS
  <2>2. Quiet(T, l, G) /\ G.st = T.st /\ G.got \in Int
    BY <1>1, <2>1, QuietGetReg
  <2>3. Above(G, 1)
    BY <1>2, <2>2, QuietAbove
  <2>4. vtop(G) \in Entries
    BY <1>1, <1>2, <2>2, <2>3, QuietTop
  <2>5. e \in Entries
    BY <2>1, <2>2, <2>4, EntryIs, InRegIs
  <2>6. U = SetTop(load(G, G.got, vtop(G)), e)
    BY <1>4, <1>6, <2>1, Zenon DEF gvWord, Load
  <2>7. load(G, G.got, vtop(G)) = G
    BY <2>3, QuietSetReg DEF load
  <2>8. U = SetTop(G, e)
    BY <2>6, <2>7
  <2>9. Quiet(G, Len(G.st), U)
    BY <2>3, <2>5, <2>8, QuietSetTop
  <2>10. Len(G.st) = l
    BY <1>1, <2>2
  <2>11. Quiet(G, l, U)
    BY <2>9, <2>10
  <2> QED
    BY <1>1, <2>2, <2>11, QuietThen
<1> QED
  BY <1>5, <1>6

LEMMA QuietRotate ==
    ASSUME NEW T, NEW n, Above(T, n), n >= 1
    PROVE  Quiet(T, Len(T.st), vrotb(T, n)) /\ Quiet(T, Len(T.st), vrott(T, n))
<1>1. PICK l, b, t : l = Len(T.st) /\ b = RotB(T.st, n) /\ t = RotT(T.st, n)
  OBVIOUS
<1>2. /\ T.st \in Seq(Entries) /\ l \in Nat /\ n \in 1..l /\ T.base \in Nat /\ T.base <= l - n
      /\ T.base <= l
  BY <1>1, AboveIs
<1>3. b \in Seq(Entries) /\ Len(b) = l /\ \A i \in 1..l - n : b[i] = T.st[i]
  BY <1>1, <1>2, RotBIs
<1>4. t \in Seq(Entries) /\ Len(t) = l /\ \A i \in 1..l - n : t[i] = T.st[i]
  BY <1>1, <1>2, RotTIs
<1>5. vcheck_cmp(T) = T
  BY QuietCheck
<1>6. PICK B, R : B = vrotb(T, n) /\ R = vrott(T, n)
  OBVIOUS
<1>7. B = [T EXCEPT !.st = b] /\ R = [T EXCEPT !.st = t]
  BY <1>1, <1>5, <1>6 DEF vrotb, vrott
<1>8. \A i \in 1..T.base : b[i] = T.st[i] /\ t[i] = T.st[i]
  BY <1>2, <1>3, <1>4
<1>9. Quiet(T, l, B)
  BY <1>2, <1>3, <1>7, <1>8, QuietStack
<1>10. Quiet(T, l, R)
  BY <1>2, <1>4, <1>7, <1>8, QuietStack
<1> QED
  BY <1>1, <1>6, <1>9, <1>10

LEMMA QuietGvUnder ==
    ASSUME NEW T, Above(T, 2), NEW U, U = gvUnder(T)
    PROVE  Quiet(T, Len(T.st), U)
<1>1. PICK l, A, G : l = Len(T.st) /\ A = vswap(T) /\ G = gv(A, Ints)
  OBVIOUS
<1>2. U = vswap(G) /\ A = vrotb(T, 2) /\ U = vrotb(G, 2)
  BY <1>1 DEF gvUnder, vswap
<1>3. l \in Nat /\ T.base \in Nat /\ T.base + 2 <= l /\ T.base + 1 <= l
  BY <1>1, AboveIs
<1>4. Quiet(T, l, A)
  BY <1>1, <1>2, QuietRotate
<1>5. Above(A, 1)
  BY <1>3, <1>4, QuietAbove
<1>6. Len(A.st) = l
  BY <1>4 DEF Quiet
<1>7. Quiet(A, Len(A.st), G)
  <2>1. Class(Ints)
    BY DEF Class
  <2> QED
    BY <1>1, <1>5, <2>1, QuietGv
<1>8. Quiet(T, l, G)
  <2>1. Quiet(A, l, G)
    BY <1>6, <1>7
  <2> QED
    BY <1>4, <2>1, QuietThen
<1>9. Above(G, 2) /\ Len(G.st) = l
  BY <1>3, <1>8, QuietAbove DEF Quiet
<1>10. Quiet(G, Len(G.st), U)
  BY <1>2, <1>9, QuietRotate
<1>11. Quiet(G, l, U)
  BY <1>9, <1>10
<1> QED
  BY <1>1, <1>8, <1>11, QuietThen

LEMMA QuietFetch ==
    ASSUME NEW T, Above(T, 2), NEW U, U \in {T, gv(T, Ints), gvUnder(T)}
    PROVE  Quiet(T, Len(T.st), U) /\ Above(U, 2) /\ Len(U.st) = Len(T.st)
<1>1. PICK l : l = Len(T.st)
  OBVIOUS
<1>2. l \in Nat /\ T.base \in Nat /\ T.base + 2 <= l
  BY <1>1, AboveIs
<1>3. Quiet(T, l, U)
  <2>1. CASE U = T
    BY <1>1, <2>1, QuietSelf
  <2>2. CASE U = gv(T, Ints)
    <3>1. Class(Ints) /\ Above(T, 1)
      BY AboveLess DEF Class
    <3> QED
      BY <1>1, <2>2, <3>1, QuietGv
  <2>3. CASE U = gvUnder(T)
    BY <1>1, <2>3, QuietGvUnder
  <2> QED
    BY <2>1, <2>2, <2>3
<1>4. Above(U, 2) /\ Len(U.st) = l
  BY <1>2, <1>3, QuietAbove DEF Quiet
<1> QED
  BY <1>1, <1>3, <1>4

LEMMA QuietFetchThen ==
    ASSUME NEW T, Above(T, 2), NEW V, Quiet(T, Len(T.st), V), Above(V, 2), Len(V.st) = Len(T.st),
           NEW U, U \in {V, gv(V, Ints), gvUnder(V)}
    PROVE  Quiet(T, Len(T.st), U) /\ Above(U, 2) /\ Len(U.st) = Len(T.st)
<1>1. Quiet(V, Len(V.st), U) /\ Above(U, 2) /\ Len(U.st) = Len(V.st)
  BY QuietFetch
<1>2. PICK l : l = Len(T.st)
  OBVIOUS
<1>3. Quiet(T, l, V) /\ Quiet(V, l, U)
  BY <1>1, <1>2
<1>4. Quiet(T, l, U)
  BY <1>3, QuietThen
<1> QED
  BY <1>1, <1>2, <1>4

LEMMA QuietGv2 ==
    ASSUME NEW T, Above(T, 2), NEW U, U = gv2(T)
    PROVE  Quiet(T, Len(T.st), U) /\ Above(U, 2) /\ Len(U.st) = Len(T.st)
<1>1. CASE vtop(T).k # "cmp"
  <2>1. PICK A, B : A = gvUnder(T) /\ B = gv(A, Ints)
    OBVIOUS
  <2>2. U \in {B, gvUnder(B)}
    BY <1>1, <2>1, Zenon DEF gv2
  <2>3. Quiet(T, Len(T.st), A) /\ Above(A, 2) /\ Len(A.st) = Len(T.st)
    <3>1. A \in {T, gv(T, Ints), gvUnder(T)}
      BY <2>1
    <3> QED
      BY <3>1, QuietFetch
  <2>4. Quiet(T, Len(T.st), B) /\ Above(B, 2) /\ Len(B.st) = Len(T.st)
    <3>1. B \in {A, gv(A, Ints), gvUnder(A)}
      BY <2>1
    <3> QED
      BY <2>3, <3>1, QuietFetchThen
  <2>5. U \in {B, gv(B, Ints), gvUnder(B)}
    BY <2>2
  <2> QED
    BY <2>4, <2>5, QuietFetchThen
<1>2. CASE vtop(T).k = "cmp"
  <2>1. PICK A, B : A = gv(T, Ints) /\ B = gvUnder(A)
    OBVIOUS
  <2>2. U \in {B, gv(B, Ints)}
    BY <1>2, <2>1, Zenon DEF gv2
  <2>3. Quiet(T, Len(T.st), A) /\ Above(A, 2) /\ Len(A.st) = Len(T.st)
    <3>1. A \in {T, gv(T, Ints), gvUnder(T)}
      BY <2>1
    <3> QED
      BY <3>1, QuietFetch
  <2>4. Quiet(T, Len(T.st), B) /\ Above(B, 2) /\ Len(B.st) = Len(T.st)
    <3>1. B \in {A, gv(A, Ints), gvUnder(A)}
      BY <2>1
    <3> QED
      BY <2>3, <3>1, QuietFetchThen
  <2>5. U \in {B, gv(B, Ints), gvUnder(B)}
    BY <2>2
  <2> QED
    BY <2>4, <2>5, QuietFetchThen
<1> QED
  BY <1>1, <1>2

\* The n operands on top give way to one entry.
LEMMA QuietReplace ==
    ASSUME NEW T, NEW n, Above(T, n), n >= 1, NEW D, Quiet(Drop(T, n), Len(T.st) - n, D),
           NEW e \in Entries, NEW U, U = vpushv(D, e)
    PROVE  Quiet(T, Len(T.st) - n + 1, U)
<1>1. PICK l, m, E : l = Len(T.st) /\ m = l - n /\ E = Drop(T, n)
  OBVIOUS
<1>2. l \in Nat /\ n \in Nat /\ m \in Nat /\ T.base + 0 <= m
  BY <1>1, AboveIs
<1>3. Quiet(T, m, E)
  BY <1>1, QuietDrop
<1>4. Quiet(T, m, D)
  <2>1. Quiet(E, m, D)
    BY <1>1
  <2> QED
    BY <1>3, <2>1, QuietThen
<1>5. Above(D, 0)
  BY <1>2, <1>4, QuietAbove
<1>6. Quiet(D, Len(D.st) + 1, U)
  BY <1>5, QuietPush
<1>7. Len(D.st) = m
  BY <1>4 DEF Quiet
<1>8. Quiet(D, m + 1, U)
  BY <1>6, <1>7
<1>9. Quiet(T, m + 1, U)
  BY <1>4, <1>8, QuietThen
<1> QED
  BY <1>1, <1>9

\* What is known of the entries: their fields have the right types.
LEMMA CmpEntry ==
    ASSUME NEW v \in Int \X Int, NEW a \in Int, NEW b \in Int, NEW x \in Int \X Int,
           NEW y \in Int \X Int
    PROVE  /\ Compared(v, <<a, b>>, <<Word(x, 1), Word(y, 1)>>) \in Entries
           /\ Compared(v, <<a, b>>, <<Word(x, 1)>>) \in Entries
<1>1. Word(x, 1) \in Words3 /\ Word(y, 1) \in Words3
  BY WordIn
<1>2. PICK c, s, t : c = <<a, b>> /\ s = <<Word(x, 1), Word(y, 1)>> /\ t = <<Word(x, 1)>>
  OBVIOUS
<1>3. c \in Int \X Int /\ s \in Seq(Words3) /\ t \in Seq(Words3)
  BY <1>1, <1>2
<1>4. Compared(v, c, s) \in Entries /\ Compared(v, c, t) \in Entries
  BY <1>3, ComparedIs
<1> QED
  BY <1>2, <1>4

LEMMA QuietOperate ==
    ASSUME NEW T, Above(T, 2), NEW op, NEW v \in Int \X Int, NEW U, U = Operate(T, op, v)
    PROVE  Quiet(T, Len(T.st) - 1, U)
<1>1. PICK l, D, G : l = Len(T.st) /\ D = Drop(T, 2) /\ G = get_reg(D, Ints)
  OBVIOUS
<1>2. l \in Nat /\ T.base \in Nat /\ T.base + 2 <= l /\ l - 2 \in Nat /\ l - 2 + 1 = l - 1
  BY <1>1, AboveIs
<1>3. PICK a, b : a = Under(T) /\ b = vtop(T)
  OBVIOUS
<1>4. a \in Entries /\ b \in Entries
  BY <1>1, <1>2, <1>3, QuietTop
<1>5. a.r \in Int /\ b.r \in Int /\ a.v \in Int \X Int /\ b.v \in Int \X Int
  BY <1>4, EntryIs
<1>6. U = Combine(G, a, b, op, v)
  <2>1. PICK p : p = (IsIn(T, Under(T)) /\ IsIn(T, vtop(T)))
    OBVIOUS
  <2>2. Require(T, "operand", p) = T
    BY QuietRequire
  <2>3. U = Combine(get_reg(Drop(Require(T, "operand", p), 2), Ints), Under(T), vtop(T), op, v)
    BY <2>1, Zenon DEF Operate
  <2> QED
    BY <1>1, <1>3, <2>2, <2>3
<1>7. Quiet(T, l - 2, D)
  BY <1>1, QuietDrop
<1>8. Above(D, 0) /\ Len(D.st) = l - 2
  <2>1. PICK m : m = l - 2
    OBVIOUS
  <2>2. m \in Nat /\ Quiet(T, m, D) /\ 0 \in Nat /\ T.base + 0 <= m
    BY <1>2, <1>7, <2>1
  <2> QED
    BY <2>1, <2>2, QuietAbove DEF Quiet
<1>9. Quiet(D, Len(D.st), G) /\ G.got \in Int
  <2>1. Class(Ints)
    BY DEF Class
  <2> QED
    BY <1>1, <1>8, <2>1, QuietGetReg
<1>10. Quiet(D, l - 2, G)
  BY <1>8, <1>9
<1>11. Above(G, 0)
  <2>1. PICK m : m = l - 2
    OBVIOUS
  <2>2. m \in Nat /\ Quiet(T, m, D) /\ Quiet(D, m, G) /\ 0 \in Nat /\ T.base + 0 <= m
    BY <1>2, <1>7, <1>10, <2>1
  <2>3. Quiet(T, m, G)
    BY <2>2, QuietThen
  <2> QED
    BY <2>2, <2>3, QuietAbove
<1>12. \E e \in Entries : U = vpushv(G, e)
  <2>1. CASE op \in {"less", "equal"}
    <3>1. U = vpushv(G, Compared(v, <<a.r, b.r>>, <<Word(a.v, 1), Word(b.v, 1)>>))
      BY <1>6, <2>1, Zenon DEF Combine
    <3> QED
      BY <1>5, <3>1, CmpEntry
  <2>2. CASE op \notin {"less", "equal"}
    <3>1. U = vpushv(SetReg(G, G.got, Word(v, 1)), InReg(v, G.got))
      BY <1>6, <2>2, Zenon DEF Combine
    <3>2. SetReg(G, G.got, Word(v, 1)) = G
      BY <1>11, QuietSetReg
    <3>3. InReg(v, G.got) \in Entries
      BY <1>9, InRegIs
    <3> QED
      BY <3>1, <3>2, <3>3
  <2> QED
    BY <2>1, <2>2
<1>13. PICK e \in Entries : U = vpushv(G, e)
  BY <1>12
<1>14. Quiet(Drop(T, 2), Len(T.st) - 2, G)
  BY <1>1, <1>10
<1>15. Quiet(T, Len(T.st) - 2 + 1, U)
  BY <1>13, <1>14, QuietReplace
<1> QED
  BY <1>1, <1>2, <1>15

LEMMA QuietGeneral ==
    ASSUME NEW T, Above(T, 2), NEW op, NEW v \in Int \X Int, NEW U, U = General(T, op, v)
    PROVE  Quiet(T, Len(T.st) - 1, U)
<1>1. PICK l, m, V : l = Len(T.st) /\ m = l - 1 /\ V = gv2(T)
  OBVIOUS
<1>2. Quiet(T, l, V) /\ Above(V, 2) /\ Len(V.st) = l
  BY <1>1, QuietGv2
<1>3. U = Operate(V, op, v)
  BY <1>1 DEF General
<1>4. Quiet(V, Len(V.st) - 1, U)
  BY <1>2, <1>3, QuietOperate
<1>5. Quiet(V, m, U)
  BY <1>1, <1>2, <1>4
<1> QED
  BY <1>1, <1>2, <1>5, QuietThen

LEMMA QuietImmediateIn ==
    ASSUME NEW T, Above(T, 2), T.got \in Int, NEW a \in Entries, NEW op \in Ops,
           NEW v \in Int \X Int, NEW U, U = ImmediateIn(T, a, op, v)
    PROVE  Quiet(T, Len(T.st) - 1, U)
<1>1. PICK l, D : l = Len(T.st) /\ D = Drop(T, 2)
  OBVIOUS
<1>2. l \in Nat /\ T.base \in Nat /\ T.base + 2 <= l /\ l - 2 + 1 = l - 1 /\ l - 2 \in Nat
  BY <1>1, AboveIs
<1>3. a.r \in Int /\ a.v \in Int \X Int /\ None \in Int /\ T.got \in Int
  <2>1. None \in Int
    BY DEF None
  <2> QED
    BY <2>1, EntryIs
<1>4. Quiet(T, l - 2, D)
  BY <1>1, QuietDrop
<1>5. Above(D, 0)
  <2>1. PICK m : m = l - 2
    OBVIOUS
  <2>2. m \in Nat /\ Quiet(T, m, D) /\ 0 \in Nat /\ T.base + 0 <= m
    BY <1>2, <1>4, <2>1
  <2> QED
    BY <2>2, QuietAbove
<1>6. SetReg(D, T.got, Word(v, 1)) = D
  BY <1>5, QuietSetReg
<1>7. CASE op = "mul"
  <2>1. U = General(T, op, v)
    BY <1>7 DEF ImmediateIn
  <2> QED
    BY <2>1, QuietGeneral
<1>8. CASE op # "mul"
  <2>1. \E e \in Entries : U = vpushv(D, e)
    <3>1. CASE op = "add"
      <4>1. U = vpushv(SetReg(D, T.got, Word(v, 1)), InReg(v, T.got))
        BY <1>1, <3>1 DEF ImmediateIn
      <4>2. InReg(v, T.got) \in Entries
        BY InRegIs
      <4> QED
        BY <1>6, <4>1, <4>2
    <3>2. CASE op = "less"
      <4>1. U = vpushv(SetReg(D, T.got, Word(v, 1)),
                       Compared(v, <<T.got, None>>, <<Word(v, 1)>>))
        BY <1>1, <3>2 DEF ImmediateIn
      <4>2. Compared(v, <<T.got, None>>, <<Word(v, 1)>>) \in Entries
        BY <1>3, CmpEntry
      <4> QED
        BY <1>6, <4>1, <4>2
    <3>3. CASE op = "equal"
      <4>1. U = vpushv(D, Compared(v, <<a.r, None>>, <<Word(a.v, 1)>>))
        BY <1>1, <3>3 DEF ImmediateIn
      <4>2. Compared(v, <<a.r, None>>, <<Word(a.v, 1)>>) \in Entries
        BY <1>3, CmpEntry
      <4> QED
        BY <4>1, <4>2
    <3> QED
      BY <1>8, <3>1, <3>2, <3>3 DEF Ops
  <2>2. PICK e \in Entries : U = vpushv(D, e)
    BY <2>1
  <2>3. Quiet(D, Len(D.st), D)
    BY <1>5, QuietSelf
  <2>4. Len(D.st) = l - 2
    BY <1>4 DEF Quiet
  <2>5. Quiet(Drop(T, 2), Len(T.st) - 2, D)
    BY <1>1, <2>3, <2>4
  <2>6. Quiet(T, Len(T.st) - 2 + 1, U)
    BY <2>2, <2>5, QuietReplace
  <2> QED
    BY <1>1, <1>2, <2>6
<1> QED
  BY <1>7, <1>8

LEMMA QuietImmediateOf ==
    ASSUME NEW T, Above(T, 2), NEW op \in Ops, NEW v \in Int \X Int, NEW U,
           U = ImmediateOf(T, op, v)
    PROVE  Quiet(T, Len(T.st) - 1, U)
<1>1. PICK l, a, D, G, A, S : /\ l = Len(T.st) /\ a = vtop(T) /\ D = Drop(T, 1)
                              /\ G = get_reg(D, Ints) /\ A = vpushv(G, a) /\ S = vswap(A)
  OBVIOUS
<1>2. /\ l \in Nat /\ T.base \in Nat /\ T.base + 2 <= l /\ l - 1 \in Nat /\ l - 1 + 1 = l
      /\ T.base + 1 <= l - 1
  BY <1>1, AboveIs
<1>3. a \in Entries
  BY <1>1, <1>2, QuietTop
<1>4. U = ImmediateIn(S, a, op, v)
  <2>1. PICK p : p = IsIn(T, a)
    OBVIOUS
  <2>2. Require(T, "operand", p) = T
    BY QuietRequire
  <2>3. U = ImmediateIn(vswap(vpushv(get_reg(Drop(Require(T, "operand", p), 1), Ints), a)),
                        a, op, v)
    BY <1>1, <2>1, Zenon DEF ImmediateOf
  <2> QED
    BY <1>1, <2>2, <2>3
<1>5. Above(T, 1)
  BY AboveLess
<1>6. Quiet(T, l - 1, D)
  BY <1>1, <1>5, QuietDrop
<1>7. Above(D, 1) /\ Len(D.st) = l - 1
  <2>1. PICK m : m = l - 1
    OBVIOUS
  <2>2. m \in Nat /\ Quiet(T, m, D) /\ 1 \in Nat /\ T.base + 1 <= m
    BY <1>2, <1>6, <2>1
  <2> QED
    BY <2>1, <2>2, QuietAbove DEF Quiet
<1>8. Quiet(D, Len(D.st), G) /\ G.got \in Int
  <2>1. Class(Ints)
    BY DEF Class
  <2> QED
    BY <1>1, <1>7, <2>1, QuietGetReg
<1>9. Quiet(D, l - 1, G)
  BY <1>7, <1>8
<1>10. Quiet(Drop(T, 1), Len(T.st) - 1, G)
  BY <1>1, <1>9
<1>11. Quiet(T, l, A)
  <2>1. Quiet(T, Len(T.st) - 1 + 1, A)
    BY <1>1, <1>3, <1>5, <1>10, QuietReplace
  <2> QED
    BY <1>1, <1>2, <2>1
<1>12. Above(A, 2)
  BY <1>2, <1>11, QuietAbove
<1>13. A.got \in Int
  <2>1. DOMAIN G = Fields
    BY <1>9 DEF Quiet, State
  <2>2. A = [G EXCEPT !.st = Append(G.st, a)]
    BY <1>1 DEF vpushv
  <2>3. A.got = G.got
    BY <2>1, <2>2, WithStack DEF Rest
  <2> QED
    BY <1>8, <2>3
<1>14. Quiet(A, l, S) /\ S.got \in Int
  <2>1. S = vrotb(A, 2) /\ Len(A.st) = l
    BY <1>1, <1>11 DEF vswap, Quiet
  <2>2. Quiet(A, Len(A.st), S)
    BY <1>12, <2>1, QuietRotate
  <2>3. vcheck_cmp(A) = A /\ DOMAIN A = Fields
    BY <1>12, QuietCheck, AboveIs
  <2>4. S = [A EXCEPT !.st = RotB(A.st, 2)]
    BY <2>1, <2>3 DEF vrotb
  <2>5. S.got = A.got
    BY <2>3, <2>4, WithStack DEF Rest
  <2> QED
    BY <1>13, <2>1, <2>2, <2>5
<1>15. Quiet(T, l, S)
  BY <1>11, <1>14, QuietThen
<1>16. Above(S, 2) /\ Len(S.st) = l
  BY <1>2, <1>15, QuietAbove DEF Quiet
<1>17. Quiet(S, Len(S.st) - 1, U)
  BY <1>3, <1>4, <1>14, <1>16, QuietImmediateIn
<1>18. Quiet(S, l - 1, U)
  BY <1>16, <1>17
<1> QED
  BY <1>1, <1>15, <1>18, QuietThen

LEMMA QuietSwap ==
    ASSUME NEW T, Above(T, 2), NEW U, U = vswap(T)
    PROVE  Quiet(T, Len(T.st), U) /\ Above(U, 2) /\ Len(U.st) = Len(T.st)
<1>1. PICK l : l = Len(T.st)
  OBVIOUS
<1>2. l \in Nat /\ T.base \in Nat /\ T.base + 2 <= l
  BY <1>1, AboveIs
<1>3. U = vrotb(T, 2)
  BY DEF vswap
<1>4. Quiet(T, l, U)
  BY <1>1, <1>3, QuietRotate
<1> QED
  BY <1>1, <1>2, <1>4, QuietAbove DEF Quiet

LEMMA QuietGenOpil ==
    ASSUME NEW T, Above(T, 2), NEW op \in Ops, NEW v \in Int \X Int, NEW U,
           U = gen_opil(T, op, v)
    PROVE  Quiet(T, Len(T.st) - 1, U)
<1>1. CASE vtop(T).k = "const"
  <2>1. PICK l, m, A, G : l = Len(T.st) /\ m = l - 1 /\ A = vswap(T) /\ G = gv(A, Ints)
    OBVIOUS
  <2>2. U = ImmediateOf(G, op, v)
    BY <1>1, <2>1, Zenon DEF gen_opil
  <2>3. Quiet(T, Len(T.st), A) /\ Above(A, 2) /\ Len(A.st) = Len(T.st)
    BY <2>1, QuietSwap
  <2>4. Quiet(T, Len(T.st), G) /\ Above(G, 2) /\ Len(G.st) = Len(T.st)
    <3>1. G \in {A, gv(A, Ints), gvUnder(A)}
      BY <2>1
    <3> QED
      BY <2>3, <3>1, QuietFetchThen
  <2>5. Quiet(G, Len(G.st) - 1, U)
    BY <2>2, <2>4, QuietImmediateOf
  <2>6. Quiet(T, l, G) /\ Quiet(G, m, U)
    BY <2>1, <2>4, <2>5
  <2> QED
    BY <2>1, <2>6, QuietThen
<1>2. CASE vtop(T).k # "const"
  <2>1. U = General(T, op, v)
    BY <1>2, Zenon DEF gen_opil
  <2> QED
    BY <2>1, QuietGeneral
<1> QED
  BY <1>1, <1>2

LEMMA QuietGenOpic ==
    ASSUME NEW T, Above(T, 2), NEW op \in Ops, NEW v \in Int \X Int, NEW U,
           U = gen_opic(T, op, v)
    PROVE  Quiet(T, Len(T.st) - 1, U)
<1>1. PICK l, m : l = Len(T.st) /\ m = l - 1
  OBVIOUS
<1>2. l \in Nat /\ m \in Nat /\ T.base \in Nat /\ T.base + 2 <= l /\ l - 2 + 1 = m /\ l - 2 \in Nat
  BY <1>1, AboveIs
<1>3. CASE Under(T).k = "const" /\ vtop(T).k = "const"
  <2>1. PICK D : D = Drop(T, 2)
    OBVIOUS
  <2>2. U = vpushv(D, Const(v))
    BY <1>3, <2>1, Zenon DEF gen_opic
  <2>3. Quiet(T, l - 2, D)
    BY <1>1, <2>1, QuietDrop
  <2>4. Above(D, 0) /\ Len(D.st) = l - 2
    <3>1. PICK x : x = l - 2
      OBVIOUS
    <3>2. x \in Nat /\ Quiet(T, x, D) /\ 0 \in Nat /\ T.base + 0 <= x
      BY <1>2, <2>3, <3>1
    <3> QED
      BY <3>1, <3>2, QuietAbove DEF Quiet
  <2>5. Quiet(Drop(T, 2), Len(T.st) - 2, D)
    <3>1. Quiet(D, Len(D.st), D)
      BY <2>4, QuietSelf
    <3> QED
      BY <1>1, <2>1, <2>4, <3>1
  <2>6. Const(v) \in Entries
    BY ConstIs
  <2>7. Quiet(T, Len(T.st) - 2 + 1, U)
    BY <2>2, <2>5, <2>6, QuietReplace
  <2> QED
    BY <1>1, <1>2, <2>7
<1>4. CASE ~(Under(T).k = "const" /\ vtop(T).k = "const")
  <2>1. PICK S : S = IF Under(T).k = "const" /\ op # "less" THEN vswap(T) ELSE T
    OBVIOUS
  <2>2. U = gen_opil(S, op, v)
    BY <1>4, <2>1, Zenon DEF gen_opic
  <2>3. Quiet(T, l, S) /\ Above(S, 2) /\ Len(S.st) = l
    <3>1. Quiet(T, l, T)
      BY <1>1, QuietSelf
    <3>2. CASE S = T
      BY <1>1, <3>1, <3>2
    <3>3. CASE S = vswap(T)
      BY <1>1, <3>3, QuietSwap
    <3> QED
      BY <2>1, <3>2, <3>3
  <2>4. Quiet(S, Len(S.st) - 1, U)
    BY <2>2, <2>3, QuietGenOpil
  <2>5. Quiet(S, m, U)
    BY <1>1, <2>3, <2>4
  <2>6. Quiet(T, m, U)
    BY <2>3, <2>5, QuietThen
  <2> QED
    BY <1>1, <2>6
<1> QED
  BY <1>3, <1>4

LEMMA QuietGenOp ==
    ASSUME NEW T, Above(T, 2), NEW op \in Ops, NEW U, U = gen_op(T, op)
    PROVE  Quiet(T, Len(T.st) - 1, U)
<1>1. PICK l, m, v, A, S : /\ l = Len(T.st) /\ m = l - 1 /\ v = Fresh(T)
                           /\ A = vswap(T) /\ S = vswap(A)
  OBVIOUS
<1>2. U = gen_opic(S, op, v)
  BY <1>1 DEF gen_op
<1>3. v \in Int \X Int
  BY <1>1, AboveIs, FreshIs
<1>4. Quiet(T, l, A) /\ Above(A, 2) /\ Len(A.st) = l
  BY <1>1, QuietSwap
<1>5. Quiet(A, Len(A.st), S) /\ Above(S, 2) /\ Len(S.st) = Len(A.st)
  BY <1>1, <1>4, QuietSwap
<1>6. Quiet(A, l, S) /\ Len(S.st) = l
  BY <1>4, <1>5
<1>7. Quiet(T, l, S)
  BY <1>4, <1>6, QuietThen
<1>8. Quiet(S, Len(S.st) - 1, U)
  BY <1>2, <1>3, <1>5, QuietGenOpic
<1>9. Quiet(S, m, U)
  BY <1>1, <1>6, <1>8
<1> QED
  BY <1>1, <1>7, <1>9, QuietThen

LEMMA QuietReload ==
    ASSUME NEW T, Above(T, 2), T.got \in Int, NEW U, U = ReloadPointer(T)
    PROVE  Quiet(T, Len(T.st), U)
<1>1. PICK l, p, q : l = Len(T.st) /\ p = l - 1 /\ q = T.got
  OBVIOUS
<1>2. /\ T.st \in Seq(Entries) /\ l \in Nat /\ p \in 1..l /\ T.base \in Nat /\ T.base < p
      /\ T.base <= l /\ q \in Int /\ l >= 2
  BY <1>1, AboveIs
<1>3. PICK e, f, s : e = Under(T) /\ f = AtOf(e, q) /\ s = [T.st EXCEPT ![p] = f]
  OBVIOUS
<1>4. e \in Entries
  BY <1>1, <1>2, <1>3, QuietTop
<1>5. f \in Entries
  <2>1. \A x \in Int : AtOf(e, x) \in Entries
    BY <1>4, AtIs
  <2> QED
    BY <1>2, <1>3, <2>1
<1>6. s \in Seq(Entries) /\ Len(s) = l /\ \A i \in 1..T.base : s[i] = T.st[i]
  <2>1. DOMAIN s = 1..l /\ \A i \in 1..l : s[i] = IF i = p THEN f ELSE T.st[i]
    BY <1>1, <1>2, <1>3
  <2>2. PICK t : t = T.st
    OBVIOUS
  <2>3. s \in Seq(Entries) /\ Len(s) = l
    <3>1. t \in [1..l -> Entries]
      BY <1>1, <1>2, <2>2
    <3>2. s = [t EXCEPT ![p] = f] /\ p \in 1..l
      BY <1>2, <1>3, <2>2
    <3>3. s \in [1..l -> Entries]
      BY ONLY <1>5, <3>1, <3>2
    <3> QED
      BY ONLY <1>2, <3>3
  <2> QED
    BY <1>2, <2>1, <2>3
<1>7. SetReg(T, q, Content(T, e.c)) = T
  BY QuietSetReg
<1>8. U = [T EXCEPT !.st = s]
  BY <1>1, <1>3, <1>7 DEF ReloadPointer, ReplaceAt, AtOf
<1>9. Above(T, 2) /\ s \in Seq(Entries) /\ l = Len(s) /\ T.base <= l
  BY <1>2, <1>6
<1> QED
  BY <1>1, <1>6, <1>8, <1>9, QuietStack

LEMMA QuietStore ==
    ASSUME NEW T, Above(T, 2), NEW U, U = vstore(T)
    PROVE  Quiet(T, Len(T.st) - 1, U)
<1>1. PICK l, m, F, R, S : /\ l = Len(T.st) /\ m = l - 1 /\ F = gv(T, Ints)
                           /\ R = (IF Under(F).k = "llocal" THEN ReloadPointer(get_reg(F, Ints))
                                   ELSE F)
                           /\ S = vswap(R)
  OBVIOUS
<1>2. l \in Nat /\ T.base \in Nat /\ T.base + 2 <= l
  BY <1>1, AboveIs
<1>3. Quiet(T, l, F) /\ Above(F, 2) /\ Len(F.st) = l
  <2>1. F \in {T, gv(T, Ints), gvUnder(T)}
    BY <1>1
  <2> QED
    BY <1>1, <2>1, QuietFetch
<1>4. Quiet(F, l, R)
  <2>1. CASE Under(F).k = "llocal"
    <3>1. PICK G : G = get_reg(F, Ints)
      OBVIOUS
    <3>2. R = ReloadPointer(G)
      BY <1>1, <2>1, <3>1
    <3>3. Class(Ints)
      BY DEF Class
    <3>4. Quiet(F, Len(F.st), G) /\ G.got \in Int
      BY <1>3, <3>1, <3>3, QuietGetReg
    <3>5. Quiet(F, l, G)
      BY <1>3, <3>4
    <3>6. F.base \in Nat /\ F.base + 2 <= l
      BY <1>3, AboveIs
    <3>7. Above(G, 2) /\ Len(G.st) = l
      BY <1>2, <3>5, <3>6, QuietAbove DEF Quiet
    <3>8. Quiet(G, Len(G.st), R)
      BY <3>2, <3>4, <3>7, QuietReload
    <3>9. Quiet(G, l, R)
      BY <3>7, <3>8
    <3> QED
      BY <3>5, <3>9, QuietThen
  <2>2. CASE Under(F).k # "llocal"
    <3>1. R = F
      BY <1>1, <2>2
    <3> QED
      BY <1>3, <3>1, QuietSelf
  <2> QED
    BY <2>1, <2>2
<1>5. Quiet(T, l, R)
  BY <1>3, <1>4, QuietThen
<1>6. Above(R, 2) /\ Len(R.st) = l
  BY <1>2, <1>5, QuietAbove DEF Quiet
<1>7. StoreWords(R) = R
  <2>1. vtop(R) \in Entries
    BY <1>2, <1>6, QuietTop
  <2>2. vtop(R).two = FALSE
    BY <2>1, EntryIs
  <2>3. StoreFirst(R) = R
    BY <1>6, QuietRequire DEF StoreFirst
  <2> QED
    BY <2>2, <2>3 DEF StoreWords
<1>8. U = Drop(S, 1)
  <2>1. U = Drop(vswap(StoreWords(R)), 1)
    BY <1>1, Zenon DEF vstore, StoreValue
  <2> QED
    BY <1>1, <1>7, <2>1
<1>9. Quiet(R, l, S) /\ Above(S, 2) /\ Len(S.st) = l
  BY <1>1, <1>6, QuietSwap
<1>10. Quiet(T, l, S)
  BY <1>5, <1>9, QuietThen
<1>11. Quiet(S, Len(S.st) - 1, U)
  <2>1. Above(S, 1)
    BY <1>9, AboveLess
  <2> QED
    BY <1>8, <2>1, QuietDrop
<1>12. Quiet(S, m, U)
  BY <1>1, <1>9, <1>11
<1> QED
  BY <1>1, <1>10, <1>12, QuietThen

LEMMA QuietGvDup ==
    ASSUME NEW T, Above(T, 1), NEW U, U = gv_dup(T)
    PROVE  Quiet(T, Len(T.st) + 1, U)
<1>1. PICK l, m, F, G, P : /\ l = Len(T.st) /\ m = l + 1 /\ F = gv(T, Ints)
                           /\ G = get_reg(F, Ints) /\ P = vpushv(G, vtop(G))
  OBVIOUS
<1>2. l \in Nat /\ m \in Nat /\ T.base \in Nat /\ T.base + 1 <= l /\ T.base + 1 <= m /\ l >= 1
  BY <1>1, AboveIs
<1>3. Class(Ints)
  BY DEF Class
<1>4. Quiet(T, l, F)
  BY <1>1, <1>3, QuietGv
<1>5. Above(F, 1) /\ Len(F.st) = l
  BY <1>2, <1>4, QuietAbove DEF Quiet
<1>6. Quiet(F, Len(F.st), G) /\ G.got \in Int
  BY <1>1, <1>3, <1>5, QuietGetReg
<1>7. Quiet(T, l, G)
  <2>1. Quiet(F, l, G)
    BY <1>5, <1>6
  <2> QED
    BY <1>4, <2>1, QuietThen
<1>8. Above(G, 1) /\ Len(G.st) = l
  BY <1>2, <1>7, QuietAbove DEF Quiet
<1>9. vtop(G) \in Entries
  BY <1>2, <1>8, QuietTop
<1>10. Quiet(T, m, P)
  <2>1. Quiet(G, Len(G.st) + 1, P)
    BY <1>1, <1>8, <1>9, QuietPush
  <2>2. Quiet(G, m, P)
    BY <1>1, <1>8, <2>1
  <2> QED
    BY <1>7, <2>2, QuietThen
<1>11. Above(P, 1) /\ Len(P.st) = m
  BY <1>2, <1>10, QuietAbove DEF Quiet
<1>12. U = SetTop(P, InReg(vtop(G).v, G.got))
  <2>1. U = SetTop(load(P, G.got, vtop(G)), InReg(vtop(G).v, G.got))
    BY <1>1 DEF gv_dup, Duplicate
  <2>2. load(P, G.got, vtop(G)) = P
    BY <1>11, QuietSetReg DEF load
  <2> QED
    BY <2>1, <2>2
<1>13. InReg(vtop(G).v, G.got) \in Entries
  BY <1>6, <1>9, EntryIs, InRegIs
<1>14. Quiet(P, Len(P.st), U)
  BY <1>11, <1>12, <1>13, QuietSetTop
<1>15. Quiet(P, m, U)
  BY <1>11, <1>14
<1> QED
  BY <1>1, <1>10, <1>15, QuietThen

LEMMA QuietSaveRegs ==
    ASSUME NEW T, NEW n, Above(T, n)
    PROVE  save_regs(T, n) = T
<1>1. PICK m : m = Len(T.st) - n
  OBVIOUS
<1>2. NoCode(T) /\ m \in Nat
  BY <1>1, AboveIs
<1>3. PICK f : f = [i \in 0..m |-> IF i = 0 THEN T ELSE SaveEntry(f[i - 1], i)]
               /\ save_regs(T, n) = f[m]
  BY <1>1, <1>2, SaveRegsUnfold
<1>4. ASSUME NEW i PROVE SaveEntry(T, i) = T
  <2>1. ASSUME NEW r PROVE save_reg(T, r) = T
    BY <1>2, Zenon DEF save_reg, save_reg_upstack
  <2> QED
    BY <2>1, Zenon DEF SaveEntry
<1> DEFINE S == {i \in 0..m : f[i] # T}
<1>5. ASSUME S # {} PROVE FALSE
  <2>1. PICK i \in S : \A j \in S : i <= j
    <3>1. S \subseteq Nat
      BY <1>2
    <3> QED
      BY <1>5, <3>1, LeastIn
  <2>2. CASE i = 0
    <3>1. f[0] = T
      BY <1>2, <1>3
    <3> QED
      BY <2>1, <2>2, <3>1
  <2>3. CASE i # 0
    <3>1. i - 1 \in 0..m /\ i - 1 \notin S /\ i \in 0..m
      BY <1>2, <2>1, <2>3
    <3>2. f[i - 1] = T
      BY <3>1
    <3>3. f[i] = SaveEntry(f[i - 1], i)
      BY <1>3, <2>3, <3>1
    <3> QED
      BY <1>4, <2>1, <3>2, <3>3
  <2> QED
    BY <2>2, <2>3
<1>6. f[m] = T
  BY <1>2, <1>5
<1> QED
  BY <1>3, <1>6

LEMMA QuietArgument ==
    ASSUME NEW T, NEW n \in Nat, n <= NRegs, Above(T, n), NEW j \in 1..n,
           NEW U, U = Argument(T, n, n - j + 1)
    PROVE  Quiet(T, Len(T.st), U)
<1>1. PICK l, i, q : l = Len(T.st) /\ i = n - j + 1 /\ q = i - 1
  OBVIOUS
<1>2. /\ l \in Nat /\ T.base \in Nat /\ T.base + n <= l /\ n \in 0..l /\ i \in 1..n
      /\ j \in 0..n /\ j >= 1 /\ 1 \in 0..j /\ n - i + 1 = j /\ q \in Ints /\ j \in Nat
      /\ T.base + j <= l
  BY <1>1, AboveIs, RegAssumption DEF Ints
<1>3. ArgReg(T, n, i) = q
  <2>1. State(T) /\ n \in 0..Len(T.st) /\ i \in 1..n
    BY <1>1, <1>2 DEF Above
  <2> QED
    BY <1>1, <2>1, ArgRegIs
<1>4. PICK R, G, M : R = vrotb(T, j) /\ G = gv(R, {q}) /\ M = MoveSecond(G, q + 1)
  OBVIOUS
<1>5. U = vrott(M, j)
  BY <1>1, <1>2, <1>3, <1>4, Zenon DEF Argument
<1>6. Quiet(T, l, R)
  <2>1. Above(T, j)
    BY <1>2, AboveLess
  <2> QED
    BY <1>1, <1>2, <1>4, <2>1, QuietRotate
<1>7. Above(R, j) /\ Len(R.st) = l
  BY <1>2, <1>6, QuietAbove DEF Quiet
<1>8. Quiet(R, Len(R.st), G)
  <2>1. Class({q})
    BY <1>2 DEF Class
  <2>2. Above(R, 1)
    BY <1>2, <1>7, AboveLess
  <2> QED
    BY <1>4, <2>1, <2>2, QuietGv
<1>9. Quiet(T, l, G)
  <2>1. Quiet(R, l, G)
    BY <1>7, <1>8
  <2> QED
    BY <1>6, <2>1, QuietThen
<1>10. Above(G, j) /\ Len(G.st) = l
  BY <1>2, <1>9, QuietAbove DEF Quiet
<1>11. M = G
  <2>1. l >= 1
    BY <1>2
  <2>2. vtop(G) \in Entries
    BY <1>10, <2>1, QuietTop
  <2>3. vtop(G).two = FALSE
    BY <2>2, EntryIs
  <2> QED
    BY <1>4, <2>3 DEF MoveSecond
<1>12. Quiet(G, Len(G.st), U)
  BY <1>2, <1>5, <1>10, <1>11, QuietRotate
<1>13. Quiet(G, l, U)
  BY <1>10, <1>12
<1> QED
  BY <1>1, <1>9, <1>13, QuietThen

LEMMA QuietArguments ==
    ASSUME NEW T, NEW n \in Nat, n <= NRegs, Above(T, n), NEW U, U = Arguments(T, n)
    PROVE  Quiet(T, Len(T.st), U)
<1>1. PICK l : l = Len(T.st)
  OBVIOUS
<1>2. l \in Nat /\ T.base \in Nat /\ T.base + n <= l
  BY <1>1, AboveIs
<1>3. PICK f : f = [i \in 0..n |-> IF i = 0 THEN T ELSE Argument(f[i - 1], n, n - i + 1)]
               /\ Arguments(T, n) = f[n]
  BY ArgumentsUnfold
<1> DEFINE S == {i \in 0..n : ~Quiet(T, l, f[i])}
<1>4. ASSUME S # {} PROVE FALSE
  <2>1. PICK i \in S : \A j \in S : i <= j
    <3>1. S \subseteq Nat
      OBVIOUS
    <3> QED
      BY <1>4, <3>1, LeastIn
  <2>2. CASE i = 0
    <3>1. f[0] = T
      BY <1>3
    <3>2. Quiet(T, l, T)
      BY <1>1, QuietSelf
    <3> QED
      BY <2>1, <2>2, <3>1, <3>2
  <2>3. CASE i # 0
    <3>1. i \in 1..n /\ i - 1 \in 0..n /\ i - 1 \notin S /\ i \in 0..n
      BY <2>1, <2>3
    <3>2. PICK V, W : V = f[i - 1] /\ W = f[i]
      OBVIOUS
    <3>3. Quiet(T, l, V)
      BY <3>1, <3>2
    <3>4. W = Argument(V, n, n - i + 1)
      BY <1>3, <2>3, <3>1, <3>2
    <3>5. Above(V, n) /\ Len(V.st) = l
      BY <1>2, <3>3, QuietAbove DEF Quiet
    <3>6. Quiet(V, Len(V.st), W)
      BY <3>1, <3>4, <3>5, QuietArgument
    <3>7. Quiet(V, l, W)
      BY <3>5, <3>6
    <3>8. Quiet(T, l, W)
      BY <3>3, <3>7, QuietThen
    <3> QED
      BY <2>1, <3>2, <3>8
  <2> QED
    BY <2>2, <2>3
<1>5. Quiet(T, l, f[n])
  BY <1>4
<1> QED
  BY <1>1, <1>3, <1>5

LEMMA QuietJump ==
    ASSUME NEW T, NEW n \in Nat, NEW m, m = n + 1, Above(T, m), NEW v \in Int \X Int,
           NEW U, U = Jump(T, n, FALSE, v)
    PROVE  Quiet(T, Len(T.st) - m + 1, U)
<1>1. PICK l, D : l = Len(T.st) /\ D = Drop(T, m)
  OBVIOUS
<1>2. l \in Nat /\ m \in Nat /\ T.base \in Nat /\ T.base + m <= l /\ m >= 1
  BY <1>1, AboveIs
<1>3. PICK y : y = l - m
  OBVIOUS
<1>4. y \in Nat /\ T.base + 0 <= y
  BY <1>2, <1>3
<1>5. Quiet(T, y, D)
  BY <1>1, <1>3, QuietDrop
<1>6. Above(D, 0) /\ Len(D.st) = y
  BY <1>4, <1>5, QuietAbove DEF Quiet
<1>7. PICK p : p = (/\ \A i \in 1..n :
                          /\ T.reg[ArgReg(Drop(T, 1), n, i)] = Word(T.st[Len(T.st) - 1 - n + i].v, 1)
                          /\ T.st[Len(T.st) - 1 - n + i].two =>
                                 T.reg[ArgReg(Drop(T, 1), n, i) + 1]
                                     = Word(T.st[Len(T.st) - 1 - n + i].v, 2)
                    /\ First(T, vtop(T)) = Word(vtop(T).v, 1))
  OBVIOUS
<1>8. Require(T, "call", p) = T
  BY QuietRequire
<1>9. NoCode(T)
  BY AboveIs
<1>10. U = vsetc(Drop(Require(T, "call", p), n + 1),
                 [InReg(v, 0) EXCEPT !.r2 = IF FALSE THEN 1 ELSE None, !.two = FALSE])
  BY <1>7, <1>9, Zenon DEF Jump
<1>11. U = vsetc(D, InReg(v, 0))
  BY <1>1, <1>8, <1>10, ResultEntry
<1>12. U = vpushv(D, InReg(v, 0))
  BY <1>6, <1>11, QuietCheck DEF vsetc
<1>13. InReg(v, 0) \in Entries
  BY InRegIs
<1>14. Quiet(Drop(T, m), Len(T.st) - m, D)
  <2>1. Quiet(D, Len(D.st), D)
    BY <1>6, QuietSelf
  <2> QED
    BY <1>1, <1>3, <1>6, <2>1
<1> QED
  BY <1>2, <1>12, <1>13, <1>14, QuietReplace

LEMMA QuietCall ==
    ASSUME NEW T, NEW n \in Nat, n <= NRegs, NEW m, m = n + 1, Above(T, m),
           NEW U, U = gfunc_call(T, n, FALSE)
    PROVE  Quiet(T, Len(T.st) - m + 1, U)
<1>1. PICK l, v : l = Len(T.st) /\ v = Fresh(T)
  OBVIOUS
<1>2. l \in Nat /\ m \in Nat /\ T.base \in Nat /\ T.base + m <= l /\ m >= 1 /\ 1 \in 0..m
      /\ n \in 0..m /\ T.base + n <= l
  BY <1>1, AboveIs
<1>3. v \in Int \X Int
  BY <1>1, <1>2, FreshIs
<1>4. PICK F, A, W, S : /\ F = (IF vtop(T).k = "cmp" THEN gv(T, Ints) ELSE T)
                        /\ A = Arguments(F, n) /\ W = vrotb(A, m) /\ S = save_regs(W, m)
  OBVIOUS
<1>5. U = Jump(S, n, FALSE, v)
  BY <1>1, <1>4, Zenon DEF gfunc_call
<1>6. Quiet(T, l, F)
  <2>1. CASE F = T
    BY <1>1, <2>1, QuietSelf
  <2>2. CASE F = gv(T, Ints)
    <3>1. Class(Ints) /\ Above(T, 1)
      BY <1>2, AboveLess DEF Class
    <3> QED
      BY <1>1, <2>2, <3>1, QuietGv
  <2> QED
    BY <1>4, <2>1, <2>2
<1>7. Above(F, n) /\ Len(F.st) = l
  BY <1>2, <1>6, QuietAbove DEF Quiet
<1>8. Quiet(T, l, A)
  <2>1. Quiet(F, Len(F.st), A)
    BY <1>4, <1>7, QuietArguments
  <2>2. Quiet(F, l, A)
    BY <1>7, <2>1
  <2> QED
    BY <1>6, <2>2, QuietThen
<1>9. Above(A, m) /\ Len(A.st) = l
  BY <1>2, <1>8, QuietAbove DEF Quiet
<1>10. Quiet(T, l, W)
  <2>1. Quiet(A, Len(A.st), W)
    BY <1>2, <1>4, <1>9, QuietRotate
  <2>2. Quiet(A, l, W)
    BY <1>9, <2>1
  <2> QED
    BY <1>8, <2>2, QuietThen
<1>11. Above(W, m) /\ Len(W.st) = l
  BY <1>2, <1>10, QuietAbove DEF Quiet
<1>12. S = W
  BY <1>4, <1>11, QuietSaveRegs
<1>13. Quiet(W, Len(W.st) - m + 1, U)
  BY <1>3, <1>5, <1>11, <1>12, QuietJump
<1>14. PICK y : y = l - m + 1
  OBVIOUS
<1>15. Quiet(W, y, U)
  BY <1>11, <1>13, <1>14
<1>16. Quiet(T, y, U)
  BY <1>10, <1>15, QuietThen
<1> QED
  BY <1>1, <1>14, <1>16

LEMMA QuietPushNew ==
    ASSUME NEW T, NEW n, Above(T, n), NEW e \in Entries, NEW U, U = vsetc(T, e)
    PROVE  Quiet(T, Len(T.st) + 1, U)
<1>1. U = vpushv(T, e)
  BY QuietCheck DEF vsetc
<1> QED
  BY <1>1, QuietPush

LEMMA QuietDeref ==
    ASSUME NEW T, Above(T, 1), NEW P, P = IF vtop(T).k = "reg" THEN T ELSE gv(T, Ints),
           NEW U, U = SetTop(P, PlaceOf(vtop(P)))
    PROVE  Quiet(T, Len(T.st), U)
<1>1. PICK l : l = Len(T.st)
  OBVIOUS
<1>2. l \in Nat /\ T.base \in Nat /\ T.base + 1 <= l /\ l >= 1
  BY <1>1, AboveIs
<1>3. Quiet(T, l, P)
  <2>1. CASE P = T
    BY <1>1, <2>1, QuietSelf
  <2>2. CASE P = gv(T, Ints)
    <3>1. Class(Ints)
      BY DEF Class
    <3> QED
      BY <1>1, <2>2, <3>1, QuietGv
  <2> QED
    BY <2>1, <2>2
<1>4. Above(P, 1) /\ Len(P.st) = l
  BY <1>2, <1>3, QuietAbove DEF Quiet
<1>5. vtop(P) \in Entries
  BY <1>2, <1>4, QuietTop
<1>6. PlaceOf(vtop(P)) \in Entries
  BY <1>5, PlaceIs
<1>7. Quiet(P, Len(P.st), U)
  BY <1>4, <1>6, QuietSetTop
<1>8. Quiet(P, l, U)
  BY <1>4, <1>7
<1> QED
  BY <1>1, <1>3, <1>8, QuietThen

LEMMA QuietInc ==
    ASSUME NEW T, Above(T, 1), NEW post \in BOOLEAN,
           NEW D, D = vpushv(T, vtop(T)),
           NEW P, P = IF post THEN vrotb(vrotb(gv_dup(D), 3), 3) ELSE D,
           NEW v \in Int \X Int,
           NEW U, U = EndInc(vstore(gen_op(vsetc(P, Const(v)), "add")), post)
    PROVE  \E l \in Nat : Quiet(T, l, U)
<1>1. PICK l : l = Len(T.st)
  OBVIOUS
<1>2. l \in Nat /\ T.base \in Nat /\ T.base + 1 <= l /\ l >= 1
  BY <1>1, AboveIs
<1>3. PICK a, b : a = l + 1 /\ b = l + 2
  OBVIOUS
<1>4. /\ a \in Nat /\ b \in Nat /\ T.base + 2 <= a /\ T.base + 1 <= a /\ T.base + 3 <= b
      /\ a + 1 = b /\ T.base + 0 <= b
  BY <1>2, <1>3
<1>5. vtop(T) \in Entries
  BY <1>1, <1>2, QuietTop
<1>6. Quiet(T, a, D)
  BY <1>1, <1>3, <1>5, QuietPush
<1>7. Above(D, 1) /\ Len(D.st) = a
  BY <1>4, <1>6, QuietAbove DEF Quiet
<1>8. PICK z : z = IF post THEN b ELSE a
  OBVIOUS
<1>9. Quiet(T, z, P)
  <2>1. CASE post
    <3>1. PICK G, A : G = gv_dup(D) /\ A = vrotb(G, 3)
      OBVIOUS
    <3>2. P = vrotb(A, 3)
      BY <2>1, <3>1
    <3>3. Quiet(D, Len(D.st) + 1, G)
      BY <1>7, <3>1, QuietGvDup
    <3>4. Quiet(T, b, G)
      <4>1. Quiet(D, b, G)
        BY <1>4, <1>7, <3>3
      <4> QED
        BY <1>6, <4>1, QuietThen
    <3>5. Above(G, 3) /\ Len(G.st) = b
      BY <1>4, <3>4, QuietAbove DEF Quiet
    <3>6. Quiet(T, b, A)
      <4>1. Quiet(G, Len(G.st), A)
        BY <3>1, <3>5, QuietRotate
      <4>2. Quiet(G, b, A)
        BY <3>5, <4>1
      <4> QED
        BY <3>4, <4>2, QuietThen
    <3>7. Above(A, 3) /\ Len(A.st) = b
      BY <1>4, <3>6, QuietAbove DEF Quiet
    <3>8. Quiet(T, b, P)
      <4>1. Quiet(A, Len(A.st), P)
        BY <3>2, <3>7, QuietRotate
      <4>2. Quiet(A, b, P)
        BY <3>7, <4>1
      <4> QED
        BY <3>6, <4>2, QuietThen
    <3> QED
      BY <1>8, <2>1, <3>8
  <2>2. CASE ~post
    BY <1>6, <1>8, <2>2
  <2> QED
    BY <2>1, <2>2
<1>10. /\ z \in Nat /\ T.base + 2 <= z /\ z + 1 \in Nat /\ T.base + 2 <= z + 1
       /\ z + 1 - 1 = z /\ z - 1 \in Nat /\ T.base + 1 <= z - 1
  BY <1>2, <1>3, <1>8
<1>11. Above(P, 2) /\ Len(P.st) = z
  BY <1>9, <1>10, QuietAbove DEF Quiet
<1>12. PICK C, G, S, y, x : /\ C = vsetc(P, Const(v)) /\ G = gen_op(C, "add") /\ S = vstore(G)
                            /\ y = z + 1 /\ x = z - 1
  OBVIOUS
<1>13. Quiet(T, y, C)
  <2>1. Const(v) \in Entries
    BY ConstIs
  <2>2. Quiet(P, Len(P.st) + 1, C)
    BY <1>11, <1>12, <2>1, QuietPushNew
  <2>3. Quiet(P, y, C)
    BY <1>11, <1>12, <2>2
  <2> QED
    BY <1>9, <2>3, QuietThen
<1>14. Above(C, 2) /\ Len(C.st) = y
  BY <1>10, <1>12, <1>13, QuietAbove DEF Quiet
<1>15. Quiet(T, z, G)
  <2>1. "add" \in Ops
    BY DEF Ops
  <2>2. Quiet(C, Len(C.st) - 1, G)
    BY <1>12, <1>14, <2>1, QuietGenOp
  <2>3. Quiet(C, z, G)
    BY <1>10, <1>12, <1>14, <2>2
  <2> QED
    BY <1>13, <2>3, QuietThen
<1>16. Above(G, 2) /\ Len(G.st) = z
  BY <1>10, <1>15, QuietAbove DEF Quiet
<1>17. Quiet(T, x, S)
  <2>1. Quiet(G, Len(G.st) - 1, S)
    BY <1>12, <1>16, QuietStore
  <2>2. Quiet(G, x, S)
    BY <1>12, <1>16, <2>1
  <2> QED
    BY <1>15, <2>2, QuietThen
<1>18. Above(S, 1) /\ Len(S.st) = x /\ x \in Nat /\ x - 1 \in Nat
  <2>1. x \in Nat /\ x - 1 \in Nat /\ 1 \in Nat /\ T.base + 1 <= x
    BY <1>2, <1>10, <1>12
  <2>2. Above(S, 1)
    BY <1>17, <2>1, QuietAbove
  <2> QED
    BY <1>17, <2>1, <2>2 DEF Quiet
<1>19. CASE post
  <2>1. U = Drop(S, 1)
    BY <1>12, <1>19 DEF EndInc
  <2>2. Quiet(S, Len(S.st) - 1, U)
    BY <1>18, <2>1, QuietDrop
  <2>3. PICK w : w = x - 1
    OBVIOUS
  <2>4. Quiet(S, w, U)
    BY <1>18, <2>2, <2>3
  <2>5. Quiet(T, w, U)
    BY <1>17, <2>4, QuietThen
  <2> QED
    BY <1>18, <2>3, <2>5
<1>20. CASE ~post
  <2>1. U = S
    BY <1>12, <1>20 DEF EndInc
  <2> QED
    BY <1>17, <1>18, <2>1
<1> QED
  BY <1>19, <1>20

-----------------------------------------------------------------------------
(* What an operation leaves: Become renames the values *)

NameOf(ids, id) ==
    IF id <= 0 THEN id
    ELSE IF id \in ToSet(ids) THEN Min({i \in DOMAIN ids : ids[i] = id}) ELSE 0
WordOf(ids, w) ==
    IF NameOf(ids, w[1]) = 0 THEN Junk ELSE <<NameOf(ids, w[1]), w[2], w[3]>>
EntryOf(ids, e) ==
    [e EXCEPT !.v = <<NameOf(ids, e.v[1]), e.v[2]>>,
              !.of = [i \in DOMAIN e.of |-> WordOf(ids, e.of[i])]]
UsedIn(T, r) ==
    \E i \in DOMAIN T.st : Uses(T.st[i], r) \/ (T.st[i].k = "cmp" /\ r \in ToSet(T.st[i].c))
HeldIn(T, c) ==
    \E i \in DOMAIN T.st : T.st[i].k \in {"local", "llocal"} /\ T.st[i].c[1] = c[1]

Became(T) ==
    [st |-> [i \in DOMAIN T.st |-> EntryOf(Ids(T), T.st[i])],
     reg |-> [r \in Ints |-> IF UsedIn(T, r) THEN WordOf(Ids(T), T.reg[r]) ELSE Junk],
     mem |-> [c \in {d \in DOMAIN T.mem : HeldIn(T, d)} |-> WordOf(Ids(T), T.mem[c])],
     temps |-> T.temps, loc |-> T.loc, base |-> T.base, bad |-> T.bad,
     var |-> None, got |-> None]

LEMMA BecomeIs ==
    ASSUME NEW T, Become(T)
    PROVE  Now' = Became(T)
<1>1. vstack' = [i \in DOMAIN T.st |-> EntryOf(Ids(T), T.st[i])]
  BY DEF Become, EntryOf, WordOf, NameOf
<1>2. reg' = [r \in Ints |-> IF UsedIn(T, r) THEN WordOf(Ids(T), T.reg[r]) ELSE Junk]
  BY DEF Become, UsedIn, WordOf, NameOf
<1>3. mem' = [c \in {d \in DOMAIN T.mem : HeldIn(T, d)} |-> WordOf(Ids(T), T.mem[c])]
  BY DEF Become, HeldIn, WordOf, NameOf
<1>4. temps' = T.temps /\ loc' = T.loc /\ base' = T.base /\ bad' = T.bad
  BY DEF Become
<1> QED
  BY <1>1, <1>2, <1>3, <1>4 DEF Now, Became

LEMMA NameIs ==
    ASSUME NEW n \in Nat, NEW ids, DOMAIN ids = 1..n, NEW id \in Int
    PROVE  /\ NameOf(ids, id) \in Int
           /\ id < 0 => NameOf(ids, id) = id
           /\ \A p \in 1..n : ids[p] = id /\ id # 0 => NameOf(ids, id) # 0
<1>1. CASE id <= 0
  <2>1. NameOf(ids, id) = id
    BY <1>1 DEF NameOf
  <2> QED
    BY <2>1
<1>2. CASE id > 0 /\ id \notin ToSet(ids)
  <2>1. NameOf(ids, id) = 0
    BY <1>2 DEF NameOf
  <2>2. \A p \in 1..n : ids[p] # id
    BY <1>2 DEF ToSet
  <2> QED
    BY <1>2, <2>1, <2>2
<1>3. CASE id > 0 /\ id \in ToSet(ids)
  <2>1. PICK S : S = {i \in DOMAIN ids : ids[i] = id}
    OBVIOUS
  <2>2. S \subseteq Nat /\ S # {} /\ S \subseteq 1..n
    BY <1>3, <2>1 DEF ToSet
  <2>3. Min(S) \in S
    BY <2>2, MinIs
  <2>4. NameOf(ids, id) = Min(S)
    BY <1>3, <2>1 DEF NameOf
  <2>5. Min(S) \in 1..n
    BY <2>2, <2>3
  <2> QED
    BY <1>3, <2>4, <2>5
<1> QED
  BY <1>1, <1>2, <1>3

\* An entry's own name is not forgotten.
LEMMA OwnName ==
    ASSUME NEW T, State(T), NEW i \in 1..Len(T.st), T.st[i].v[1] # 0
    PROVE  /\ Len(T.st) \in Nat /\ DOMAIN Ids(T) = 1..3 * Len(T.st)
           /\ NameOf(Ids(T), T.st[i].v[1]) # 0
<1>1. T.st \in Seq(Entries) /\ Len(T.st) \in Nat
  BY DEF State
<1>2. PICK l, e, id, p : l = Len(T.st) /\ e = T.st[i] /\ id = e.v[1] /\ p = 3 * i - 2
  OBVIOUS
<1>3. e \in Entries
  BY <1>1, <1>2
<1>4. id \in Int /\ id # 0
  BY <1>2, <1>3, EntryIs
<1>5. p \in 1..3 * l /\ (p + 2) \div 3 = i /\ (p + 2) % 3 = 0 /\ 3 * l \in Nat /\ l \in Nat
  BY <1>1, <1>2
<1>6. DOMAIN Ids(T) = 1..3 * l
  BY <1>2 DEF Ids
<1>7. Ids(T)[p] = IdAt(T.st[(p + 2) \div 3], (p + 2) % 3)
  BY <1>2, <1>5 DEF Ids
<1>8. Ids(T)[p] = id
  <2>1. Ids(T)[p] = IdAt(e, 0)
    BY <1>2, <1>5, <1>7
  <2> QED
    BY <1>2, <2>1 DEF IdAt
<1>9. PICK m, ids : m = 3 * l /\ ids = Ids(T)
  OBVIOUS
<1>10. m \in Nat /\ DOMAIN ids = 1..m /\ p \in 1..m /\ ids[p] = id
  BY <1>5, <1>6, <1>8, <1>9
<1>11. NameOf(ids, id) # 0
  BY <1>4, <1>10, NameIs
<1> QED
  BY <1>2, <1>5, <1>6, <1>9, <1>11

LEMMA EntryOfIs ==
    ASSUME NEW n \in Nat, NEW ids, DOMAIN ids = 1..n, NEW e \in Entries,
           NEW f, f = EntryOf(ids, e)
    PROVE  /\ f \in Entries /\ f.k = e.k /\ f.r = e.r /\ f.c = e.c
           /\ f.v = <<NameOf(ids, e.v[1]), e.v[2]>>
           /\ DOMAIN f.of = DOMAIN e.of
           /\ \A i \in DOMAIN e.of : f.of[i] = WordOf(ids, e.of[i])
<1>1. PICK y, z : /\ y = <<NameOf(ids, e.v[1]), e.v[2]>>
                  /\ z = [i \in DOMAIN e.of |-> WordOf(ids, e.of[i])]
  OBVIOUS
<1>2. e.v \in Int \X Int /\ e.of \in Seq(Words3)
  BY EntryIs
<1>3. y \in Int \X Int
  BY <1>1, <1>2, NameIs
<1>4. \A w \in Words3 : WordOf(ids, w) \in Words3
  <2>1. SUFFICES ASSUME NEW w \in Words3 PROVE WordOf(ids, w) \in Words3
    OBVIOUS
  <2>2. w[1] \in Int /\ w[2] \in Int /\ w[3] \in Int
    BY DEF Words3
  <2>3. NameOf(ids, w[1]) \in Int
    BY <2>2, NameIs
  <2> QED
    BY <2>2, <2>3 DEF WordOf, Words3, Junk
<1>5. z \in Seq(Words3)
  <2>1. PICK s : s = e.of
    OBVIOUS
  <2>2. s \in Seq(Words3) /\ DOMAIN s = 1..Len(s) /\ Len(s) \in Nat
    BY <1>2, <2>1
  <2>3. z = [i \in 1..Len(s) |-> WordOf(ids, s[i])]
    BY <1>1, <2>1, <2>2
  <2>4. \A i \in 1..Len(s) : WordOf(ids, s[i]) \in Words3
    BY <1>4, <2>2
  <2> QED
    BY <2>2, <2>3, <2>4
<1>6. PICK g : g = [e EXCEPT !.v = y]
  OBVIOUS
<1>7. g \in Entries /\ g.k = e.k /\ g.r = e.r /\ g.c = e.c /\ g.v = y
  BY <1>3, <1>6, WithV
<1>8. PICK h : h = [g EXCEPT !.of = z]
  OBVIOUS
<1>9. h \in Entries /\ h.k = e.k /\ h.r = e.r /\ h.c = e.c /\ h.v = y /\ h.of = z
  BY <1>5, <1>7, <1>8, WithOf
<1>10. h = f
  BY <1>1, <1>6, <1>8 DEF EntryOf
<1> QED
  BY <1>1, <1>9, <1>10

\* The first word of v becomes that of y, as a word or behind a pointer.
Kept(ids, v, y) ==
    /\ WordOf(ids, Word(v, 1)) = Word(y, 1)
    /\ \A p : At(p) = Word(v, 1) => At(WordOf(ids, p)) = Word(y, 1)

LEMMA WordKept ==
    ASSUME NEW ids, NEW v \in Int \X Int, NEW y, y = <<NameOf(ids, v[1]), v[2]>>,
           NameOf(ids, v[1]) # 0
    PROVE  Kept(ids, v, y)
<1>1. WordOf(ids, Word(v, 1)) = Word(y, 1)
  BY DEF WordOf, Word
<1>2. ASSUME NEW p, At(p) = Word(v, 1) PROVE At(WordOf(ids, p)) = Word(y, 1)
  <2>1. p[3] = 1
    <3>1. CASE p[3] = 3
      <4>1. At(p) = <<p[1], p[2] + 1, 2>>
        BY <3>1 DEF At
      <4> QED
        BY <1>2, <4>1 DEF Word
    <3>2. CASE p[3] # 1 /\ p[3] # 3
      <4>1. At(p) = Junk
        BY <3>2 DEF At
      <4> QED
        BY <1>2, <4>1 DEF Word, Junk
    <3> QED
      BY <3>1, <3>2
  <2>2. p # Junk
    BY <2>1 DEF Junk
  <2>3. At(p) = <<p[1], p[2] + 1, 1>>
    BY <2>1, <2>2 DEF At
  <2>4. p[1] = v[1] /\ p[2] + 1 = v[2]
    BY <1>2, <2>3 DEF Word
  <2>5. PICK q : q = WordOf(ids, p)
    OBVIOUS
  <2>6. q = <<NameOf(ids, v[1]), p[2], 1>>
    BY <2>1, <2>4, <2>5 DEF WordOf
  <2>7. q[3] = 1 /\ q[1] = NameOf(ids, v[1]) /\ q[2] = p[2]
    BY <2>6
  <2>8. q # Junk
    BY <2>7 DEF Junk
  <2>9. At(q) = <<q[1], q[2] + 1, 1>>
    BY <2>7, <2>8 DEF At
  <2> QED
    BY <2>4, <2>5, <2>7, <2>9 DEF Word
<1> QED
  BY <1>1, <1>2 DEF Kept

\* B is T with its values named anew.
Renamed(T, B) ==
    /\ DOMAIN B = Fields
    /\ B.st = [i \in DOMAIN T.st |-> EntryOf(Ids(T), T.st[i])]
    /\ DOMAIN B.reg = Ints
    /\ \A r \in Ints : UsedIn(T, r) => B.reg[r] = WordOf(Ids(T), T.reg[r])
    /\ \A c \in DOMAIN T.mem :
          HeldIn(T, c) => c \in DOMAIN B.mem /\ B.mem[c] = WordOf(Ids(T), T.mem[c])
    /\ B.temps = T.temps /\ B.loc = T.loc /\ B.base = T.base /\ B.bad = T.bad

LEMMA BecameIs ==
    ASSUME NEW T, NEW B, B = Became(T)
    PROVE  Renamed(T, B)
<1>1. /\ DOMAIN B = Fields
      /\ B.st = [i \in DOMAIN T.st |-> EntryOf(Ids(T), T.st[i])]
      /\ B.reg = [r \in Ints |-> IF UsedIn(T, r) THEN WordOf(Ids(T), T.reg[r]) ELSE Junk]
      /\ B.mem = [c \in {d \in DOMAIN T.mem : HeldIn(T, d)} |-> WordOf(Ids(T), T.mem[c])]
      /\ B.temps = T.temps /\ B.loc = T.loc /\ B.base = T.base /\ B.bad = T.bad
  BY DEF Became, Fields
<1>2. /\ DOMAIN B.reg = Ints
      /\ \A r \in Ints : UsedIn(T, r) => B.reg[r] = WordOf(Ids(T), T.reg[r])
  BY <1>1
<1>3. \A c \in DOMAIN T.mem :
         HeldIn(T, c) => c \in DOMAIN B.mem /\ B.mem[c] = WordOf(Ids(T), T.mem[c])
  BY <1>1
<1> QED
  BY <1>1, <1>2, <1>3 DEF Renamed

\* What an entry says of the registers and the memory is as true of the names.
LEMMA BecameSound ==
    ASSUME NEW T, State(T), NEW i \in 1..Len(T.st), NEW e, e = T.st[i], Sound(T, e),
           NEW B, Renamed(T, B), NEW f, f = EntryOf(Ids(T), e)
    PROVE  f \in Entries /\ Sound(B, f)
<1>1. PICK ids, n : ids = Ids(T) /\ n = 3 * Len(T.st)
  OBVIOUS
<1>2. T.st \in Seq(Entries) /\ Len(T.st) \in Nat /\ DOMAIN T.st = 1..Len(T.st)
  BY DEF State
<1>3. e \in Entries
  BY <1>2
<1>4. e.v[1] # 0 /\ First(T, e) = Word(e.v, 1)
  BY DEF Sound, Held
<1>5. /\ n \in Nat /\ DOMAIN ids = 1..n /\ NameOf(ids, e.v[1]) # 0
  BY <1>1, <1>2, <1>4, OwnName
<1>6. /\ f \in Entries /\ f.k = e.k /\ f.r = e.r /\ f.c = e.c
      /\ f.v = <<NameOf(ids, e.v[1]), e.v[2]>>
      /\ DOMAIN f.of = DOMAIN e.of
      /\ \A j \in DOMAIN e.of : f.of[j] = WordOf(ids, e.of[j])
  BY <1>1, <1>3, <1>5, EntryOfIs
<1>7. PICK v, y : v = e.v /\ y = f.v
  OBVIOUS
<1>8. v \in Int \X Int /\ e.k \in Kinds /\ e.r \in Int /\ e.c \in Int \X Int
  BY <1>3, <1>7, EntryIs
<1>9. /\ WordOf(ids, Word(v, 1)) = Word(y, 1)
      /\ \A p : At(p) = Word(v, 1) => At(WordOf(ids, p)) = Word(y, 1)
  <2>1. v \in Int \X Int /\ y = <<NameOf(ids, v[1]), v[2]>> /\ NameOf(ids, v[1]) # 0
    BY <1>5, <1>6, <1>7, <1>8
  <2>2. Kept(ids, v, y)
    BY <2>1, WordKept
  <2> QED
    BY <2>2, Zenon DEF Kept
<1>10. v[1] < 0 => y = v
  <2>1. v[1] \in Int
    BY <1>8
  <2>2. v[1] < 0 => NameOf(ids, v[1]) = v[1]
    BY <1>5, <2>1, NameIs
  <2>3. y = <<NameOf(ids, v[1]), v[2]>>
    BY <1>6, <1>7
  <2> QED
    BY <1>8, <2>2, <2>3
<1>11. y[1] # 0
  <2>1. y = <<NameOf(ids, v[1]), v[2]>> /\ NameOf(ids, v[1]) # 0
    BY <1>5, <1>6, <1>7
  <2> QED
    BY <2>1
<1>12. /\ \A q \in Ints : UsedIn(T, q) => B.reg[q] = WordOf(ids, T.reg[q])
       /\ \A c \in DOMAIN T.mem :
             HeldIn(T, c) => c \in DOMAIN B.mem /\ B.mem[c] = WordOf(ids, T.mem[c])
       /\ B.loc = T.loc
  BY <1>1 DEF Renamed
<1>13. ASSUME e.k \in {"reg", "at"} PROVE B.reg[e.r] = WordOf(ids, T.reg[e.r])
  <2>1. e.r \in Ints
    BY <1>13 DEF Sound
  <2>2. Uses(T.st[i], e.r)
    BY <1>13 DEF Uses
  <2>3. UsedIn(T, e.r)
    BY <1>2, <2>2 DEF UsedIn
  <2> QED
    BY <1>12, <2>1, <2>3
<1>14. ASSUME e.k \in {"local", "llocal"}, e.c[1] >= 0, e.c \in DOMAIN T.mem
       PROVE  Content(B, e.c) = WordOf(ids, Content(T, e.c))
  <2>1. HeldIn(T, e.c)
    BY <1>2, <1>14 DEF HeldIn
  <2>2. e.c \in DOMAIN B.mem /\ B.mem[e.c] = WordOf(ids, T.mem[e.c])
    BY <1>12, <1>14, <2>1
  <2>3. ~(e.c[1] < 0)
    BY <1>8, <1>14
  <2> QED
    BY <1>14, <2>2, <2>3 DEF Content
<1>15. e.c[1] < 0 => Content(B, e.c) = <<e.c[1], 0, e.c[2] + 1>>
                     /\ Content(T, e.c) = <<e.c[1], 0, e.c[2] + 1>>
  BY DEF Content
<1>16. ASSUME e.c[1] >= 0, e.c \notin DOMAIN T.mem PROVE Content(T, e.c) = Junk
  <2>1. ~(e.c[1] < 0)
    BY <1>8, <1>16
  <2> QED
    BY <1>16, <2>1 DEF Content
<1>17. First(B, f) = Word(y, 1)
  <2>1. CASE e.k = "const"
    BY <1>6, <1>7, <2>1, FirstIs
  <2>2. CASE e.k = "reg"
    <3>1. T.reg[e.r] = Word(v, 1) /\ First(B, f) = B.reg[e.r]
      BY <1>4, <1>6, <1>7, <2>2, FirstIs
    <3> QED
      BY <1>9, <1>13, <2>2, <3>1
  <2>3. CASE e.k = "at"
    <3>1. At(T.reg[e.r]) = Word(v, 1) /\ First(B, f) = At(B.reg[e.r])
      BY <1>4, <1>6, <1>7, <2>3, FirstIs
    <3> QED
      BY <1>9, <1>13, <2>3, <3>1
  <2>4. CASE e.k = "local"
    <3>1. Content(T, e.c) = Word(v, 1) /\ First(B, f) = Content(B, e.c)
      BY <1>4, <1>6, <1>7, <2>4, FirstIs
    <3>2. CASE e.c[1] < 0
      <4>1. Content(T, e.c) = Word(v, 1) /\ v[1] = e.c[1] /\ Content(B, e.c) = Content(T, e.c)
        BY <1>15, <3>1, <3>2 DEF Word
      <4> QED
        BY <1>10, <3>1, <3>2, <4>1
    <3>3. CASE e.c[1] >= 0
      <4>1. Word(v, 1) # Junk
        BY DEF Word, Junk
      <4>2. e.c \in DOMAIN T.mem
        BY <1>16, <3>1, <3>3, <4>1
      <4> QED
        BY <1>9, <1>14, <2>4, <3>1, <3>3, <4>2
    <3> QED
      BY <1>8, <3>2, <3>3
  <2>5. CASE e.k = "llocal"
    <3>1. At(Content(T, e.c)) = Word(v, 1) /\ First(B, f) = At(Content(B, e.c))
      BY <1>4, <1>6, <1>7, <2>5, FirstIs
    <3>2. CASE e.c[1] < 0
      <4>1. e.c[2] = 0
        BY <2>5 DEF Sound
      <4>2. Content(T, e.c) = <<e.c[1], 0, 1>> /\ Content(B, e.c) = Content(T, e.c)
        BY <1>15, <3>2, <4>1
      <4>3. At(Content(T, e.c)) = <<e.c[1], 1, 1>>
        BY <4>2 DEF At, Junk
      <4>4. v[1] = e.c[1]
        BY <3>1, <4>3 DEF Word
      <4> QED
        BY <1>10, <3>1, <3>2, <4>2, <4>4
    <3>3. CASE e.c[1] >= 0
      <4>1. At(Junk) # Word(v, 1)
        BY DEF At, Word, Junk
      <4>2. e.c \in DOMAIN T.mem
        BY <1>16, <3>1, <3>3, <4>1
      <4> QED
        BY <1>9, <1>14, <2>5, <3>1, <3>3, <4>2
    <3> QED
      BY <1>8, <3>2, <3>3
  <2>6. CASE e.k = "cmp"
    <3>1. First(B, f) = IF \A j \in DOMAIN f.of : B.reg[f.c[j]] = f.of[j]
                        THEN Word(f.v, 1) ELSE Junk
      BY <1>6, <2>6, FirstIs, SMTT(60)
    <3>2. \A j \in DOMAIN e.of : j \in {1, 2} /\ e.c[j] \in Ints
      BY <2>6 DEF Sound
    <3>3. \A j \in DOMAIN e.of : T.reg[e.c[j]] = e.of[j]
      <4>1. First(T, e) = IF \A j \in DOMAIN e.of : T.reg[e.c[j]] = e.of[j]
                          THEN Word(e.v, 1) ELSE Junk
        BY <2>6, FirstIs
      <4>2. Word(e.v, 1) # Junk
        BY DEF Word, Junk
      <4> QED
        BY <1>4, <4>1, <4>2
    <3>4. ASSUME NEW j \in DOMAIN e.of PROVE B.reg[e.c[j]] = f.of[j]
      <4>1. j \in {1, 2} /\ e.c[j] \in Ints /\ T.reg[e.c[j]] = e.of[j]
        BY <3>2, <3>3
      <4>2. e.c[j] \in ToSet(e.c)
        BY <1>8, <4>1 DEF ToSet
      <4>3. UsedIn(T, e.c[j])
        BY <1>2, <2>6, <4>2 DEF UsedIn
      <4>4. B.reg[e.c[j]] = WordOf(ids, T.reg[e.c[j]])
        BY <1>12, <4>1, <4>3
      <4> QED
        BY <1>6, <4>1, <4>4
    <3> QED
      BY <1>6, <1>7, <3>1, <3>4
  <2> QED
    BY <1>8, <2>1, <2>2, <2>3, <2>4, <2>5, <2>6 DEF Kinds
<1>18. /\ f.k \in {"reg", "at"} => f.r \in Ints
       /\ f.k \in {"local", "llocal"} => f.c[2] = 0 /\ f.c[1] <= B.loc
       /\ f.k = "cmp" => \A j \in DOMAIN f.of : j \in {1, 2} /\ f.c[j] \in Ints
  BY <1>6, <1>12 DEF Sound
<1> QED
  BY <1>6, <1>7, <1>11, <1>17, <1>18 DEF Sound, Held

LEMMA BecameState ==
    ASSUME NEW T, State(T), NEW B, Renamed(T, B)
    PROVE  State(B) /\ Len(B.st) = Len(T.st) /\ Len(T.st) \in Nat
<1>1. PICK l, ids, n : l = Len(T.st) /\ ids = Ids(T) /\ n = 3 * l
  OBVIOUS
<1>2. T.st \in Seq(Entries) /\ l \in Nat /\ DOMAIN T.st = 1..l
  BY <1>1 DEF State
<1>3. n \in Nat /\ DOMAIN ids = 1..n
  BY <1>1, <1>2 DEF Ids
<1>4. \A i \in 1..l : EntryOf(ids, T.st[i]) \in Entries
  <2>1. SUFFICES ASSUME NEW i \in 1..l PROVE EntryOf(ids, T.st[i]) \in Entries
    OBVIOUS
  <2>2. T.st[i] \in Entries
    BY <1>2
  <2> QED
    BY <1>3, <2>2, EntryOfIs
<1>5. B.st = [i \in 1..l |-> EntryOf(ids, T.st[i])]
  BY <1>1, <1>2 DEF Renamed
<1>6. B.st \in Seq(Entries) /\ Len(B.st) = l
  BY <1>2, <1>4, <1>5
<1>7. /\ DOMAIN B = Fields /\ DOMAIN B.reg = Ints /\ B.temps = T.temps /\ B.loc = T.loc
      /\ B.base = T.base
  BY DEF Renamed
<1> QED
  BY <1>1, <1>2, <1>6, <1>7 DEF State

\* P has the first entries of T.
Part(T, P) ==
    /\ DOMAIN P = Fields /\ P.st \in Seq(Entries) /\ Len(P.st) \in 0..Len(T.st)
    /\ \A i \in 1..Len(P.st) : P.st[i] = T.st[i]
    /\ P.reg = T.reg /\ P.mem = T.mem /\ P.temps = T.temps /\ P.loc = T.loc

LEMMA BecameInv ==
    ASSUME NEW T, State(T), NEW P, Inv(P), Part(T, P), NEW B, Renamed(T, B),
           NEW Q, Part(B, Q), Len(Q.st) = Len(P.st), Q.base = None, Q.bad = {}
    PROVE  Inv(Q)
<1>1. PICK l, m, ids : l = Len(T.st) /\ m = Len(P.st) /\ ids = Ids(T)
  OBVIOUS
<1>2. State(B) /\ Len(B.st) = l /\ l \in Nat
  BY <1>1, BecameState
<1>3. /\ Q.st \in Seq(Entries) /\ DOMAIN Q = Fields /\ Len(Q.st) = m /\ m \in 0..l
      /\ \A i \in 1..m : Q.st[i] = B.st[i]
      /\ Q.reg = B.reg /\ Q.mem = B.mem /\ Q.temps = B.temps /\ Q.loc = B.loc
  BY <1>1, <1>2 DEF Part
<1>4. DOMAIN Q.st = 1..m /\ m \in Nat
  BY <1>3
<1>5. /\ P.st \in Seq(Entries) /\ \A i \in 1..m : P.st[i] = T.st[i]
      /\ P.reg = T.reg /\ P.mem = T.mem /\ P.temps = T.temps /\ P.loc = T.loc
  BY <1>1 DEF Part
<1>6. State(Q)
  BY <1>2, <1>3 DEF State, None
<1>7. TempsKnown(Q)
  <2>1. TempsKnown(P)
    BY DEF Inv
  <2>2. Q.temps = P.temps /\ Q.loc = P.loc
    BY <1>3, <1>5 DEF Renamed
  <2> QED
    BY <2>1, <2>2 DEF TempsKnown
<1>8. /\ \A i \in 1..m : P.st[i] \in Entries /\ Sound(P, P.st[i])
      /\ \A i \in 1..m : P.st[i].k = "cmp" => i = m
      /\ \A i, j \in 1..m : P.st[i].k = "reg" /\ j # i => ~Uses(P.st[j], P.st[i].r)
  BY <1>1, InvIs
<1>9. ASSUME NEW i \in 1..m
      PROVE  /\ Sound(Q, Q.st[i]) /\ Q.st[i] \in Entries
             /\ Q.st[i].k = P.st[i].k /\ Q.st[i].r = P.st[i].r
  <2>1. PICK e, f : e = T.st[i] /\ f = EntryOf(ids, e)
    OBVIOUS
  <2>2. i \in 1..l /\ e = P.st[i] /\ e \in Entries
    <3>1. i \in 1..l
      BY <1>2, <1>3
    <3>2. e = P.st[i] /\ P.st[i] \in Entries
      BY <1>5, <1>8, <2>1
    <3> QED
      BY <3>1, <3>2
  <2>3. Sound(T, e)
    <3>1. P.reg = T.reg /\ P.mem = T.mem /\ P.loc = T.loc
      BY <1>5
    <3>2. \A d : Sound(P, d) => Sound(T, d)
      BY <3>1, SameSound
    <3> QED
      BY <1>8, <2>2, <3>2
  <2>4. f \in Entries /\ Sound(B, f)
    <3>1. State(T) /\ i \in 1..Len(T.st) /\ e = T.st[i] /\ Sound(T, e) /\ f = EntryOf(Ids(T), e)
      BY <1>1, <2>1, <2>2, <2>3
    <3> QED
      BY <3>1, BecameSound
  <2>5. f.k = e.k /\ f.r = e.r
    <3>1. DOMAIN ids = 1..3 * l /\ 3 * l \in Nat
      BY <1>1, <1>2 DEF Ids
    <3>2. PICK n : n = 3 * l
      OBVIOUS
    <3>3. n \in Nat /\ DOMAIN ids = 1..n /\ e \in Entries /\ f = EntryOf(ids, e)
      BY <2>1, <2>2, <3>1, <3>2
    <3> QED
      BY <3>3, EntryOfIs
  <2>6. Q.st[i] = f
    <3>1. B.st[i] = EntryOf(ids, T.st[i])
      <4>1. DOMAIN T.st = 1..l
        BY <1>1 DEF State
      <4> QED
        BY <1>1, <2>2, <4>1 DEF Renamed
    <3> QED
      BY <1>3, <2>1, <3>1
  <2>7. Sound(Q, f)
    <3>1. \A d : Sound(B, d) => Sound(Q, d)
      BY <1>3, SameSound
    <3> QED
      BY <2>4, <3>1
  <2> QED
    BY <2>2, <2>4, <2>5, <2>6, <2>7
<1>10. \A i \in 1..m : Q.st[i].k = "cmp" => i = Len(Q.st)
  BY <1>3, <1>8, <1>9
<1>11. ASSUME NEW i \in 1..m, Q.st[i].k = "reg" PROVE Alone(Q, i)
  <2>1. SUFFICES ASSUME NEW j \in 1..m, j # i PROVE ~Uses(Q.st[j], Q.st[i].r)
    BY <1>4 DEF Alone
  <2>2. PICK q : q = Q.st[i].r
    OBVIOUS
  <2>3. q = P.st[i].r /\ P.st[i].k = "reg" /\ q \in Ints
    BY <1>8, <1>9, <1>11, <2>2 DEF Sound
  <2>4. ~Uses(P.st[j], q)
    BY <1>8, <2>1, <2>3
  <2>5. Q.st[j].k = P.st[j].k /\ Q.st[j].r = P.st[j].r /\ Q.st[j] \in Entries /\ P.st[j] \in Entries
    BY <1>8, <1>9
  <2> QED
    BY <2>2, <2>3, <2>4, <2>5, UsesIs
<1> QED
  BY <1>4, <1>6, <1>7, <1>9, <1>10, <1>11 DEF Inv

LEMMA PartSelf ==
    ASSUME NEW T, State(T)
    PROVE  Part(T, T) /\ Len(T.st) \in Nat
<1>1. T.st \in Seq(Entries) /\ Len(T.st) \in Nat /\ DOMAIN T = Fields
  BY DEF State
<1>2. Len(T.st) \in 0..Len(T.st)
  BY <1>1
<1> QED
  BY <1>1, <1>2 DEF Part

LEMMA ResumedIs ==
    ASSUME NEW T, State(T), T.base \in 0..Len(T.st), NEW P, P = Resumed(T)
    PROVE  /\ Part(T, P) /\ P.base = None /\ P.bad = T.bad /\ Len(P.st) = T.base
           /\ P.st = SubSeq(T.st, 1, T.base)
<1>1. PICK m, s : m = T.base /\ s = SubSeq(T.st, 1, m)
  OBVIOUS
<1>2. T.st \in Seq(Entries) /\ Len(T.st) \in Nat /\ m \in 0..Len(T.st) /\ DOMAIN T = Fields
  BY <1>1 DEF State
<1>3. s \in Seq(Entries) /\ Len(s) = m /\ \A i \in 1..m : s[i] = T.st[i]
  BY <1>1, <1>2, DropSeq
<1>4. P = [T EXCEPT !.st = s, !.base = None]
  BY <1>1 DEF Resumed
<1>5. /\ DOMAIN P = Fields /\ P.st = s /\ P.base = None
      /\ P.reg = T.reg /\ P.mem = T.mem /\ P.temps = T.temps
      /\ P.loc = T.loc /\ P.bad = T.bad
  BY <1>2, <1>4, Zenon DEF Fields
<1> QED
  BY <1>1, <1>2, <1>3, <1>5 DEF Part

\* The step of an operation that left R, in both modes.
LEMMA CodeDone ==
    ASSUME NEW R, Inv(R), Become(R)
    PROVE  StackInv'
<1>1. PICK B : B = Became(R)
  OBVIOUS
<1>2. Renamed(R, B)
  BY <1>1, BecameIs
<1>3. State(R)
  BY InvState
<1>4. State(B) /\ Len(B.st) = Len(R.st)
  BY <1>2, <1>3, BecameState
<1>5. Part(R, R) /\ Part(B, B)
  BY <1>3, <1>4, PartSelf
<1>6. B.base = None /\ B.bad = {}
  BY <1>2, InvIs DEF Renamed
<1>7. Inv(B)
  BY <1>2, <1>3, <1>4, <1>5, <1>6, BecameInv
<1>8. Now' = B
  BY <1>1, BecomeIs
<1> QED
  BY <1>7, <1>8 DEF StackInv

LEMMA SuspendedDone ==
    ASSUME NEW R, Suspended(R), Become(R)
    PROVE  StackInv'
<1>1. PICK B, P, Q : B = Became(R) /\ P = Resumed(R) /\ Q = Resumed(B)
  OBVIOUS
<1>2. Renamed(R, B)
  BY <1>1, BecameIs
<1>3. State(R) /\ R.base \in 0..Len(R.st) /\ Inv(P)
  BY <1>1 DEF Suspended
<1>4. State(B) /\ Len(B.st) = Len(R.st)
  BY <1>2, <1>3, BecameState
<1>5. B.base = R.base /\ B.bad = R.bad /\ B.base \in 0..Len(B.st)
  BY <1>2, <1>3, <1>4 DEF Renamed
<1>6. Part(R, P) /\ P.bad = R.bad /\ Len(P.st) = R.base
  BY <1>1, <1>3, ResumedIs
<1>7. Part(B, Q) /\ Q.base = None /\ Q.bad = B.bad /\ Len(Q.st) = B.base
  BY <1>1, <1>4, <1>5, ResumedIs
<1>8. P.bad = {}
  BY <1>3, InvIs
<1>9. Len(Q.st) = Len(P.st) /\ Q.bad = {}
  BY <1>5, <1>6, <1>7, <1>8
<1>10. Inv(Q)
  BY <1>2, <1>3, <1>6, <1>7, <1>9, BecameInv
<1>11. Suspended(B)
  BY <1>1, <1>4, <1>5, <1>10 DEF Suspended
<1>12. Now' = B
  BY <1>1, BecomeIs
<1> QED
  BY <1>11, <1>12 DEF StackInv

\* What goes on above the base is forgotten when the expression ends.
LEMMA QuietSuspended ==
    ASSUME NEW T, Suspended(T), NEW l, NEW U, Quiet(T, l, U)
    PROVE  Suspended(U)
<1>1. PICK P, Q, m : P = Resumed(T) /\ Q = Resumed(U) /\ m = T.base
  OBVIOUS
<1>2. State(T) /\ m \in 0..Len(T.st) /\ Inv(P)
  BY <1>1 DEF Suspended
<1>3. /\ State(U) /\ Len(U.st) = l /\ m \in 0..l /\ U.base = m
      /\ U.reg = T.reg /\ U.mem = T.mem /\ U.temps = T.temps /\ U.loc = T.loc
      /\ U.bad = T.bad /\ \A i \in 1..m : U.st[i] = T.st[i]
  BY <1>1 DEF Quiet
<1>4. Part(T, P) /\ P.base = None /\ P.bad = T.bad /\ Len(P.st) = m
  BY <1>1, <1>2, ResumedIs
<1>5. U.base \in 0..Len(U.st)
  BY <1>3
<1>6. Part(U, Q) /\ Q.base = None /\ Q.bad = U.bad /\ Len(Q.st) = m
  BY <1>1, <1>3, <1>5, ResumedIs
<1>7. Q.st = P.st
  <2>1. /\ P.st \in Seq(Entries) /\ Q.st \in Seq(Entries)
        /\ \A i \in 1..m : P.st[i] = T.st[i] /\ Q.st[i] = U.st[i]
    BY <1>4, <1>6 DEF Part
  <2>2. \A i \in 1..m : Q.st[i] = P.st[i]
    BY <1>3, <2>1
  <2> QED
    BY <1>4, <1>6, <2>1, <2>2
<1>8. /\ DOMAIN Q = Fields /\ Q.reg = P.reg /\ Q.mem = P.mem /\ Q.temps = P.temps
      /\ Q.loc = P.loc /\ Q.base = P.base /\ Q.bad = P.bad
  BY <1>3, <1>4, <1>6 DEF Part
<1>9. Inv(Q)
  BY <1>2, <1>7, <1>8, InvSame
<1> QED
  BY <1>1, <1>3, <1>5, <1>9 DEF Suspended

LEMMA QuietDone ==
    ASSUME NEW T, Suspended(T), NEW l, NEW R, Quiet(T, l, R), Become(R)
    PROVE  StackInv'
<1>1. Suspended(R)
  BY QuietSuspended
<1> QED
  BY <1>1, SuspendedDone

-----------------------------------------------------------------------------
(* Both modes *)

LEMMA MaxIs ==
    ASSUME NEW b \in Int
    PROVE  Max({b, 0}) = IF b >= 0 THEN b ELSE 0
<1>1. PICK m : m = IF b >= 0 THEN b ELSE 0
  OBVIOUS
<1>2. m \in {b, 0} /\ \A y \in {b, 0} : m >= y
  BY <1>1
<1>3. Max({b, 0}) = CHOOSE x \in {b, 0} : \A y \in {b, 0} : x >= y
  BY Zenon DEF Max
<1>4. PICK z : z = Max({b, 0})
  OBVIOUS
<1>5. z \in {b, 0} /\ \A y \in {b, 0} : z >= y
  BY <1>2, <1>3, <1>4
<1> QED
  BY <1>1, <1>2, <1>4, <1>5

\* The operands of a state: of the expression that is parsed.
LEMMA OperandsIs ==
    ASSUME NEW T, T = Now, StackInv
    PROVE  /\ Inv(T) => Operands = Len(T.st) /\ Len(T.st) \in Nat
           /\ Suspended(T) => /\ Operands = Len(T.st) - T.base
                              /\ T.base \in 0..Len(T.st) /\ Len(T.st) \in Nat
                              /\ State(T)
<1>1. T.st = vstack /\ T.base = base
  BY DEF Now
<1>2. CASE Inv(T)
  <2>1. T.base = -1 /\ Len(T.st) \in Nat
    BY <1>2, InvIs DEF None
  <2>2. Max({base, 0}) = 0
    BY <1>1, <2>1, MaxIs
  <2>3. Operands = Len(T.st)
    BY <1>1, <2>1, <2>2 DEF Operands
  <2>4. ~Suspended(T)
    BY <2>1 DEF Suspended
  <2> QED
    BY <2>1, <2>3, <2>4
<1>3. CASE Suspended(T)
  <2>1. State(T) /\ T.base \in 0..Len(T.st) /\ Len(T.st) \in Nat
    BY <1>3 DEF Suspended, State
  <2>2. Max({base, 0}) = T.base
    BY <1>1, <2>1, MaxIs
  <2>3. Operands = Len(T.st) - T.base
    BY <1>1, <2>2 DEF Operands
  <2>4. ~Inv(T)
    BY <2>1 DEF Inv, None
  <2> QED
    BY <2>1, <2>3, <2>4
<1> QED
  BY <1>2, <1>3 DEF StackInv

LEMMA EnoughIs ==
    ASSUME NEW T, T = Now, StackInv, NEW n \in Nat, Operands >= n
    PROVE  /\ Inv(T) => Len(T.st) >= n /\ Len(T.st) \in Nat
           /\ Suspended(T) => Above(T, n)
           /\ Inv(T) \/ Suspended(T)
<1>1. Inv(T) => Operands = Len(T.st) /\ Len(T.st) \in Nat
  BY OperandsIs
<1>2. Suspended(T) => /\ Operands = Len(T.st) - T.base
                      /\ T.base \in 0..Len(T.st) /\ Len(T.st) \in Nat
                      /\ State(T)
  BY OperandsIs
<1>3. Suspended(T) => Above(T, n)
  BY <1>2 DEF Above
<1> QED
  BY <1>1, <1>3 DEF StackInv

LEMMA StartIs ==
    ASSUME NEW T, T = Now, StackInv
    PROVE  /\ Inv(T) \/ Suspended(T)
           /\ Inv(T) => Len(T.st) \in Nat
           /\ Suspended(T) => Above(T, 0) /\ Len(T.st) \in Nat
<1>1. Suspended(T) => T.base \in 0..Len(T.st) /\ Len(T.st) \in Nat /\ State(T)
  BY OperandsIs
<1>2. Suspended(T) => Above(T, 0)
  BY <1>1 DEF Above
<1> QED
  BY <1>1, <1>2, OperandsIs DEF StackInv

-----------------------------------------------------------------------------
(* The steps *)

LEMMA PushConstStep ==
    ASSUME StackInv, PushConst
    PROVE  StackInv'
<1>1. PICK T, v, U : T = Now /\ v = Fresh(T) /\ U = vsetc(T, Const(v))
  OBVIOUS
<1>2. Become(U)
  BY <1>1 DEF PushConst
<1>3. CASE Inv(T)
  <2>1. Len(T.st) \in Nat
    BY <1>3, InvIs
  <2>2. v \in Int \X Int /\ v[1] # 0
    BY <1>1, <2>1, FreshIs
  <2>3. Inv(U)
    BY <1>1, <1>3, <2>2, PushNewIs
  <2> QED
    BY <1>2, <2>3, CodeDone
<1>4. CASE Suspended(T)
  <2>1. Above(T, 0) /\ Len(T.st) \in Nat
    BY <1>1, <1>4, StartIs
  <2>2. v \in Int \X Int
    BY <1>1, <2>1, FreshIs
  <2>3. Const(v) \in Entries
    BY <2>2, ConstIs
  <2>4. Quiet(T, Len(T.st) + 1, U)
    BY <1>1, <2>1, <2>3, QuietPushNew
  <2> QED
    BY <1>2, <1>4, <2>4, QuietDone
<1> QED
  BY <1>1, <1>3, <1>4 DEF StackInv

LEMMA PushVarStep ==
    ASSUME StackInv, PushVar(FALSE)
    PROVE  StackInv'
<1>1. PICK T, v, b, e, U : /\ T = Now /\ v = <<-1, 0>> /\ b = -1
                           /\ e = Local(v, b, FALSE) /\ U = vsetc(T, e)
  OBVIOUS
<1>2. Become(U)
  BY <1>1 DEF PushVar
<1>3. CASE Inv(T)
  <2>1. U = vsetc(T, Local(<<-1, 0>>, -1, FALSE))
    BY <1>1
  <2>2. Inv(U)
    BY <1>3, <2>1, PushVarIs
  <2> QED
    BY <1>2, <2>2, CodeDone
<1>4. CASE Suspended(T)
  <2>1. Above(T, 0)
    BY <1>1, <1>4, StartIs
  <2>2. v \in Int \X Int /\ b \in Int
    BY <1>1
  <2>3. e \in Entries
    BY <1>1, <2>2, LocalIs
  <2>4. Quiet(T, Len(T.st) + 1, U)
    BY <1>1, <2>1, <2>3, QuietPushNew
  <2> QED
    BY <1>2, <1>4, <2>4, QuietDone
<1> QED
  BY <1>1, <1>3, <1>4 DEF StackInv

LEMMA DerefStep ==
    ASSUME StackInv, Deref(FALSE)
    PROVE  StackInv'
<1>1. PICK T, P, U : /\ T = Now /\ P = (IF vtop(T).k = "reg" THEN T ELSE gv(T, Ints))
                     /\ U = SetTop(P, PlaceOf(vtop(P)))
  OBVIOUS
<1>2. Become(U)
  BY <1>1, Zenon DEF Deref, PlaceOf
<1>3. Operands >= 1 /\ vtop(T).k # "cmp" /\ 1 \in Nat
  BY <1>1 DEF Deref
<1>4. CASE Inv(T)
  <2>1. Len(T.st) >= 1
    BY <1>1, <1>3, <1>4, EnoughIs
  <2>2. Inv(U)
    BY <1>1, <1>3, <1>4, <2>1, DerefIs
  <2> QED
    BY <1>2, <2>2, CodeDone
<1>5. CASE Suspended(T)
  <2>1. Above(T, 1)
    BY <1>1, <1>3, <1>5, EnoughIs
  <2>2. Quiet(T, Len(T.st), U)
    BY <1>1, <2>1, QuietDeref
  <2> QED
    BY <1>2, <1>5, <2>2, QuietDone
<1> QED
  BY <1>1, <1>4, <1>5 DEF StackInv

LEMMA BinaryStep ==
    ASSUME StackInv, NEW op \in Ops, Binary(op)
    PROVE  StackInv'
<1>1. PICK T, U : T = Now /\ U = gen_op(T, op)
  OBVIOUS
<1>2. Become(U) /\ Operands >= 2 /\ 2 \in Nat
  BY <1>1 DEF Binary
<1>3. CASE Inv(T)
  <2>1. Len(T.st) >= 2
    BY <1>1, <1>2, <1>3, EnoughIs
  <2>2. Inv(U)
    BY <1>1, <1>3, <2>1, GenOpIs DEF Result
  <2> QED
    BY <1>2, <2>2, CodeDone
<1>4. CASE Suspended(T)
  <2>1. Above(T, 2)
    BY <1>1, <1>2, <1>4, EnoughIs
  <2>2. Quiet(T, Len(T.st) - 1, U)
    BY <1>1, <2>1, QuietGenOp
  <2> QED
    BY <1>2, <1>4, <2>2, QuietDone
<1> QED
  BY <1>1, <1>3, <1>4 DEF StackInv

LEMMA CallStep ==
    ASSUME StackInv, NEW n \in 0..NRegs, Call(n, FALSE)
    PROVE  StackInv'
<1>1. PICK T, m, U : T = Now /\ m = n + 1 /\ U = gfunc_call(T, n, FALSE)
  OBVIOUS
<1>2. Become(U) /\ Operands >= m
  BY <1>1 DEF Call
<1>3. n \in Nat /\ n <= NRegs /\ m \in Nat
  BY <1>1, RegAssumption
<1>4. CASE Inv(T)
  <2>1. Len(T.st) >= m /\ Len(T.st) \in Nat
    BY <1>1, <1>2, <1>3, <1>4, EnoughIs
  <2>2. n + 1 <= Len(T.st)
    BY <1>1, <1>3, <2>1
  <2>3. Inv(U)
    BY <1>1, <1>4, <2>2, CallIs
  <2> QED
    BY <1>2, <2>3, CodeDone
<1>5. CASE Suspended(T)
  <2>1. Above(T, m)
    BY <1>1, <1>2, <1>3, <1>5, EnoughIs
  <2>2. Quiet(T, Len(T.st) - m + 1, U)
    BY <1>1, <1>3, <2>1, QuietCall
  <2> QED
    BY <1>2, <1>5, <2>2, QuietDone
<1> QED
  BY <1>1, <1>4, <1>5 DEF StackInv

LEMMA DupStep ==
    ASSUME StackInv, DupLvalue
    PROVE  StackInv'
<1>1. PICK T, U : T = Now /\ U = vpushv(T, vtop(T))
  OBVIOUS
<1>2. Become(U) /\ Operands >= 1 /\ 1 \in Nat /\ IsLvalue(vtop(T))
  BY <1>1 DEF DupLvalue
<1>3. CASE Inv(T)
  <2>1. Len(T.st) >= 1
    BY <1>1, <1>2, <1>3, EnoughIs
  <2>2. Inv(U)
    BY <1>1, <1>2, <1>3, <2>1, DupIs
  <2> QED
    BY <1>2, <2>2, CodeDone
<1>4. CASE Suspended(T)
  <2>1. Above(T, 1)
    BY <1>1, <1>2, <1>4, EnoughIs
  <2>2. Len(T.st) >= 1
    BY <2>1, AboveIs
  <2>3. vtop(T) \in Entries
    BY <2>1, <2>2, QuietTop
  <2>4. Quiet(T, Len(T.st) + 1, U)
    BY <1>1, <2>1, <2>3, QuietPush
  <2> QED
    BY <1>2, <1>4, <2>4, QuietDone
<1> QED
  BY <1>1, <1>3, <1>4 DEF StackInv

LEMMA AssignStep ==
    ASSUME StackInv, Assign
    PROVE  StackInv'
<1>1. PICK T, U : T = Now /\ U = vstore(T)
  OBVIOUS
<1>2. Become(U) /\ Operands >= 2 /\ 2 \in Nat
  BY <1>1 DEF Assign
<1>3. CASE Inv(T)
  <2>1. Len(T.st) >= 2
    BY <1>1, <1>2, <1>3, EnoughIs
  <2>2. Inv(U)
    BY <1>1, <1>3, <2>1, StoreIs DEF Result
  <2> QED
    BY <1>2, <2>2, CodeDone
<1>4. CASE Suspended(T)
  <2>1. Above(T, 2)
    BY <1>1, <1>2, <1>4, EnoughIs
  <2>2. Quiet(T, Len(T.st) - 1, U)
    BY <1>1, <2>1, QuietStore
  <2> QED
    BY <1>2, <1>4, <2>2, QuietDone
<1> QED
  BY <1>1, <1>3, <1>4 DEF StackInv

LEMMA IncStep ==
    ASSUME StackInv, NEW post \in BOOLEAN, Inc(post)
    PROVE  StackInv'
<1>1. PICK T, D, P, v, U : /\ T = Now /\ D = vpushv(T, vtop(T)) /\ v = Fresh(T)
                           /\ P = (IF post THEN vrotb(vrotb(gv_dup(D), 3), 3) ELSE D)
                           /\ U = EndInc(vstore(gen_op(vsetc(P, Const(v)), "add")), post)
  OBVIOUS
<1>2. Become(U) /\ Operands >= 1 /\ 1 \in Nat /\ IsLvalue(vtop(T))
  BY <1>1, Zenon DEF Inc
<1>3. CASE Inv(T)
  <2>1. Len(T.st) >= 1 /\ Len(T.st) \in Nat
    BY <1>1, <1>2, <1>3, EnoughIs
  <2>2. v \in Int \X Int /\ v[1] # 0
    BY <1>1, <2>1, FreshIs
  <2>3. Inv(U)
    BY <1>1, <1>2, <1>3, <2>1, <2>2, IncIs
  <2> QED
    BY <1>2, <2>3, CodeDone
<1>4. CASE Suspended(T)
  <2>1. Above(T, 1)
    BY <1>1, <1>2, <1>4, EnoughIs
  <2>2. Len(T.st) \in Nat
    BY <2>1, AboveIs
  <2>3. v \in Int \X Int
    BY <1>1, <2>2, FreshIs
  <2>4. PICK l \in Nat : Quiet(T, l, U)
    BY <1>1, <2>1, <2>3, QuietInc
  <2> QED
    BY <1>2, <1>4, <2>4, QuietDone
<1> QED
  BY <1>1, <1>3, <1>4 DEF StackInv

LEMMA PopStep ==
    ASSUME StackInv, Pop
    PROVE  StackInv'
<1>1. PICK T, U : T = Now /\ U = Drop(T, 1)
  OBVIOUS
<1>2. Become(U) /\ Operands >= 1 /\ 1 \in Nat
  BY <1>1 DEF Pop
<1>3. CASE Inv(T)
  <2>1. Len(T.st) >= 1
    BY <1>1, <1>2, <1>3, EnoughIs
  <2>2. Inv(U)
    BY <1>1, <1>3, <2>1, PopIs
  <2> QED
    BY <1>2, <2>2, CodeDone
<1>4. CASE Suspended(T)
  <2>1. Above(T, 1)
    BY <1>1, <1>2, <1>4, EnoughIs
  <2>2. Quiet(T, Len(T.st) - 1, U)
    BY <1>1, <2>1, QuietDrop
  <2> QED
    BY <1>2, <1>4, <2>2, QuietDone
<1> QED
  BY <1>1, <1>3, <1>4 DEF StackInv

\* The code stops: all the entries are below the suppressed expression.
LEMMA BeginSizeofStep ==
    ASSUME StackInv, BeginSizeof
    PROVE  StackInv'
<1>1. PICK T, l, R, P : /\ T = Now /\ l = Len(T.st) /\ R = [T EXCEPT !.base = l]
                        /\ P = Resumed(R)
  OBVIOUS
<1>2. Become(R) /\ ~NoCode(T)
  BY <1>1 DEF BeginSizeof, Now
<1>3. Inv(T)
  <2>1. CASE Suspended(T)
    BY <1>2, <2>1 DEF Suspended, State, NoCode
  <2> QED
    BY <1>1, <2>1 DEF StackInv
<1>4. DOMAIN T = Fields /\ T.st \in Seq(Entries) /\ l \in Nat /\ T.base = None
  BY <1>1, <1>3, InvIs
<1>5. /\ DOMAIN R = Fields /\ R.base = l
      /\ R.st = T.st /\ R.reg = T.reg /\ R.mem = T.mem /\ R.temps = T.temps
      /\ R.loc = T.loc /\ R.bad = T.bad
  BY <1>1, <1>4, WithBase
<1>6. State(R)
  <2>1. State(T)
    BY <1>3, InvState
  <2>2. l \in Int
    BY <1>4
  <2> QED
    BY <1>5, <2>1, <2>2 DEF State
<1>7. R.base \in 0..Len(R.st)
  BY <1>1, <1>4, <1>5
<1>8. Part(R, P) /\ P.base = None /\ P.bad = R.bad /\ P.st = SubSeq(R.st, 1, R.base)
  <2>1. State(R) /\ R.base \in 0..Len(R.st) /\ P = Resumed(R)
    BY <1>1, <1>6, <1>7
  <2> QED
    BY ONLY <2>1, ResumedIs, Zenon
<1>9. P.st = T.st
  BY <1>1, <1>4, <1>5, <1>8
<1>10. /\ DOMAIN P = Fields /\ P.reg = T.reg /\ P.mem = T.mem /\ P.temps = T.temps
       /\ P.loc = T.loc /\ P.base = T.base /\ P.bad = T.bad
  BY <1>4, <1>5, <1>8 DEF Part
<1>11. Inv(P)
  BY <1>3, <1>9, <1>10, InvSame
<1>12. Suspended(R)
  BY <1>1, <1>6, <1>7, <1>11 DEF Suspended
<1> QED
  BY <1>2, <1>12, SuspendedDone

\* The expression has one operand: without it the stack is what it was.
LEMMA EndSizeofStep ==
    ASSUME StackInv, EndSizeof
    PROVE  StackInv'
<1>1. PICK T, m, s, D, P : /\ T = Now /\ m = Len(T.st) - 1 /\ s = SubSeq(T.st, 1, m)
                           /\ D = Drop(T, 1) /\ P = [D EXCEPT !.base = None]
  OBVIOUS
<1>2. PICK v, U : v = Fresh(P) /\ U = vsetc(P, Const(v))
  OBVIOUS
<1>3. Become(U) /\ NoCode(T) /\ Operands = 1
  BY <1>1, <1>2, Zenon DEF EndSizeof
<1>4. Suspended(T)
  <2>1. CASE Inv(T)
    BY <1>3, <2>1, InvIs
  <2> QED
    BY <1>1, <2>1 DEF StackInv
<1>5. T.base = m /\ DOMAIN T = Fields
  <2>1. Operands = Len(T.st) - T.base /\ T.base \in 0..Len(T.st) /\ Len(T.st) \in Nat /\ State(T)
    BY <1>1, <1>4, OperandsIs
  <2> QED
    BY <1>1, <1>3, <2>1 DEF State
<1>6. D = [T EXCEPT !.st = s]
  BY <1>1 DEF Drop
<1>7. DOMAIN D = Fields /\ D.st = s /\ Rest(T, D)
  BY <1>5, <1>6, WithStack
<1>8. /\ DOMAIN P = Fields /\ P.base = None /\ P.st = s
      /\ P.reg = T.reg /\ P.mem = T.mem /\ P.temps = T.temps
      /\ P.loc = T.loc /\ P.bad = T.bad
  <2>1. /\ DOMAIN P = Fields /\ P.base = None /\ P.st = D.st
        /\ P.reg = D.reg /\ P.mem = D.mem /\ P.temps = D.temps
        /\ P.loc = D.loc /\ P.bad = D.bad
    BY <1>1, <1>7, WithBase
  <2> QED
    BY <1>7, <2>1 DEF Rest
<1>9. Inv(P)
  <2>1. PICK Q : Q = Resumed(T)
    OBVIOUS
  <2>2. Inv(Q) /\ State(T) /\ T.base \in 0..Len(T.st)
    BY <1>4, <2>1 DEF Suspended
  <2>3. Part(T, Q) /\ Q.base = None /\ Q.bad = T.bad /\ Q.st = SubSeq(T.st, 1, T.base)
    BY <2>1, <2>2, ResumedIs
  <2>4. P.st = Q.st
    BY <1>1, <1>5, <1>8, <2>3
  <2>5. /\ DOMAIN P = Fields /\ P.reg = Q.reg /\ P.mem = Q.mem /\ P.temps = Q.temps
        /\ P.loc = Q.loc /\ P.base = Q.base /\ P.bad = Q.bad
    BY <1>8, <2>3 DEF Part
  <2> QED
    BY <2>2, <2>4, <2>5, InvSame
<1>10. Len(P.st) \in Nat
  BY <1>9, InvIs
<1>11. v \in Int \X Int /\ v[1] # 0
  BY <1>2, <1>10, FreshIs
<1>12. Inv(U)
  BY <1>2, <1>9, <1>11, PushNewIs
<1> QED
  BY <1>3, <1>12, CodeDone

LEMMA StackInit ==
    ASSUME Init
    PROVE  StackInv
<1>1. PICK T : T = Now
  OBVIOUS
<1>2. /\ DOMAIN T = Fields /\ T.st = <<>> /\ DOMAIN T.reg = Ints /\ T.temps = <<>> /\ T.loc = 0
      /\ T.base = None /\ T.bad = {}
  BY <1>1 DEF Init, Now, Fields
<1>3. State(T)
  BY <1>2 DEF State, None
<1>4. DOMAIN T.st = {} /\ DOMAIN T.temps = {}
  BY <1>2
<1>5. Inv(T)
  BY <1>2, <1>3, <1>4 DEF Inv, TempsKnown
<1> QED
  BY <1>1, <1>5 DEF StackInv

LEMMA StackStutter ==
    ASSUME StackInv, UNCHANGED vars
    PROVE  StackInv'
<1>1. PICK T : T = Now
  OBVIOUS
<1>2. Now' = T
  BY <1>1 DEF Now, vars
<1>3. Inv(T) \/ Suspended(T)
  BY <1>1 DEF StackInv
<1> QED
  BY <1>2, <1>3 DEF StackInv

LEMMA StackStep ==
    ASSUME Widths \subseteq {FALSE}, StackInv, Next
    PROVE  StackInv'
<1>1. CASE PushConst
  BY <1>1, PushConstStep
<1>2. CASE DupLvalue
  BY <1>2, DupStep
<1>3. CASE Assign
  BY <1>3, AssignStep
<1>4. CASE Pop
  BY <1>4, PopStep
<1>5. CASE BeginSizeof
  BY <1>5, BeginSizeofStep
<1>6. CASE EndSizeof
  BY <1>6, EndSizeofStep
<1>7. CASE \E two \in Widths : PushVar(two) \/ Deref(two) \/ \E n \in 0..NRegs : Call(n, two)
  <2>1. PushVar(FALSE) \/ Deref(FALSE) \/ \E n \in 0..NRegs : Call(n, FALSE)
    <3>1. PICK two \in Widths : PushVar(two) \/ Deref(two) \/ \E n \in 0..NRegs : Call(n, two)
      BY <1>7
    <3>2. two = FALSE
      BY <3>1
    <3> QED
      BY <3>1, <3>2, Zenon
  <2>2. CASE PushVar(FALSE)
    BY <2>2, PushVarStep
  <2>3. CASE Deref(FALSE)
    BY <2>3, DerefStep
  <2>4. CASE \E n \in 0..NRegs : Call(n, FALSE)
    BY <2>4, CallStep
  <2> QED
    BY <2>1, <2>2, <2>3, <2>4
<1>8. CASE \E post \in BOOLEAN : Inc(post)
  BY <1>8, IncStep
<1>9. CASE \E op \in {"add", "mul", "less", "equal"} : Binary(op)
  <2>1. PICK op \in Ops : Binary(op)
    BY <1>9 DEF Ops
  <2> QED
    BY <2>1, BinaryStep
<1> QED
  BY <1>1, <1>2, <1>3, <1>4, <1>5, <1>6, <1>7, <1>8, <1>9, Zenon DEF Next

\* The compiler keeps the registers, the temporary variables and the value stack as StackInv says:
\* whatever save_reg, get_reg, gv, gen_op, vstore, gfunc_call and nocode_wanted do, in any order,
\* with any number of registers, entries and temporary variables, in a program whose values are
\* integers and pointers.
THEOREM StackSound ==
    ASSUME Widths \subseteq {FALSE}
    PROVE  Spec => []StackInv
<1>1. Init => StackInv
  BY StackInit
<1>2. StackInv /\ [Next]_vars => StackInv'
  BY StackStep, StackStutter
<1> QED
  BY <1>1, <1>2, PTL DEF Spec

\* ValuesHeld: every entry that code was generated for can still be found where save_reg, get_reg
\* and gv say that it is.
THEOREM ValuesStayHeld ==
    ASSUME Widths \subseteq {FALSE}
    PROVE  Spec => []ValuesHeld
<1>1. ASSUME StackInv PROVE ValuesHeld
  <2>1. SUFFICES ASSUME NEW i \in Real
                 PROVE  First(Now, vstack[i]) = Word(vstack[i].v, 1) /\ vstack[i].two = FALSE
    BY DEF ValuesHeld
  <2>2. PICK T : T = Now
    OBVIOUS
  <2>3. T.st = vstack /\ T.base = base
    BY <2>2 DEF Now
  <2>4. CASE Inv(T)
    <3>1. T.st \in Seq(Entries) /\ i \in 1..Len(T.st) /\ Sound(T, T.st[i])
      BY <2>1, <2>3, <2>4, InvIs DEF Real
    <3>2. T.st[i] \in Entries
      BY <3>1
    <3>3. T.st[i].two = FALSE
      BY <3>2 DEF Entries
    <3>4. First(T, T.st[i]) = Word(T.st[i].v, 1)
      BY <3>1 DEF Sound, Held
    <3> QED
      BY <2>2, <2>3, <3>3, <3>4
  <2>5. CASE Suspended(T)
    <3>1. PICK P : P = Resumed(T)
      OBVIOUS
    <3>2. State(T) /\ T.base \in 0..Len(T.st) /\ Inv(P)
      BY <2>5, <3>1 DEF Suspended
    <3>3. Part(T, P) /\ Len(P.st) = T.base
      BY <3>1, <3>2, ResumedIs
    <3>4. i \in 1..T.base
      <4>1. T.st \in Seq(Entries) /\ T.base # None /\ T.base \in Nat
        BY <3>2 DEF State, None
      <4> QED
        BY <2>1, <2>3, <4>1 DEF Real
    <3>5. P.st[i] = T.st[i] /\ P.st[i] \in Entries /\ Sound(P, P.st[i])
      BY <3>2, <3>3, <3>4, InvIs DEF Part
    <3>6. Sound(T, T.st[i])
      <4>1. P.reg = T.reg /\ P.mem = T.mem /\ P.loc = T.loc
        BY <3>3 DEF Part
      <4>2. \A d : Sound(P, d) => Sound(T, d)
        BY <4>1, SameSound
      <4> QED
        BY <3>5, <4>2
    <3>7. T.st[i].two = FALSE
      BY <3>5 DEF Entries
    <3>8. First(T, T.st[i]) = Word(T.st[i].v, 1)
      BY <3>6 DEF Sound, Held
    <3> QED
      BY <2>2, <2>3, <3>7, <3>8
  <2> QED
    BY <1>1, <2>2, <2>4, <2>5 DEF StackInv
<1> QED
  BY <1>1, StackSound, PTL

\* UsesRight: the code uses what the program means, in gen_opil, vstore and gfunc_call.
THEOREM OperandsRight ==
    ASSUME Widths \subseteq {FALSE}
    PROVE  Spec => []UsesRight
<1>1. ASSUME StackInv PROVE UsesRight
  <2>1. PICK T : T = Now
    OBVIOUS
  <2>2. T.bad = bad
    BY <2>1 DEF Now
  <2>3. CASE Inv(T)
    BY <2>2, <2>3, InvIs DEF UsesRight
  <2>4. CASE Suspended(T)
    <3>1. PICK P : P = Resumed(T)
      OBVIOUS
    <3>2. State(T) /\ T.base \in 0..Len(T.st) /\ Inv(P)
      BY <2>4, <3>1 DEF Suspended
    <3>3. P.bad = T.bad
      BY <3>1, <3>2, ResumedIs
    <3>4. P.bad = {}
      BY <3>2, InvIs
    <3> QED
      BY <2>2, <3>3, <3>4 DEF UsesRight
  <2> QED
    BY <1>1, <2>1, <2>3, <2>4 DEF StackInv
<1> QED
  BY <1>1, StackSound, PTL
=============================================================================
