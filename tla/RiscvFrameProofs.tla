-------------------------- MODULE RiscvFrameProofs --------------------------
(* Why the code of load and store means what the program says, and leaves    *)
(* other registers and the frame alone: for any constants but those that tcc *)
(* loads wrongly, frames of any size, and any number of accesses.            *)
EXTENDS RiscvFrame, WordsProofs

-----------------------------------------------------------------------------
(* Runs of instructions *)

\* A run goes from state to state, one for each instruction.
LEMMA RunTrace ==
    ASSUME NEW S, NEW code, Len(code) \in Nat
    PROVE  \E state : /\ state[0] = S
                      /\ \A n \in 1..Len(code) : state[n] = Exec(state[n - 1], code[n])
                      /\ RunFrom(S, code) = state[Len(code)]
<1> DEFINE N == Len(code)
           Follows(f, m) ==
               f = [n \in 0..m |-> IF n = 0 THEN S ELSE Exec(f[n - 1], code[n])]
           known == {m \in 0..N : \E f : Follows(f, m)}
           state == CHOOSE f : Follows(f, N)
<1> HIDE DEF N
<1>0. N \in Nat
  BY DEF N
<1>1. 0 \in known
  <2> DEFINE f == [n \in 0..0 |-> S]
  <2>1. \A n \in 0..0 : n = 0
    OBVIOUS
  <2>2. Follows(f, 0)
    BY <2>1
  <2>3. 0 \in 0..N
    BY <1>0
  <2> QED
    BY <2>2, <2>3
<1>2. ASSUME NEW m \in Nat, m + 1 < N + 1, m \in known PROVE m + 1 \in known
  <2>1. PICK f : Follows(f, m)
    BY <1>2
  <2> DEFINE g == [n \in 0..m + 1 |-> IF n = m + 1 THEN Exec(f[m], code[m + 1]) ELSE f[n]]
  <2>2. \A n \in 0..m : g[n] = f[n]
    OBVIOUS
  <2>3. \A n \in 0..m : f[n] = IF n = 0 THEN S ELSE Exec(f[n - 1], code[n])
    BY <2>1
  <2>4. \A n \in 0..m + 1 : g[n] = IF n = 0 THEN S ELSE Exec(g[n - 1], code[n])
    <3> TAKE n \in 0..m + 1
    <3>1. CASE n = 0
      BY <2>2, <2>3, <3>1
    <3>2. CASE n \in 1..m
      <4>1. n \in 0..m /\ n - 1 \in 0..m
        BY <3>2
      <4> QED
        BY <2>2, <2>3, <3>2, <4>1
    <3>3. CASE n = m + 1
      <4>1. n - 1 = m /\ n # 0 /\ m \in 0..m
        BY <3>3
      <4> QED
        BY <2>2, <3>3, <4>1
    <3> QED
      BY <3>1, <3>2, <3>3
  <2>5. Follows(g, m + 1)
    BY <2>4
  <2>6. m + 1 \in 0..N
    BY <1>0, <1>2
  <2> QED
    BY <2>5, <2>6
<1>3. N \in known
  <2>1. \A m \in 0..(N + 1) - 1 : m \in known
    <3> HIDE DEF known
    <3>1. N + 1 \in Nat /\ (N + 1 > 0 => 0 \in known)
      BY <1>0, <1>1
    <3> QED
      BY <1>2, <3>1, BitInduction
  <2>2. N \in 0..(N + 1) - 1
    BY <1>0
  <2> QED
    BY <2>1, <2>2
<1>4. Follows(state, N)
  BY <1>3
<1>5. RunFrom(S, code) = state[N]
  BY DEF RunFrom, N
<1> HIDE DEF state
<1>6. \A n \in 0..N : state[n] = IF n = 0 THEN S ELSE Exec(state[n - 1], code[n])
  BY <1>4
<1>7. state[0] = S /\ \A n \in 1..N : state[n] = Exec(state[n - 1], code[n])
  BY <1>0, <1>6
<1> QED
  BY <1>5, <1>7 DEF N

\* Any such states are those of the run.
LEMMA RunIs ==
    ASSUME NEW S, NEW code, Len(code) \in Nat, NEW st, st[0] = S,
           \A n \in 1..Len(code) : st[n] = Exec(st[n - 1], code[n])
    PROVE  \A n \in 0..Len(code) : n = Len(code) => RunFrom(S, code) = st[n]
<1> DEFINE N == Len(code)
<1>1. PICK state : /\ state[0] = S
                   /\ \A n \in 1..N : state[n] = Exec(state[n - 1], code[n])
                   /\ RunFrom(S, code) = state[N]
  BY RunTrace
<1> DEFINE same == {n \in 0..N : st[n] = state[n]}
<1>2. N \in Nat /\ \A n \in 1..N : st[n] = Exec(st[n - 1], code[n])
  OBVIOUS
<1> HIDE DEF N
<1>3. 0 \in same
  BY <1>1, <1>2
<1>4. ASSUME NEW m \in Nat, m + 1 < N + 1, m \in same PROVE m + 1 \in same
  <2>1. m + 1 \in 1..N /\ (m + 1) - 1 = m /\ m + 1 \in 0..N
    BY <1>2, <1>4
  <2> QED
    BY <1>1, <1>2, <1>4, <2>1
<1>5. \A m \in 0..(N + 1) - 1 : m \in same
  <2> HIDE DEF same
  <2>1. N + 1 \in Nat /\ (N + 1 > 0 => 0 \in same)
    BY <1>2, <1>3
  <2> QED
    BY <1>4, <2>1, BitInduction
<1>6. N \in 0..(N + 1) - 1
  BY <1>2
<1> QED
  BY <1>1, <1>5, <1>6 DEF N

\* Runs of short codes, and of one code after another.
LEMMA RunOne ==
    ASSUME NEW S, NEW i
    PROVE  RunFrom(S, <<i>>) = Exec(S, i)
<1>1. PICK state : /\ state[0] = S
                   /\ \A n \in 1..1 : state[n] = Exec(state[n - 1], <<i>>[n])
                   /\ RunFrom(S, <<i>>) = state[1]
  <2>1. Len(<<i>>) = 1
    OBVIOUS
  <2> QED
    BY <2>1, RunTrace
<1>2. state[1] = Exec(state[1 - 1], <<i>>[1]) /\ <<i>>[1] = i
  BY <1>1
<1> QED
  BY <1>1, <1>2

LEMMA RunNone ==
    ASSUME NEW S
    PROVE  RunFrom(S, <<>>) = S
<1>1. Len(<<>>) = 0
  OBVIOUS
<1> QED
  BY <1>1, RunTrace

LEMMA RunThen ==
    ASSUME NEW S, NEW T, NEW a \in Seq(T), NEW b \in Seq(T)
    PROVE  RunFrom(S, a \o b) = RunFrom(RunFrom(S, a), b)
<1> DEFINE R == RunFrom(S, a)
           m == Len(a)
           N == Len(b)
<1>1. PICK x : /\ x[0] = S
               /\ \A n \in 1..m : x[n] = Exec(x[n - 1], a[n])
               /\ R = x[m]
  BY RunTrace
<1>2. PICK y : /\ y[0] = R
               /\ \A n \in 1..N : y[n] = Exec(y[n - 1], b[n])
               /\ RunFrom(R, b) = y[N]
  BY RunTrace
<1>3. /\ Len(a \o b) = m + N /\ m \in Nat /\ N \in Nat
      /\ \A n \in 1..m : (a \o b)[n] = a[n]
      /\ \A n \in m + 1..m + N : (a \o b)[n] = b[n - m]
  OBVIOUS
<1>4. PICK c : c = a \o b
  OBVIOUS
<1>5. PICK z : z = [n \in 0..m + N |-> IF n <= m THEN x[n] ELSE y[n - m]]
  OBVIOUS
<1>6. /\ Len(c) = m + N /\ m \in Nat /\ N \in Nat
      /\ \A n \in 1..m : c[n] = a[n]
      /\ \A n \in m + 1..m + N : c[n] = b[n - m]
  BY <1>3, <1>4
<1> HIDE DEF m, N, R
<1>7. z[0] = S
  BY <1>1, <1>5, <1>6
<1>8. ASSUME NEW n \in 1..m + N PROVE z[n] = Exec(z[n - 1], c[n])
  <2>1. CASE n \in 1..m
    <3>1. n - 1 \in 0..m + N /\ n - 1 <= m /\ n \in 0..m + N /\ n <= m
      BY <1>6, <2>1
    <3>2. z[n] = x[n] /\ z[n - 1] = x[n - 1]
      BY <1>5, <3>1
    <3> QED
      BY <1>1, <1>6, <2>1, <3>2
  <2>2. CASE n = m + 1
    <3>1. n - 1 = m /\ m \in 0..m + N /\ n \in 0..m + N /\ ~(n <= m) /\ n - m = 1 /\ 1 \in 1..N
          /\ n \in m + 1..m + N /\ 1 - 1 = 0
      BY <1>6, <2>2
    <3>2. z[n] = y[1] /\ z[n - 1] = x[m]
      BY <1>5, <1>6, <3>1
    <3>3. y[1] = Exec(y[0], b[1]) /\ c[n] = b[1]
      BY <1>2, <1>6, <3>1
    <3> QED
      BY <1>1, <1>2, <3>2, <3>3
  <2>3. CASE n \in m + 2..m + N
    <3>1. /\ n - 1 \in 0..m + N /\ ~(n - 1 <= m) /\ n \in 0..m + N /\ ~(n <= m)
          /\ n - m \in 1..N /\ (n - 1) - m = (n - m) - 1 /\ n \in m + 1..m + N
      BY <1>6, <2>3
    <3>2. z[n] = y[n - m] /\ z[n - 1] = y[(n - m) - 1]
      BY <1>5, <3>1
    <3>3. y[n - m] = Exec(y[(n - m) - 1], b[n - m]) /\ c[n] = b[n - m]
      BY <1>2, <1>6, <3>1
    <3> QED
      BY <3>2, <3>3
  <2> QED
    BY <1>6, <2>1, <2>2, <2>3
<1>9. RunFrom(S, c) = z[m + N]
  <2>1. Len(c) \in Nat /\ Len(c) \in 0..Len(c) /\ Len(c) = m + N
    BY <1>6
  <2>2. \A n \in 1..Len(c) : z[n] = Exec(z[n - 1], c[n])
    BY <1>8, <2>1
  <2> QED
    BY <1>7, <2>1, <2>2, RunIs
<1>10. z[m + N] = y[N]
  <2>1. CASE N = 0
    BY <1>1, <1>2, <1>5, <1>6, <2>1
  <2>2. CASE N # 0
    BY <1>5, <1>6, <2>2
  <2> QED
    BY <2>1, <2>2
<1> QED
  BY <1>2, <1>4, <1>9, <1>10 DEF R

LEMMA RunTwo ==
    ASSUME NEW S, NEW i, NEW j
    PROVE  RunFrom(S, <<i, j>>) = Exec(Exec(S, i), j)
<1>1. Len(<<i, j>>) = 2
  OBVIOUS
<1>2. PICK state : /\ state[0] = S
                   /\ \A n \in 1..2 : state[n] = Exec(state[n - 1], <<i, j>>[n])
                   /\ RunFrom(S, <<i, j>>) = state[2]
  <2> DEFINE code == <<i, j>>
  <2>1. PICK state : /\ state[0] = S
                     /\ \A n \in 1..Len(code) : state[n] = Exec(state[n - 1], code[n])
                     /\ RunFrom(S, code) = state[Len(code)]
    <3> HIDE DEF code
    <3>1. Len(code) \in Nat
      BY <1>1 DEF code
    <3> QED
      BY <3>1, RunTrace
  <2> QED
    BY <1>1, <2>1
<1>3. state[1] = Exec(state[1 - 1], <<i, j>>[1]) /\ state[2] = Exec(state[2 - 1], <<i, j>>[2])
  BY <1>2
<1> QED
  BY <1>2, <1>3

LEMMA RunFour ==
    ASSUME NEW S, NEW i, NEW j, NEW k, NEW l
    PROVE  RunFrom(S, <<i, j, k, l>>) = Exec(Exec(Exec(Exec(S, i), j), k), l)
<1>1. Len(<<i, j, k, l>>) = 4
  OBVIOUS
<1>2. PICK state : /\ state[0] = S
                   /\ \A n \in 1..4 : state[n] = Exec(state[n - 1], <<i, j, k, l>>[n])
                   /\ RunFrom(S, <<i, j, k, l>>) = state[4]
  <2> DEFINE code == <<i, j, k, l>>
  <2>1. PICK state : /\ state[0] = S
                     /\ \A n \in 1..Len(code) : state[n] = Exec(state[n - 1], code[n])
                     /\ RunFrom(S, code) = state[Len(code)]
    <3> HIDE DEF code
    <3>1. Len(code) \in Nat
      BY <1>1 DEF code
    <3> QED
      BY <3>1, RunTrace
  <2> QED
    BY <1>1, <2>1
<1>3. /\ state[1] = Exec(state[1 - 1], <<i, j, k, l>>[1])
      /\ state[2] = Exec(state[2 - 1], <<i, j, k, l>>[2])
      /\ state[3] = Exec(state[3 - 1], <<i, j, k, l>>[3])
      /\ state[4] = Exec(state[4 - 1], <<i, j, k, l>>[4])
  BY <1>2
<1> QED
  BY <1>2, <1>3

-----------------------------------------------------------------------------
(* One instruction *)

Memories == UNION {[D -> WordsOf(64)] : D \in SUBSET WordsOf(64)}

CpuStates == [reg : [Regs -> WordsOf(64)], mem : Memories, addr : WordsOf(64), ok : BOOLEAN]

Loads == {"lui", "addi", "addiw", "slli", "srli", "ld"}

\* The instructions, and those of a code that leaves register q alone.
Instrs ==
    {i \in [op : Loads \cup {"add", "sub", "s"}, rd : Nat, rs : Regs, rs2 : Nat, imm : WordsOf(64)] :
       i.op \in {"add", "sub"} => i.rs2 \in Regs}
Without(q) == {i \in Instrs : i.rd # q \/ i.op = "s" \/ q = 0}

\* r with v written to register rd.
Write(r, rd, v) == IF rd \in Regs \ {0} THEN [r EXCEPT ![rd] = v] ELSE r

LEMMA WriteIs ==
    ASSUME NEW r \in [Regs -> WordsOf(64)], NEW rd, NEW v \in WordsOf(64)
    PROVE  /\ Write(r, rd, v) \in [Regs -> WordsOf(64)]
           /\ rd \in Regs \ {0} => Write(r, rd, v)[rd] = v
           /\ \A q \in Regs : q # rd \/ q = 0 => Write(r, rd, v)[q] = r[q]
BY DEF Write

LEMMA WordOps ==
    ASSUME NEW a \in WordsOf(64), NEW b \in WordsOf(64)
    PROVE  /\ Plus(64, a, b) \in WordsOf(64) /\ Minus(64, a, b) \in WordsOf(64)
           /\ \A s \in Nat : Shl(64, a, s) \in WordsOf(64) /\ Shr(a, s) \in WordsOf(64)
<1>1. 64 \in Nat
  OBVIOUS
<1>2. Plus(64, a, b) \in WordsOf(64) /\ Minus(64, a, b) \in WordsOf(64)
  BY <1>1, PlusIs, MinusIs
<1>3. \A s \in Nat : Shl(64, a, s) \in WordsOf(64) /\ Shr(a, s) \in WordsOf(64)
  BY DEF Shl, Shr, WordsOf
<1> QED
  BY <1>2, <1>3

LEMMA SextIs ==
    ASSUME NEW w \in Nat, NEW n \in 1..w, NEW a
    PROVE  Sext(w, a, n) \in WordsOf(w)
BY DEF Sext, WordsOf

LEMMA MemoryIs ==
    ASSUME NEW m \in Memories, NEW a \in WordsOf(64), NEW v \in WordsOf(64)
    PROVE  /\ Store(m, a, v) \in Memories
           /\ DOMAIN Store(m, a, v) = {a} \cup DOMAIN m
           /\ Store(m, a, v)[a] = v
           /\ \A b \in DOMAIN m : b # a => Store(m, a, v)[b] = m[b]
           /\ \A b \in DOMAIN m : m[b] \in WordsOf(64)
<1>1. PICK D \in SUBSET WordsOf(64) : m \in [D -> WordsOf(64)]
  BY DEF Memories
<1> DEFINE n == Store(m, a, v)
<1>2. n = [b \in {a} \cup D |-> IF b = a THEN v ELSE m[b]]
  BY <1>1 DEF Store
<1> HIDE DEF n
<1>3. n \in [{a} \cup D -> WordsOf(64)] /\ {a} \cup D \in SUBSET WordsOf(64)
  BY <1>1, <1>2
<1>4. n \in Memories
  BY <1>3 DEF Memories
<1> QED
  BY <1>1, <1>2, <1>4 DEF n

\* A step of the processor.
LEMMA ExecIs ==
    ASSUME NEW S \in CpuStates, NEW i \in Instrs
    PROVE  /\ Address(S, i) \in WordsOf(64) /\ StoredValue(S, i) \in WordsOf(64)
           /\ i.op # "s" => Result(S, i) \in WordsOf(64)
           /\ Exec(S, i) \in CpuStates
           /\ \A q \in Regs : q # i.rd \/ i.op = "s" \/ q = 0 => Exec(S, i).reg[q] = S.reg[q]
           /\ i.rd \in Regs \ {0} /\ i.op # "s" => Exec(S, i).reg[i.rd] = Result(S, i)
           /\ Exec(S, i).mem = IF i.op = "s" THEN Store(S.mem, Address(S, i), StoredValue(S, i))
                               ELSE S.mem
           /\ Exec(S, i).addr = IF i.op \in {"ld", "s"} THEN Address(S, i) ELSE S.addr
           /\ Exec(S, i).ok = (S.ok /\ ImmediateFits(i))
<1>1. /\ S.reg \in [Regs -> WordsOf(64)] /\ S.mem \in Memories /\ S.addr \in WordsOf(64)
      /\ S.ok \in BOOLEAN
  BY DEF CpuStates
<1>2. /\ i.op \in Loads \cup {"add", "sub", "s"} /\ i.rd \in Nat /\ i.rs \in Regs
      /\ i.rs2 \in Nat /\ i.imm \in WordsOf(64) /\ (i.op \in {"add", "sub"} => i.rs2 \in Regs)
  BY DEF Instrs
<1>3. S.reg[i.rs] \in WordsOf(64) /\ (i.rs2 \in Regs => S.reg[i.rs2] \in WordsOf(64))
  BY <1>1, <1>2
<1>4. {} \in WordsOf(64)
  BY DEF WordsOf
<1>5. \A a : Sext(64, a, 32) \in WordsOf(64) /\ Sext(64, a, 12) \in WordsOf(64)
  <2>1. 64 \in Nat /\ 32 \in 1..64 /\ 12 \in 1..64
    OBVIOUS
  <2> QED
    BY <2>1, SextIs
<1>6. Address(S, i) \in WordsOf(64) /\ StoredValue(S, i) \in WordsOf(64)
  BY <1>3, <1>4, <1>5, WordOps DEF Address, StoredValue
<1>7. ASSUME i.op # "s" PROVE Result(S, i) \in WordsOf(64)
  <2>1. Address(S, i) \in DOMAIN S.mem => S.mem[Address(S, i)] \in WordsOf(64)
    BY <1>1, <1>4, <1>6, MemoryIs
  <2>2. CASE i.op \in {"lui", "addi", "addiw", "ld"}
    BY <2>1, <2>2, <1>4, <1>5, <1>6 DEF Result
  <2>3. CASE i.op \in {"slli", "srli"}
    BY <2>3, <1>2, <1>3, WordOps DEF Result
  <2>4. CASE i.op \in {"add", "sub"}
    BY <2>4, <1>2, <1>3, WordOps DEF Result
  <2> QED
    BY <1>2, <1>7, <2>2, <2>3, <2>4 DEF Loads
<1>8. PICK E : E = Exec(S, i)
  OBVIOUS
<1>9. /\ E.reg = IF i.op = "s" THEN S.reg ELSE Write(S.reg, i.rd, Result(S, i))
      /\ E.mem = IF i.op = "s" THEN Store(S.mem, Address(S, i), StoredValue(S, i)) ELSE S.mem
      /\ E.addr = IF i.op \in {"ld", "s"} THEN Address(S, i) ELSE S.addr
      /\ E = [reg |-> E.reg, mem |-> E.mem, addr |-> E.addr, ok |-> E.ok]
  BY <1>8 DEF Exec, Write
<1>10. E.ok = (S.ok /\ ImmediateFits(i))
  BY <1>8 DEF Exec
<1>11. E.ok \in BOOLEAN
  BY <1>10
<1>12. /\ E.reg \in [Regs -> WordsOf(64)]
       /\ \A q \in Regs : q # i.rd \/ i.op = "s" \/ q = 0 => E.reg[q] = S.reg[q]
       /\ i.rd \in Regs \ {0} /\ i.op # "s" => E.reg[i.rd] = Result(S, i)
  <2>1. CASE i.op = "s"
    BY <1>1, <1>9, <2>1
  <2>2. CASE i.op # "s"
    BY <1>1, <1>7, <1>9, <2>2, WriteIs
  <2> QED
    BY <2>1, <2>2
<1>13. E.mem \in Memories
  <2>1. Store(S.mem, Address(S, i), StoredValue(S, i)) \in Memories
    BY <1>1, <1>6, MemoryIs
  <2> QED
    BY <1>1, <1>9, <2>1
<1>14. E.addr \in WordsOf(64)
  BY <1>1, <1>6, <1>9
<1>15. E \in CpuStates
  BY <1>9, <1>11, <1>12, <1>13, <1>14 DEF CpuStates
<1> QED
  BY <1>6, <1>7, <1>8, <1>9, <1>10, <1>12, <1>15

\* The registers that no instruction of a code writes are kept.
LEMMA RunKeeps ==
    ASSUME NEW S \in CpuStates, NEW q \in Regs, NEW code \in Seq(Without(q))
    PROVE  RunFrom(S, code) \in CpuStates /\ RunFrom(S, code).reg[q] = S.reg[q]
<1> DEFINE N == Len(code)
<1>1. PICK state : /\ state[0] = S
                   /\ \A n \in 1..N : state[n] = Exec(state[n - 1], code[n])
                   /\ RunFrom(S, code) = state[N]
  BY RunTrace
<1>2. N \in Nat /\ \A n \in 1..N : code[n] \in Without(q)
  OBVIOUS
<1> HIDE DEF N
<1> DEFINE good == {n \in 0..N : state[n] \in CpuStates /\ state[n].reg[q] = S.reg[q]}
<1>3. 0 \in good
  BY <1>1, <1>2
<1>4. ASSUME NEW n \in Nat, n + 1 < N + 1, n \in good PROVE n + 1 \in good
  <2>1. n + 1 \in 1..N /\ (n + 1) - 1 = n /\ n + 1 \in 0..N
    BY <1>2, <1>4
  <2>2. code[n + 1] \in Instrs /\ (code[n + 1].rd # q \/ code[n + 1].op = "s" \/ q = 0)
    BY <1>2, <2>1 DEF Without
  <2>3. state[n + 1] = Exec(state[n], code[n + 1])
    BY <1>1, <2>1
  <2>4. state[n + 1] \in CpuStates /\ state[n + 1].reg[q] = state[n].reg[q]
    BY <1>4, <2>2, <2>3, ExecIs
  <2> QED
    BY <1>4, <2>1, <2>4
<1>5. \A n \in 0..(N + 1) - 1 : n \in good
  <2> HIDE DEF good
  <2>1. N + 1 \in Nat /\ (N + 1 > 0 => 0 \in good)
    BY <1>2, <1>3
  <2> QED
    BY <1>4, <2>1, BitInduction
<1>6. N \in 0..(N + 1) - 1
  BY <1>2
<1> QED
  BY <1>1, <1>5, <1>6

LEMMA RunTyped ==
    ASSUME NEW S \in CpuStates, NEW code \in Seq(Instrs)
    PROVE  RunFrom(S, code) \in CpuStates
<1> DEFINE N == Len(code)
<1>1. PICK state : /\ state[0] = S
                   /\ \A n \in 1..N : state[n] = Exec(state[n - 1], code[n])
                   /\ RunFrom(S, code) = state[N]
  BY RunTrace
<1>2. N \in Nat /\ \A n \in 1..N : code[n] \in Instrs
  OBVIOUS
<1> HIDE DEF N
<1> DEFINE good == {n \in 0..N : state[n] \in CpuStates}
<1>3. 0 \in good
  BY <1>1, <1>2
<1>4. ASSUME NEW n \in Nat, n + 1 < N + 1, n \in good PROVE n + 1 \in good
  <2>1. n + 1 \in 1..N /\ (n + 1) - 1 = n /\ n + 1 \in 0..N
    BY <1>2, <1>4
  <2>2. code[n + 1] \in Instrs
    BY <1>2, <2>1
  <2>3. state[n + 1] = Exec(state[n], code[n + 1])
    BY <1>1, <2>1
  <2>4. state[n + 1] \in CpuStates
    BY <1>4, <2>2, <2>3, ExecIs
  <2> QED
    BY <1>4, <2>1, <2>4
<1>5. \A n \in 0..(N + 1) - 1 : n \in good
  <2> HIDE DEF good
  <2>1. N + 1 \in Nat /\ (N + 1 > 0 => 0 \in good)
    BY <1>2, <1>3
  <2> QED
    BY <1>4, <2>1, BitInduction
<1>6. N \in 0..(N + 1) - 1
  BY <1>2
<1> QED
  BY <1>1, <1>5, <1>6

-----------------------------------------------------------------------------
(* The instructions of the codes, but for those that write to register q *)

LEMMA InstrsAre ==
    ASSUME NEW q, NEW rd \in Nat, NEW rs \in Regs, NEW rs2 \in Nat, NEW imm \in WordsOf(64)
    PROVE  /\ rd # q \/ q = 0 =>
                 /\ \A op \in Loads : EI(op, rd, rs, imm) \in Without(q)
                 /\ Lui(rd, imm) \in Without(q)
                 /\ rs2 \in Regs => \A op \in {"add", "sub"} : ER(op, rd, rs, rs2) \in Without(q)
                 /\ rd \in Regs => \A op \in {"slli", "srli"} : Shift(op, rd, rs2) \in Without(q)
           /\ ES(rs, rs2, imm) \in Without(q)
<1>1. imm \cap 12..31 \in WordsOf(64) /\ {} \in WordsOf(64) /\ 0 \in Regs
  BY DEF WordsOf, Regs
<1> QED
  BY <1>1 DEF EI, ES, ER, Lui, Shift, Without, Instrs, Loads

LEMMA WithoutInstrs ==
    ASSUME NEW q, NEW code \in Seq(Without(q))
    PROVE  code \in Seq(Instrs)
BY DEF Without

LEMMA Words32 ==
    ASSUME NEW a, a \in WordsOf(32)
    PROVE  a \in WordsOf(64)
BY DEF WordsOf

LEMMA SextShort ==
    ASSUME NEW a, NEW n \in 1..32
    PROVE  Sext(32, a, n) \in WordsOf(32) /\ Sext(32, a, n) \in WordsOf(64)
<1>1. 32 \in Nat
  OBVIOUS
<1> QED
  BY <1>1, SextIs, Words32

\* The registers that occur.
Dests == 10..17 \cup 42..49

LEMMA LocalCodeIs ==
    ASSUME NEW q \in Regs \ {t0}, NEW r \in Dests \cup {0}, NEW fc, q # r \/ q = 0
    PROVE  /\ LocalCode(r, fc) \in Seq(Without(q))
           /\ LocalBase(r, fc) \in Regs
<1>1. LocalBase(r, fc) \in Regs
  BY DEF LocalBase, IsInt, Regs, Dests
<1> DEFINE rr == LocalBase(r, fc)
<1>2. CASE NeedsLui(fc)
  <2>1. rr \in Nat /\ (rr # q \/ q = 0) /\ s0 \in Nat /\ s0 \in Regs /\ rr \in Regs
    BY <1>2 DEF LocalBase, IsInt, Regs, Dests, s0, ra, sp, t0
  <2>2. Upper(fc) \cap 12..31 \in WordsOf(64)
    BY DEF WordsOf
  <2> HIDE DEF rr
  <2>3. {} \in WordsOf(64)
    BY DEF WordsOf
  <2>4. Upper(fc) \in WordsOf(64)
    BY DEF Upper, WordsOf
  <2>5. Lui(rr, Upper(fc)) \in Without(q)
    BY <2>1, <2>4, InstrsAre
  <2>6. ER("add", rr, rr, s0) \in Without(q)
    BY <2>1, <2>3, InstrsAre
  <2>7. <<Lui(rr, Upper(fc)), ER("add", rr, rr, s0)>> \in Seq(Without(q))
    BY <2>5, <2>6
  <2>8. LocalCode(r, fc) = <<Lui(rr, Upper(fc)), ER("add", rr, rr, s0)>>
    BY <1>2, Zenon DEF LocalCode, rr
  <2> QED
    BY <1>1, <2>7, <2>8
<1>3. CASE ~NeedsLui(fc)
  <2>1. LocalCode(r, fc) = <<>>
    BY <1>3, Zenon DEF LocalCode
  <2> QED
    BY <1>1, <2>1
<1> QED
  BY <1>1, <1>2, <1>3

LEMMA LargeIs ==
    ASSUME NEW q, NEW rr \in Regs, NEW fc, NEW si, q # rr \/ q = 0
    PROVE  load_large_constant(rr, fc, si) \in Seq(Without(q))
<1> DEFINE pi == IF 31 \in fc THEN Plus(32, si, {0}) ELSE si
           lo == Sext(32, fc, 20)
           mid == Shr(Plus(32, fc, {19}), 20)
<1>1. rr \in Nat
  BY DEF Regs, ra, sp, t0, s0
<1> HIDE DEF pi, lo, mid
<1>2. /\ Lo12(pi) \in WordsOf(64) /\ Sext(32, mid, 12) \in WordsOf(64)
      /\ Sext(32, Shr(lo, 8), 24) \in WordsOf(64)
  <2>1. 12 \in 1..32 /\ 24 \in 1..32
    OBVIOUS
  <2> QED
    BY <2>1, SextShort DEF Lo12
<1>3. Upper(pi) \in WordsOf(64)
  BY DEF Upper, WordsOf
<1>4. /\ Lui(rr, Upper(pi)) \in Without(q)
      /\ EI("addi", rr, rr, Lo12(pi)) \in Without(q)
      /\ EI("addi", rr, rr, Sext(32, mid, 12)) \in Without(q)
      /\ EI("addi", rr, rr, Sext(32, Shr(lo, 8), 24)) \in Without(q)
      /\ Shift("slli", rr, 12) \in Without(q) /\ Shift("slli", rr, 8) \in Without(q)
  <2>1. 12 \in Nat /\ 8 \in Nat /\ "addi" \in Loads
    BY DEF Loads
  <2> QED
    BY <1>1, <1>2, <1>3, <2>1, InstrsAre
<1>5. <<Lui(rr, Upper(pi)), EI("addi", rr, rr, Lo12(pi)), Shift("slli", rr, 12),
        EI("addi", rr, rr, Sext(32, mid, 12)), Shift("slli", rr, 12),
        EI("addi", rr, rr, Sext(32, Shr(lo, 8), 24)), Shift("slli", rr, 8)>>
          \in Seq(Without(q))
  BY <1>4
<1> QED
  BY <1>5 DEF load_large_constant, pi, lo, mid

LEMMA AbsCodeIs ==
    ASSUME NEW q, NEW rr \in Regs, NEW c, q # rr \/ q = 0
    PROVE  AbsCode(rr, c) \in Seq(Without(q)) /\ AbsOffset(c) \in WordsOf(64)
<1>1. <<Lui(rr, Upper(Fc(c)))>> \in Seq(Without(q))
  <2>1. rr \in Nat /\ Upper(Fc(c)) \in WordsOf(64)
    BY DEF Regs, ra, sp, t0, s0, Upper, WordsOf
  <2>2. Lui(rr, Upper(Fc(c))) \in Without(q)
    BY <2>1, InstrsAre
  <2> QED
    BY <2>2
<1>2. AbsOffset(c) \in WordsOf(64)
  <2>1. c \cap 0..7 \in WordsOf(64)
    BY DEF WordsOf
  <2>2. 12 \in 1..32
    OBVIOUS
  <2> QED
    BY <2>1, <2>2, SextShort DEF AbsOffset, Lo12
<1> QED
  BY <1>1, <1>2, LargeIs DEF AbsCode

LEMMA LoadImmIs ==
    ASSUME NEW q, NEW r \in Regs, NEW c, NEW llong, q # r \/ q = 0
    PROVE  LoadImm(r, c, llong) \in Seq(Without(q))
<1> DEFINE fc == Fc(c)
           short == c = Sext(64, fc, 32)
           large == ~short /\ Si(c) # {}
           zext == ~short /\ ~large /\ llong
           rest == IF large THEN c \cap 0..7 ELSE fc
           first == IF large THEN load_large_constant(r, fc, Si(c)) ELSE <<>>
           second == IF NeedsLui(rest) THEN <<Lui(r, Upper(rest))>> ELSE <<>>
           third == IF rest # {} \/ ~large
                    THEN <<EI(IF large THEN "addi" ELSE "addiw", r,
                              IF large \/ NeedsLui(rest) THEN r ELSE 0, Lo12(rest))>>
                    ELSE <<>>
           fourth == IF zext THEN <<Shift("slli", r, 32), Shift("srli", r, 32)>> ELSE <<>>
<1>1. r \in Nat /\ 0 \in Regs
  BY DEF Regs, ra, sp, t0, s0
<1>2. first \in Seq(Without(q))
  BY LargeIs
<1>3. second \in Seq(Without(q))
  <2> HIDE DEF rest
  <2>1. Upper(rest) \in WordsOf(64)
    BY DEF Upper, WordsOf
  <2>2. Lui(r, Upper(rest)) \in Without(q)
    BY <1>1, <2>1, InstrsAre
  <2> QED
    BY <2>2
<1>4. third \in Seq(Without(q))
  <2> HIDE DEF rest
  <2> DEFINE op == IF large THEN "addi" ELSE "addiw"
             rs == IF large \/ NeedsLui(rest) THEN r ELSE 0
  <2>1. op \in Loads /\ rs \in Regs
    BY <1>1 DEF Loads
  <2>2. 12 \in 1..32
    OBVIOUS
  <2>3. Lo12(rest) \in WordsOf(64)
    BY <2>2, SextShort DEF Lo12
  <2> HIDE DEF op, rs
  <2>4. EI(op, r, rs, Lo12(rest)) \in Without(q)
    BY <1>1, <2>1, <2>3, InstrsAre
  <2>5. <<EI(op, r, rs, Lo12(rest))>> \in Seq(Without(q))
    BY <2>4
  <2> QED
    BY <2>5 DEF op, rs
<1>5. fourth \in Seq(Without(q))
  <2>1. 32 \in Nat /\ {} \in WordsOf(64)
    BY DEF WordsOf
  <2>2. Shift("slli", r, 32) \in Without(q) /\ Shift("srli", r, 32) \in Without(q)
    BY <1>1, <2>1, InstrsAre
  <2> QED
    BY <2>2
<1>6. LoadImm(r, c, llong) = first \o second \o third \o fourth
  BY DEF LoadImm
<1> HIDE DEF first, second, third, fourth
<1> QED
  BY <1>2, <1>3, <1>4, <1>5, <1>6

-----------------------------------------------------------------------------
(* The parts of a word that instructions hold *)

LEMMA SextOfSext ==
    ASSUME NEW w \in Nat, NEW v \in Nat, NEW n \in Nat, NEW m \in Nat,
           1 <= n, n <= m, m <= v, m <= w, NEW a
    PROVE  Sext(w, Sext(v, a, n), m) = Sext(w, a, n)
<1> DEFINE X == Sext(v, a, n)
<1>1. \A k : k \in X <=> (k \in a /\ k \in 0..n - 1) \/ (n - 1 \in a /\ k \in n..v - 1)
  BY DEF Sext
<1>2. m - 1 \in X <=> n - 1 \in a
  <2>1. CASE m = n
    <3>1. m - 1 = n - 1 /\ n - 1 \in 0..n - 1 /\ n - 1 \notin n..v - 1
      BY <2>1
    <3> QED
      BY <1>1, <3>1
  <2>2. CASE m > n
    <3>1. m - 1 \notin 0..n - 1 /\ m - 1 \in n..v - 1
      BY <2>2
    <3> QED
      BY <1>1, <3>1
  <2> QED
    BY <2>1, <2>2
<1> HIDE DEF X
<1>3. ASSUME NEW k PROVE k \in Sext(w, X, m) <=> k \in Sext(w, a, n)
  <2>1. k \in Sext(w, X, m) <=> (k \in X /\ k \in 0..m - 1) \/ (n - 1 \in a /\ k \in m..w - 1)
    BY <1>2 DEF Sext
  <2>2. k \in Sext(w, a, n) <=> (k \in a /\ k \in 0..n - 1) \/ (n - 1 \in a /\ k \in n..w - 1)
    BY DEF Sext
  <2> QED
    BY <1>1, <2>1, <2>2
<1> QED
  BY <1>3 DEF X

\* The upper and the lower part of a number of 32 bits, where they add up to it in 64.
LEMMA UpperLower ==
    ASSUME NEW fc \in WordsOf(32), 31 \in fc \/ ~(11..30 \subseteq fc)
    PROVE  Plus(64, Sext(64, Upper(fc) \cap 12..31, 32), Sext(64, Lo12(fc), 12)) = Sext(64, fc, 32)
<1> DEFINE x == Sext(64, fc, 32)
           y == Plus(32, fc, {11})
<1>1. Upper(fc) = y \cap 12..31
  BY PlusCommutes DEF Upper
<1>2. Sext(64, y, 32) = Plus(64, x, {11})
  <2>1. 64 \in Nat /\ 32 \in 1..64 /\ 11 \in 0..32 - 2 /\ (32 - 1 \in fc \/ ~(11..32 - 2 \subseteq fc))
    OBVIOUS
  <2> QED
    BY <2>1, SextPlus
<1>3. Sext(64, Upper(fc) \cap 12..31, 32) = Sext(64, y, 32) \ (0..11)
  <2> HIDE DEF y
  <2> QED
    BY <1>1 DEF Sext
<1>4. Sext(64, Lo12(fc), 12) = Sext(64, x, 12)
  <2>1. Sext(64, Sext(32, fc, 12), 12) = Sext(64, fc, 12)
    BY SextOfSext
  <2>2. Sext(64, x, 12) = Sext(64, fc, 12)
    BY DEF Sext
  <2> QED
    BY <2>1, <2>2 DEF Lo12
<1>5. x \in WordsOf(64)
  BY DEF Sext, WordsOf
<1> HIDE DEF x, y
<1>6. Plus(64, Plus(64, x, {11}) \ (0..11), Sext(64, x, 12)) = x
  <2>1. 64 \in Nat /\ 12 \in 1..64 /\ 12 - 1 = 11
    OBVIOUS
  <2> QED
    BY <1>5, <2>1, PartsAddUp
<1> QED
  BY <1>2, <1>3, <1>4, <1>6 DEF x

\* Its lower 32 bits are right anyway.
LEMMA UpperLowerLow ==
    ASSUME NEW fc \in WordsOf(32)
    PROVE  Plus(64, Sext(64, Upper(fc) \cap 12..31, 32), Sext(64, Lo12(fc), 12)) \cap 0..31 = fc
<1> DEFINE U == Sext(64, Upper(fc) \cap 12..31, 32)
           L == Sext(64, Lo12(fc), 12)
           y == Plus(32, fc, {11})
<1>1. y \in WordsOf(32)
  <2>1. 32 \in Nat /\ {11} \in WordsOf(32)
    BY DEF WordsOf
  <2> QED
    BY <2>1, PlusIs
<1>2. Upper(fc) = y \cap 12..31
  BY PlusCommutes DEF Upper
<1>3. U \in WordsOf(64) /\ U \cap 0..31 = y \ (0..11)
  <2> HIDE DEF y
  <2>1. y \subseteq 0..31
    BY <1>1 DEF WordsOf
  <2>2. Upper(fc) \cap 12..31 = y \ (0..11)
    <3>1. ASSUME NEW k \in y PROVE k \in 12..31 <=> k \notin 0..11
      BY <2>1
    <3> QED
      BY <1>2, <3>1
  <2>3. U \cap 0..31 = Upper(fc) \cap 12..31
    BY DEF Sext
  <2>4. U \in WordsOf(64)
    BY DEF Sext, WordsOf
  <2> QED
    BY <2>2, <2>3, <2>4
<1>4. L \in WordsOf(64) /\ L \cap 0..31 = Sext(32, fc, 12)
  <2>1. Sext(64, Sext(32, fc, 12), 12) = Sext(64, fc, 12)
    BY SextOfSext
  <2> QED
    BY <2>1 DEF Lo12, Sext, WordsOf
<1> HIDE DEF U, L, y
<1>5. Plus(32, U \cap 0..31, L \cap 0..31) = Plus(64, U, L) \cap 0..31
  <2>1. PICK n : n = 32
    OBVIOUS
  <2>2. 64 \in Nat /\ n \in 0..64 /\ n - 1 = 31
    BY <2>1
  <2>3. Plus(n, U \cap 0..n - 1, L \cap 0..n - 1) = Plus(64, U, L) \cap 0..n - 1
    BY <1>3, <1>4, <2>2, PlusNarrow
  <2> QED
    BY <2>1, <2>2, <2>3
<1>6. Plus(32, Plus(32, fc, {11}) \ (0..11), Sext(32, fc, 12)) = fc
  <2>1. 32 \in Nat /\ 12 \in 1..32 /\ 12 - 1 = 11
    OBVIOUS
  <2> QED
    BY <2>1, PartsAddUp
<1> QED
  BY <1>3, <1>4, <1>5, <1>6 DEF U, L, y

\* A number that needs no lui is that of its lower part, which fits.
LEMMA ShortIs ==
    ASSUME NEW fc \in WordsOf(32), ~NeedsLui(fc)
    PROVE  fc = Lo12(fc) /\ Sext(64, Lo12(fc), 12) = Sext(64, fc, 32)
<1> DEFINE x == Plus(32, fc, {11})
<1>1. x \in WordsOf(32)
  <2>1. 32 \in Nat /\ {11} \in WordsOf(32)
    BY DEF WordsOf
  <2> QED
    BY <2>1, PlusIs
<1>2. Shr(x, 12) = {}
  BY DEF NeedsLui
<1> HIDE DEF x
<1>3. x \subseteq 0..11
  <2>1. ASSUME NEW k \in x, k >= 12 PROVE k - 12 \in Shr(x, 12)
    BY <2>1 DEF Shr
  <2> QED
    BY <1>1, <1>2, <2>1 DEF WordsOf
<1>4. fc = Sext(32, fc, 12)
  <2>1. 32 \in Nat /\ 12 \in 1..32 /\ 12 - 1 = 11
    OBVIOUS
  <2> QED
    BY <1>3, <2>1, OffsetSigned DEF x
<1>5. Sext(64, Sext(32, fc, 12), 12) = Sext(64, fc, 12)
  BY SextOfSext
<1>6. Sext(64, Sext(32, fc, 12), 32) = Sext(64, fc, 12)
  BY SextOfSext
<1> QED
  BY <1>4, <1>5, <1>6 DEF Lo12

\* A number of 12 bits fits, and needs no lui.
LEMMA SignedFits ==
    ASSUME NEW x \in WordsOf(32), x = Sext(32, x, 12)
    PROVE  ImmFits(x) /\ ~NeedsLui(x)
<1> DEFINE y == Plus(32, x, {11})
<1>1. \A k : k \in y <=> (k \in x /\ k \in 0..10) \/ (k = 11 /\ k \notin x)
  <2>1. 32 \in Nat /\ 12 \in 1..32 /\ 12 - 1 = 11 /\ 12 - 2 = 10
    OBVIOUS
  <2> QED
    BY <2>1, SignedOffset
<1> HIDE DEF y
<1>2. Shr(y, 12) = {}
  BY <1>1 DEF Shr
<1> QED
  BY <1>2 DEF y, ImmFits, NeedsLui

LEMMA LowerFits ==
    ASSUME NEW a
    PROVE  ImmFits(Sext(32, a, 12)) /\ ~NeedsLui(Sext(32, a, 12))
<1>1. Sext(32, a, 12) \in WordsOf(32)
  BY SextShort
<1>2. Sext(32, Sext(32, a, 12), 12) = Sext(32, a, 12)
  BY SextOfSext
<1> QED
  BY <1>1, <1>2, SignedFits

-----------------------------------------------------------------------------
(* The parts of a large constant *)

\* The lower 20 bits, but for the lowest 8, and those.
LEMMA LowParts ==
    ASSUME NEW fc
    PROVE  LET L == Sext(64, Sext(32, Shr(Sext(32, fc, 20), 8), 24), 12)
           IN  Plus(64, Shl(64, L, 8), fc \cap 0..7) = Sext(64, fc, 20)
<1> DEFINE lo == Sext(32, fc, 20)
           h == Shr(lo, 8)
           s == Sext(32, h, 24)
           L == Sext(64, s, 12)
           H == Shl(64, L, 8)
<1>1. \A k : k \in lo <=> (k \in fc /\ k \in 0..19) \/ (19 \in fc /\ k \in 20..31)
  BY DEF Sext
<1> HIDE DEF lo
<1>2. \A k \in Int : k \in h <=> k >= 0 /\ k + 8 \in lo
  <2> TAKE k \in Int
  <2>1. ASSUME k \in h PROVE k >= 0 /\ k + 8 \in lo
    <3>1. PICK j \in lo : j >= 8 /\ k = j - 8
      BY <2>1 DEF Shr
    <3>2. j \in Int
      BY <1>1
    <3>3. j = k + 8 /\ k >= 0
      BY <3>1, <3>2
    <3> QED
      BY <3>1, <3>3
  <2>2. ASSUME k >= 0, k + 8 \in lo PROVE k \in h
    <3>1. k + 8 >= 8 /\ (k + 8) - 8 = k
      BY <2>2
    <3> QED
      BY <2>2, <3>1 DEF Shr
  <2> QED
    BY <2>1, <2>2
<1> HIDE DEF h
<1>3. \A k \in 0..11 : k \in s <=> k + 8 \in fc
  BY <1>1, <1>2 DEF Sext
<1> HIDE DEF s
<1>4. \A k \in Int : k \in L <=> (k \in 0..11 /\ k + 8 \in fc) \/ (19 \in fc /\ k \in 12..63)
  <2> TAKE k \in Int
  <2>1. k \in L <=> (k \in s /\ k \in 0..11) \/ (11 \in s /\ k \in 12..63)
    BY DEF Sext
  <2>2. 11 \in s <=> 19 \in fc
    BY <1>3
  <2> QED
    BY <1>3, <2>1, <2>2
<1> HIDE DEF L
<1>5. ASSUME NEW k
      PROVE  k \in H <=> (k \in fc /\ k \in 8..19) \/ (19 \in fc /\ k \in 20..63)
  <2>1. k \in H <=> k \in 0..63 /\ k - 8 \in L
    BY DEF Shl
  <2>2. CASE k \in 0..63
    <3>1. k - 8 \in Int /\ (k - 8) + 8 = k /\ (k - 8 \in 0..11 <=> k \in 8..19)
          /\ (k - 8 \in 12..63 <=> k \in 20..63)
      BY <2>2
    <3> QED
      BY <1>4, <2>1, <2>2, <3>1
  <2>3. CASE k \notin 0..63
    BY <2>1, <2>3
  <2> QED
    BY <2>2, <2>3
<1> HIDE DEF H
<1>6. H \cap (fc \cap 0..7) = {}
  BY <1>5
<1>7. H \cup (fc \cap 0..7) = Sext(64, fc, 20)
  <2>1. ASSUME NEW k PROVE k \in H \cup (fc \cap 0..7) <=> k \in Sext(64, fc, 20)
    BY <1>5 DEF Sext
  <2> QED
    BY <2>1
<1>8. Plus(64, H, fc \cap 0..7) = H \cup (fc \cap 0..7)
  BY <1>6, PlusApart
<1> QED
  BY <1>7, <1>8 DEF lo, h, s, L, H

\* The next 12 bits.
LEMMA MiddlePart ==
    ASSUME NEW fc \in WordsOf(32), 31 \in fc \/ ~(19..30 \subseteq fc)
    PROVE  LET M == Sext(64, Sext(32, Shr(Plus(32, fc, {19}), 20), 12), 12)
           IN  Shl(64, M, 20) = Plus(64, Sext(64, fc, 32), {19}) \ (0..19)
<1> DEFINE y == Plus(32, fc, {19})
           h == Shr(y, 20)
           M == Sext(64, Sext(32, h, 12), 12)
           F == Plus(64, Sext(64, fc, 32), {19})
<1>1. Sext(64, y, 32) = F
  <2>1. 64 \in Nat /\ 32 \in 1..64 /\ 19 \in 0..32 - 2 /\ (32 - 1 \in fc \/ ~(19..32 - 2 \subseteq fc))
    OBVIOUS
  <2> QED
    BY <2>1, SextPlus
<1>2. y \in WordsOf(32)
  <2>1. 32 \in Nat /\ {19} \in WordsOf(32)
    BY DEF WordsOf
  <2> QED
    BY <2>1, PlusIs
<1> HIDE DEF F, y
<1>3. \A k \in Int : k \in h <=> k >= 0 /\ k + 20 \in y
  <2> TAKE k \in Int
  <2>1. ASSUME k \in h PROVE k >= 0 /\ k + 20 \in y
    <3>1. PICK j \in y : j >= 20 /\ k = j - 20
      BY <2>1 DEF Shr
    <3>2. j \in Int
      BY <1>2 DEF WordsOf
    <3>3. j = k + 20 /\ k >= 0
      BY <3>1, <3>2
    <3> QED
      BY <3>1, <3>3
  <2>2. ASSUME k >= 0, k + 20 \in y PROVE k \in h
    <3>1. k + 20 >= 20 /\ (k + 20) - 20 = k
      BY <2>2
    <3> QED
      BY <2>2, <3>1 DEF Shr
  <2> QED
    BY <2>1, <2>2
<1> HIDE DEF h
<1>4. M = Sext(64, h, 12)
  BY SextOfSext
<1>5. \A k \in Int : k \in M <=> (k \in 0..11 /\ k + 20 \in y) \/ (31 \in y /\ k \in 12..63)
  <2> TAKE k \in Int
  <2>1. k \in M <=> (k \in h /\ k \in 0..11) \/ (11 \in h /\ k \in 12..63)
    BY <1>4 DEF Sext
  <2>2. 11 \in h <=> 31 \in y
    BY <1>3
  <2> QED
    BY <1>3, <2>1, <2>2
<1> HIDE DEF M
<1>6. ASSUME NEW k PROVE k \in Shl(64, M, 20) <=> k \in F \ (0..19)
  <2>1. k \in Shl(64, M, 20) <=> k \in 0..63 /\ k - 20 \in M
    BY DEF Shl
  <2>2. k \in F <=> (k \in y /\ k \in 0..31) \/ (31 \in y /\ k \in 32..63)
    BY <1>1 DEF Sext
  <2>3. CASE k \in 0..63
    <3>1. k - 20 \in Int /\ (k - 20) + 20 = k /\ (k - 20 \in 0..11 <=> k \in 20..31)
          /\ (k - 20 \in 12..63 <=> k \in 32..63)
      BY <2>3
    <3> QED
      BY <1>5, <2>1, <2>2, <2>3, <3>1
  <2>4. CASE k \notin 0..63
    BY <2>1, <2>2, <2>4
  <2> QED
    BY <2>3, <2>4
<1> QED
  BY <1>6 DEF M, F, h, y

\* The high half, one more where the low half is negative.
LEMMA HighPart ==
    ASSUME NEW c \in WordsOf(64), NEW P \in WordsOf(64),
           P \cap 0..31 = IF 31 \in Fc(c) THEN Plus(32, Si(c), {0}) ELSE Si(c)
    PROVE  Plus(64, Shl(64, P, 32), Sext(64, Fc(c), 32)) = c
<1> DEFINE fc == Fc(c)
           si == Si(c)
           S == Shl(64, P, 32)
           high == c \ (0..31)
<1>1. fc = c \cap 0..31 /\ 64 \in Nat /\ 32 \in Nat
  BY DEF Fc, Low32
<1>2. \A k \in Int : k \in si <=> k >= 0 /\ k + 32 \in c
  <2> TAKE k \in Int
  <2>1. ASSUME k \in si PROVE k >= 0 /\ k + 32 \in c
    <3>1. PICK j \in c : j >= 32 /\ k = j - 32
      BY <2>1 DEF Si, Shr
    <3>2. j \in Int
      BY DEF WordsOf
    <3>3. j = k + 32 /\ k >= 0
      BY <3>1, <3>2
    <3> QED
      BY <3>1, <3>3
  <2>2. ASSUME k >= 0, k + 32 \in c PROVE k \in si
    <3>1. k + 32 >= 32 /\ (k + 32) - 32 = k
      BY <2>2
    <3> QED
      BY <2>2, <3>1 DEF Si, Shr
  <2> QED
    BY <2>1, <2>2
<1>3. si \in WordsOf(32)
  <2>1. ASSUME NEW k \in si PROVE k \in 0..31
    <3>1. PICK j \in c : j >= 32 /\ k = j - 32
      BY <2>1 DEF Si, Shr
    <3> QED
      BY <3>1 DEF WordsOf
  <2> QED
    BY <2>1 DEF WordsOf
<1> HIDE DEF si, fc
<1>4. ASSUME NEW x, x \in WordsOf(64), x \cap 0..31 = si PROVE Shl(64, x, 32) = high
  <2>1. ASSUME NEW k PROVE k \in Shl(64, x, 32) <=> k \in high
    <3>1. k \in Shl(64, x, 32) <=> k \in 0..63 /\ k - 32 \in x
      BY DEF Shl
    <3>2. CASE k \in 32..63
      <4>1. k - 32 \in 0..31 /\ (k - 32) + 32 = k
        BY <3>2
      <4>2. k - 32 \in x <=> k - 32 \in si
        BY <1>4, <4>1
      <4> QED
        BY <1>2, <3>1, <3>2, <4>1, <4>2
    <3>3. CASE k \notin 32..63
      <4>1. k \in 0..63 => k - 32 \notin 0..63
        BY <3>3
      <4>2. x \subseteq 0..63 /\ c \subseteq 0..63
        BY <1>4 DEF WordsOf
      <4>3. k \notin high
        <5>1. ASSUME NEW j \in c, j \notin 0..31 PROVE j \in 32..63
          BY <4>2, <5>1
        <5> QED
          BY <3>3, <5>1
      <4> QED
        BY <3>1, <4>1, <4>2, <4>3
    <3> QED
      BY <3>2, <3>3
  <2> QED
    BY <2>1
<1>5. high \in WordsOf(64) /\ fc \in WordsOf(64) /\ high \cap fc = {} /\ high \cup fc = c
  BY <1>1 DEF WordsOf
<1>6. Plus(64, high, fc) = c
  BY <1>5, PlusApart
<1>7. CASE 31 \notin fc
  <2>1. S = high
    BY <1>4, <1>7 DEF si, fc
  <2>2. Sext(64, fc, 32) = fc
    BY <1>1, <1>7 DEF Sext
  <2> QED
    BY <1>6, <2>1, <2>2 DEF fc
<1>8. CASE 31 \in fc
  <2> DEFINE Q == Plus(64, si, {0})
             ones == 32..63
  <2>1. si \in WordsOf(64) /\ {0} \in WordsOf(64) /\ {32} \in WordsOf(64) /\ ones \in WordsOf(64)
    BY <1>3 DEF WordsOf
  <2>2. si \cap 0..31 = si /\ {0} \cap 0..31 = {0}
    <3>1. si \subseteq 0..31
      BY <1>3 DEF WordsOf
    <3>2. si \cap 0..31 = si
      BY <3>1, Zenon
    <3>3. {0} \cap 0..31 = {0}
      OBVIOUS
    <3> QED
      BY <3>2, <3>3
  <2>3. Q \in WordsOf(64)
    BY <1>1, <2>1, PlusIs
  <2>4. P \cap 0..31 = Q \cap 0..31
    <3>1. PICK n : n = 32
      OBVIOUS
    <3>2. n \in 0..64 /\ n - 1 = 31
      BY <3>1
    <3>3. Plus(n, si \cap 0..n - 1, {0} \cap 0..n - 1) = Q \cap 0..n - 1
      BY <1>1, <2>1, <3>2, PlusNarrow
    <3>4. P \cap 0..31 = Plus(32, si, {0})
      BY <1>8 DEF fc, si
    <3> QED
      BY <2>2, <3>1, <3>2, <3>3, <3>4
  <2>5. S = Shl(64, Q, 32)
    <3> HIDE DEF Q
    <3>1. ASSUME NEW k \in 0..63 PROVE k - 32 \in P <=> k - 32 \in Q
      <4>1. k - 32 \in 0..31 \/ k - 32 < 0
        OBVIOUS
      <4>2. CASE k - 32 \in 0..31
        BY <2>4, <4>2
      <4>3. CASE k - 32 < 0
        BY <2>3, <4>3 DEF WordsOf
      <4> QED
        BY <4>1, <4>2, <4>3
    <3> QED
      BY <3>1 DEF Shl
  <2>6. Shl(64, Q, 32) = Plus(64, Shl(64, si, 32), Shl(64, {0}, 32))
    BY <1>1, <2>1, ShlPlus
  <2>7. Shl(64, si, 32) = high
    BY <1>4, <2>1, <2>2
  <2>8. Shl(64, {0}, 32) = {32}
    BY DEF Shl
  <2>9. Sext(64, fc, 32) = ones \cup fc /\ ones \cap fc = {}
    BY <1>1, <1>8 DEF Sext
  <2>10. Plus(64, ones, fc) = ones \cup fc
    BY <2>9, PlusApart
  <2>11. Plus(64, {32}, ones) = {}
    <3>1. Neg(64, {32}) = ones
      <4>1. Least({32}) = 32
        BY DEF Least
      <4> QED
        BY <4>1 DEF Neg
    <3> QED
      BY <1>1, <2>1, <3>1, NegIs
  <2> HIDE DEF ones, Q
  <2>12. Plus(64, Plus(64, high, {32}), Plus(64, ones, fc))
             = Plus(64, high, Plus(64, {32}, Plus(64, ones, fc)))
    <3>1. Plus(64, ones, fc) \in WordsOf(64)
      BY <1>1, <1>5, <2>1, PlusIs
    <3> HIDE DEF high
    <3> QED
      BY <1>1, <1>5, <2>1, <3>1, PlusAssociates
  <2>13. Plus(64, {32}, Plus(64, ones, fc)) = Plus(64, Plus(64, {32}, ones), fc)
    BY <1>1, <1>5, <2>1, PlusAssociates
  <2>14. Plus(64, {}, fc) = fc
    BY PlusNone, PlusCommutes
  <2>15. S = Plus(64, high, {32})
    BY <2>5, <2>6, <2>7, <2>8
  <2>16. Sext(64, fc, 32) = Plus(64, ones, fc)
    BY <2>9, <2>10
  <2> HIDE DEF S, high
  <2> QED
    BY <1>6, <2>11, <2>12, <2>13, <2>14, <2>15, <2>16 DEF S, fc
<1> QED
  BY <1>7, <1>8

\* Bits that are shifted again and again.
LEMMA Shifts ==
    ASSUME NEW x \in WordsOf(64)
    PROVE  /\ Shl(64, Shl(64, x, 12), 12) = Shl(64, x, 24)
           /\ Shl(64, Shl(64, x, 24), 8) = Shl(64, x, 32)
           /\ Shl(64, Shl(64, x, 12), 8) = Shl(64, x, 20)
<1>1. x \in SUBSET Nat /\ 64 \in Nat
  BY DEF WordsOf
<1>2. Shl(64, Shl(64, x, 12), 12) = Shl(64, x, 24)
  <2>1. PICK s, t, u : s = 12 /\ t = 12 /\ u = 24
    OBVIOUS
  <2>2. s \in Nat /\ t \in Nat /\ u \in Nat /\ u = s + t
    BY <2>1
  <2>3. Shl(64, Shl(64, x, s), t) = Shl(64, x, u)
    BY <1>1, <2>2, ShlTwice
  <2> QED
    BY <2>1, <2>3
<1>3. Shl(64, Shl(64, x, 24), 8) = Shl(64, x, 32)
  <2>1. PICK s, t, u : s = 24 /\ t = 8 /\ u = 32
    OBVIOUS
  <2>2. s \in Nat /\ t \in Nat /\ u \in Nat /\ u = s + t
    BY <2>1
  <2>3. Shl(64, Shl(64, x, s), t) = Shl(64, x, u)
    BY <1>1, <2>2, ShlTwice
  <2> QED
    BY <2>1, <2>3
<1>4. Shl(64, Shl(64, x, 12), 8) = Shl(64, x, 20)
  <2>1. PICK s, t, u : s = 12 /\ t = 8 /\ u = 20
    OBVIOUS
  <2>2. s \in Nat /\ t \in Nat /\ u \in Nat /\ u = s + t
    BY <2>1
  <2>3. Shl(64, Shl(64, x, s), t) = Shl(64, x, u)
    BY <1>1, <2>2, ShlTwice
  <2> QED
    BY <2>1, <2>3
<1> QED
  BY <1>2, <1>3, <1>4

\* The seven instructions and the low byte give the constant.
LEMMA LargeParts ==
    ASSUME NEW c \in WordsOf(64), ~Misloaded(c), Si(c) # {}, NEW P \in WordsOf(64),
           P \cap 0..31 = IF 31 \in Fc(c) THEN Plus(32, Si(c), {0}) ELSE Si(c),
           NEW M, M = Sext(64, Sext(32, Shr(Plus(32, Fc(c), {19}), 20), 12), 12),
           NEW L, L = Sext(64, Sext(32, Shr(Sext(32, Fc(c), 20), 8), 24), 12)
    PROVE  Plus(64, Shl(64, Plus(64, Shl(64, Plus(64, Shl(64, P, 12), M), 12), L), 8), c \cap 0..7) = c
<1> DEFINE fc == Fc(c)
           F == Sext(64, fc, 32)
           low == c \cap 0..7
           A == Shl(64, P, 32)
           B == Shl(64, M, 20)
           C == Shl(64, L, 8)
<1>1. fc = c \cap 0..31 /\ 64 \in Nat
  BY DEF Fc, Low32
<1>2. M \in WordsOf(64) /\ L \in WordsOf(64) /\ F \in WordsOf(64)
  BY DEF Sext, WordsOf
<1>3. /\ A \in WordsOf(64) /\ B \in WordsOf(64) /\ C \in WordsOf(64) /\ low \in WordsOf(64)
      /\ \A a : Shl(64, a, 12) \in WordsOf(64)
  BY DEF Shl, WordsOf
<1>4. fc \in WordsOf(32) /\ (31 \in fc \/ ~(19..30 \subseteq fc)) /\ fc \cap 0..7 = low
  BY <1>1 DEF WordsOf, Misloaded
<1>5. Plus(64, C, low) = Sext(64, F, 20)
  <2>1. Plus(64, C, fc \cap 0..7) = Sext(64, fc, 20)
    BY LowParts
  <2>2. Sext(64, F, 20) = Sext(64, fc, 20)
    BY DEF Sext
  <2> QED
    BY <1>4, <2>1, <2>2
<1>6. B = Plus(64, F, {19}) \ (0..19)
  <2> HIDE DEF fc
  <2>1. Shl(64, Sext(64, Sext(32, Shr(Plus(32, fc, {19}), 20), 12), 12), 20)
            = Plus(64, Sext(64, fc, 32), {19}) \ (0..19)
    BY <1>4, MiddlePart
  <2> QED
    BY <2>1 DEF fc
<1>7. Plus(64, A, F) = c
  BY HighPart
<1> HIDE DEF A, B, C, F, low, fc
<1>8. Plus(64, B, Sext(64, F, 20)) = F
  <2>1. 20 \in 1..64 /\ 20 - 1 = 19
    OBVIOUS
  <2> QED
    BY <1>1, <1>2, <1>6, <2>1, PartsAddUp
<1>9. Shl(64, Plus(64, Shl(64, Plus(64, Shl(64, P, 12), M), 12), L), 8) = Plus(64, Plus(64, A, B), C)
  <2>1. /\ Shl(64, Shl(64, P, 12), 12) = Shl(64, P, 24) /\ Shl(64, Shl(64, P, 24), 8) = A
        /\ Shl(64, Shl(64, M, 12), 8) = B
    BY <1>2, Shifts DEF A, B
  <2>2. 12 \in Nat /\ 8 \in Nat /\ Shl(64, P, 24) \in WordsOf(64)
    BY DEF Shl, WordsOf
  <2>3. Shl(64, Plus(64, Shl(64, P, 12), M), 12) = Plus(64, Shl(64, P, 24), Shl(64, M, 12))
    BY <1>1, <1>2, <1>3, <2>1, <2>2, ShlPlus
  <2>4. Plus(64, Shl(64, P, 24), Shl(64, M, 12)) \in WordsOf(64)
    BY <1>1, <1>3, <2>2, PlusIs
  <2>5. Shl(64, Plus(64, Plus(64, Shl(64, P, 24), Shl(64, M, 12)), L), 8)
            = Plus(64, Shl(64, Plus(64, Shl(64, P, 24), Shl(64, M, 12)), 8), C)
    BY <1>1, <1>2, <2>2, <2>4, ShlPlus DEF C
  <2>6. Shl(64, Plus(64, Shl(64, P, 24), Shl(64, M, 12)), 8) = Plus(64, A, B)
    BY <1>1, <1>3, <2>1, <2>2, ShlPlus
  <2> QED
    BY <2>3, <2>5, <2>6
<1>10. Plus(64, Plus(64, Plus(64, A, B), C), low) = Plus(64, Plus(64, A, B), Plus(64, C, low))
  <2>1. Plus(64, A, B) \in WordsOf(64)
    BY <1>1, <1>3, PlusIs
  <2> QED
    BY <1>1, <1>3, <2>1, PlusAssociates
<1>11. Plus(64, Plus(64, A, B), Plus(64, C, low)) = Plus(64, A, Plus(64, B, Plus(64, C, low)))
  <2>1. Plus(64, C, low) \in WordsOf(64)
    BY <1>1, <1>3, PlusIs
  <2> QED
    BY <1>1, <1>3, <2>1, PlusAssociates
<1> QED
  BY <1>5, <1>7, <1>8, <1>9, <1>10, <1>11 DEF low

-----------------------------------------------------------------------------
(* What an instruction does that writes to a register *)

\* E is S but for register rd and whether the immediates fit.
Only(S, E, rd) ==
    /\ E \in CpuStates /\ E.mem = S.mem /\ E.addr = S.addr
    /\ \A q \in Regs : q # rd \/ q = 0 => E.reg[q] = S.reg[q]

LEMMA OnlyTwice ==
    ASSUME NEW S, NEW E, NEW F, NEW rd, Only(S, E, rd), Only(E, F, rd)
    PROVE  Only(S, F, rd)
BY DEF Only

LEMMA OnlySelf ==
    ASSUME NEW S \in CpuStates, NEW rd
    PROVE  Only(S, S, rd)
BY DEF Only

LEMMA ZeroInRegs == 0 \in Regs /\ t0 \in Regs \ {0} /\ s0 \in Regs /\ sp \in Regs /\ ra \in Regs
BY DEF Regs, t0, s0, sp, ra

LEMMA RegsAreNumbers ==
    ASSUME NEW r \in Regs
    PROVE  r \in Nat
BY DEF Regs, t0, s0, sp, ra

LEMMA DoWrite ==
    ASSUME NEW S \in CpuStates, NEW i \in Instrs, i.op \notin {"ld", "s"}, i.rd \in Regs \ {0}
    PROVE  /\ Only(S, Exec(S, i), i.rd)
           /\ Exec(S, i).reg[i.rd] = Result(S, i)
           /\ ImmediateFits(i) => Exec(S, i).ok = S.ok
<1>1. /\ Exec(S, i) \in CpuStates
      /\ \A q \in Regs : q # i.rd \/ i.op = "s" \/ q = 0 => Exec(S, i).reg[q] = S.reg[q]
      /\ i.rd \in Regs \ {0} /\ i.op # "s" => Exec(S, i).reg[i.rd] = Result(S, i)
      /\ Exec(S, i).mem = IF i.op = "s" THEN Store(S.mem, Address(S, i), StoredValue(S, i))
                          ELSE S.mem
      /\ Exec(S, i).addr = IF i.op \in {"ld", "s"} THEN Address(S, i) ELSE S.addr
      /\ Exec(S, i).ok = (S.ok /\ ImmediateFits(i))
  BY ExecIs
<1>2. S.ok \in BOOLEAN
  BY DEF CpuStates
<1>3. ImmediateFits(i) => Exec(S, i).ok = S.ok
  BY <1>1, <1>2
<1> HIDE DEF ImmediateFits
<1> QED
  BY <1>1, <1>3 DEF Only

LEMMA DoLui ==
    ASSUME NEW S \in CpuStates, NEW rd \in Regs \ {0}, NEW imm \in WordsOf(64),
           NEW E, E = Exec(S, Lui(rd, imm))
    PROVE  /\ Only(S, E, rd) /\ E.ok = S.ok
           /\ E.reg[rd] = Sext(64, imm \cap 12..31, 32)
<1> DEFINE i == Lui(rd, imm)
<1>1. i \in Instrs /\ i.op = "lui" /\ i.rd = rd /\ i.imm = imm \cap 12..31
  <2>1. {} \in WordsOf(64) /\ imm \cap 12..31 \in WordsOf(64)
    BY DEF WordsOf
  <2> QED
    BY <2>1, ZeroInRegs, RegsAreNumbers DEF Instrs, Loads, Lui, EI
<1> HIDE DEF i
<1>2. ImmediateFits(i) /\ Result(S, i) = Sext(64, i.imm, 32)
  BY <1>1 DEF ImmediateFits, Result
<1> QED
  BY <1>1, <1>2, DoWrite DEF i

LEMMA DoAddi ==
    ASSUME NEW S \in CpuStates, NEW rd \in Regs \ {0}, NEW rs \in Regs, NEW imm \in WordsOf(64),
           ImmFits(imm), NEW E, E = Exec(S, EI("addi", rd, rs, imm))
    PROVE  /\ Only(S, E, rd) /\ E.ok = S.ok
           /\ E.reg[rd] = Plus(64, S.reg[rs], Sext(64, imm, 12))
<1> DEFINE i == EI("addi", rd, rs, imm)
<1>1. i \in Instrs /\ i.op = "addi" /\ i.rd = rd /\ i.rs = rs /\ i.imm = imm
  BY ZeroInRegs, RegsAreNumbers DEF Instrs, Loads, EI
<1> HIDE DEF i
<1>2. ImmediateFits(i) /\ Result(S, i) = Plus(64, S.reg[rs], Sext(64, imm, 12))
  BY <1>1 DEF ImmediateFits, Result, Address
<1> QED
  BY <1>1, <1>2, DoWrite DEF i

LEMMA DoAddiw ==
    ASSUME NEW S \in CpuStates, NEW rd \in Regs \ {0}, NEW rs \in Regs, NEW imm \in WordsOf(64),
           ImmFits(imm), NEW E, E = Exec(S, EI("addiw", rd, rs, imm))
    PROVE  /\ Only(S, E, rd) /\ E.ok = S.ok
           /\ E.reg[rd] = Sext(64, Plus(64, S.reg[rs], Sext(64, imm, 12)), 32)
<1> DEFINE i == EI("addiw", rd, rs, imm)
<1>1. i \in Instrs /\ i.op = "addiw" /\ i.rd = rd /\ i.rs = rs /\ i.imm = imm
  BY ZeroInRegs, RegsAreNumbers DEF Instrs, Loads, EI
<1> HIDE DEF i
<1>2. ImmediateFits(i) /\ Result(S, i) = Sext(64, Plus(64, S.reg[rs], Sext(64, imm, 12)), 32)
  BY <1>1 DEF ImmediateFits, Result, Address
<1> QED
  BY <1>1, <1>2, DoWrite DEF i

LEMMA DoShift ==
    ASSUME NEW S \in CpuStates, NEW rd \in Regs \ {0}, NEW n \in Nat
    PROVE  /\ Only(S, Exec(S, Shift("slli", rd, n)), rd)
           /\ Exec(S, Shift("slli", rd, n)).ok = S.ok
           /\ Exec(S, Shift("slli", rd, n)).reg[rd] = Shl(64, S.reg[rd], n)
           /\ Only(S, Exec(S, Shift("srli", rd, n)), rd)
           /\ Exec(S, Shift("srli", rd, n)).ok = S.ok
           /\ Exec(S, Shift("srli", rd, n)).reg[rd] = Shr(S.reg[rd], n)
<1> DEFINE i == Shift("slli", rd, n)
           j == Shift("srli", rd, n)
<1>1. /\ i \in Instrs /\ i.op = "slli" /\ i.rd = rd /\ i.rs = rd /\ i.rs2 = n
      /\ j \in Instrs /\ j.op = "srli" /\ j.rd = rd /\ j.rs = rd /\ j.rs2 = n
  <2>1. {} \in WordsOf(64)
    BY DEF WordsOf
  <2> QED
    BY <2>1, RegsAreNumbers DEF Instrs, Loads, Shift
<1> HIDE DEF i, j
<1>2. ImmediateFits(i) /\ Result(S, i) = Shl(64, S.reg[rd], n)
  BY <1>1 DEF ImmediateFits, Result
<1>3. ImmediateFits(j) /\ Result(S, j) = Shr(S.reg[rd], n)
  BY <1>1 DEF ImmediateFits, Result
<1> QED
  BY <1>1, <1>2, <1>3, DoWrite DEF i, j

LEMMA DoAdd ==
    ASSUME NEW S \in CpuStates, NEW rd \in Regs \ {0}, NEW rs \in Regs, NEW rt \in Regs
    PROVE  /\ Only(S, Exec(S, ER("add", rd, rs, rt)), rd)
           /\ Exec(S, ER("add", rd, rs, rt)).ok = S.ok
           /\ Exec(S, ER("add", rd, rs, rt)).reg[rd] = Plus(64, S.reg[rs], S.reg[rt])
           /\ Only(S, Exec(S, ER("sub", rd, rs, rt)), rd)
           /\ Exec(S, ER("sub", rd, rs, rt)).ok = S.ok
           /\ Exec(S, ER("sub", rd, rs, rt)).reg[rd] = Minus(64, S.reg[rs], S.reg[rt])
<1> DEFINE i == ER("add", rd, rs, rt)
           j == ER("sub", rd, rs, rt)
<1>1. /\ i \in Instrs /\ i.op = "add" /\ i.rd = rd /\ i.rs = rs /\ i.rs2 = rt
      /\ j \in Instrs /\ j.op = "sub" /\ j.rd = rd /\ j.rs = rs /\ j.rs2 = rt
  <2>1. {} \in WordsOf(64)
    BY DEF WordsOf
  <2> QED
    BY <2>1, RegsAreNumbers DEF Instrs, Loads, ER
<1> HIDE DEF i, j
<1>2. ImmediateFits(i) /\ Result(S, i) = Plus(64, S.reg[rs], S.reg[rt])
  BY <1>1 DEF ImmediateFits, Result
<1>3. ImmediateFits(j) /\ Result(S, j) = Minus(64, S.reg[rs], S.reg[rt])
  BY <1>1 DEF ImmediateFits, Result
<1> QED
  BY <1>1, <1>2, <1>3, DoWrite DEF i, j

\* A load writes to its register, if it is an integer one, and keeps the others.
LEMMA DoLoad ==
    ASSUME NEW S \in CpuStates, NEW rd \in Regs \cup 42..49, NEW rs \in Regs,
           NEW imm \in WordsOf(64), ImmFits(imm), NEW E, E = Exec(S, EI("ld", rd, rs, imm))
    PROVE  /\ E \in CpuStates /\ E.mem = S.mem /\ E.ok = S.ok
           /\ E.addr = Plus(64, S.reg[rs], Sext(64, imm, 12))
           /\ \A q \in Regs : q # rd \/ q = 0 => E.reg[q] = S.reg[q]
           /\ rd \in Regs \ {0} =>
                 E.reg[rd] = IF E.addr \in DOMAIN S.mem THEN S.mem[E.addr] ELSE {}
<1> DEFINE i == EI("ld", rd, rs, imm)
<1>1. i \in Instrs /\ i.op = "ld" /\ i.rd = rd /\ i.rs = rs /\ i.imm = imm
  BY ZeroInRegs, RegsAreNumbers DEF Instrs, Loads, EI
<1> HIDE DEF i
<1>2. ImmediateFits(i) /\ Address(S, i) = Plus(64, S.reg[rs], Sext(64, imm, 12))
      /\ Result(S, i) = IF Address(S, i) \in DOMAIN S.mem THEN S.mem[Address(S, i)] ELSE {}
  BY <1>1 DEF ImmediateFits, Result, Address
<1>3. /\ E \in CpuStates
      /\ \A q \in Regs : q # rd \/ q = 0 => E.reg[q] = S.reg[q]
      /\ rd \in Regs \ {0} => E.reg[rd] = Result(S, i)
      /\ E.mem = S.mem /\ E.addr = Address(S, i) /\ E.ok = (S.ok /\ ImmediateFits(i))
  BY <1>1, ExecIs DEF i
<1>4. E.ok = S.ok
  <2>1. S.ok \in BOOLEAN
    BY DEF CpuStates
  <2> QED
    BY <1>2, <1>3, <2>1
<1> QED
  BY <1>2, <1>3, <1>4

\* A store keeps the registers.
LEMMA DoStore ==
    ASSUME NEW S \in CpuStates, NEW rs \in Regs, NEW rs2 \in Nat,
           NEW imm \in WordsOf(64), ImmFits(imm), NEW E, E = Exec(S, ES(rs, rs2, imm))
    PROVE  /\ E \in CpuStates /\ E.ok = S.ok
           /\ E.addr = Plus(64, S.reg[rs], Sext(64, imm, 12))
           /\ \A q \in Regs : E.reg[q] = S.reg[q]
           /\ E.mem = Store(S.mem, E.addr, IF rs2 \in Regs THEN S.reg[rs2] ELSE {})
<1> DEFINE i == ES(rs, rs2, imm)
<1>1. i \in Instrs /\ i.op = "s" /\ i.rs = rs /\ i.rs2 = rs2 /\ i.imm = imm
  BY DEF Instrs, Loads, ES
<1> HIDE DEF i
<1>2. ImmediateFits(i) /\ Address(S, i) = Plus(64, S.reg[rs], Sext(64, imm, 12))
      /\ StoredValue(S, i) = IF rs2 \in Regs THEN S.reg[rs2] ELSE {}
  BY <1>1 DEF ImmediateFits, StoredValue, Address
<1>3. /\ E \in CpuStates
      /\ \A q \in Regs : E.reg[q] = S.reg[q]
      /\ E.mem = Store(S.mem, Address(S, i), StoredValue(S, i))
      /\ E.addr = Address(S, i) /\ E.ok = (S.ok /\ ImmediateFits(i))
  BY <1>1, ExecIs DEF i
<1>4. E.ok = S.ok
  <2>1. S.ok \in BOOLEAN
    BY DEF CpuStates
  <2> QED
    BY <1>2, <1>3, <2>1
<1> QED
  BY <1>2, <1>3, <1>4

-----------------------------------------------------------------------------
(* What the codes do *)

LEMMA RunSeven ==
    ASSUME NEW S, NEW i, NEW j, NEW k, NEW l, NEW m, NEW n, NEW o
    PROVE  RunFrom(S, <<i, j, k, l, m, n, o>>)
               = Exec(Exec(Exec(RunFrom(S, <<i, j, k, l>>), m), n), o)
<1> DEFINE code == <<i, j, k, l, m, n, o>>
<1>1. Len(code) = 7
  OBVIOUS
<1>2. PICK state : /\ state[0] = S
                   /\ \A x \in 1..7 : state[x] = Exec(state[x - 1], code[x])
                   /\ RunFrom(S, code) = state[7]
  <2>1. PICK state : /\ state[0] = S
                     /\ \A x \in 1..Len(code) : state[x] = Exec(state[x - 1], code[x])
                     /\ RunFrom(S, code) = state[Len(code)]
    <3> HIDE DEF code
    <3>1. Len(code) \in Nat
      BY <1>1 DEF code
    <3> QED
      BY <3>1, RunTrace
  <2> QED
    BY <1>1, <2>1
<1>3. /\ state[1] = Exec(state[1 - 1], code[1]) /\ state[2] = Exec(state[2 - 1], code[2])
      /\ state[3] = Exec(state[3 - 1], code[3]) /\ state[4] = Exec(state[4 - 1], code[4])
      /\ state[5] = Exec(state[5 - 1], code[5]) /\ state[6] = Exec(state[6 - 1], code[6])
      /\ state[7] = Exec(state[7 - 1], code[7])
  <2> HIDE DEF code
  <2> QED
    BY <1>2
<1>4. /\ state[1] = Exec(state[0], i) /\ state[2] = Exec(state[1], j)
      /\ state[3] = Exec(state[2], k) /\ state[4] = Exec(state[3], l)
      /\ state[5] = Exec(state[4], m) /\ state[6] = Exec(state[5], n)
      /\ state[7] = Exec(state[6], o)
  BY <1>3
<1>5. RunFrom(S, <<i, j, k, l>>) = state[4]
  BY <1>2, <1>4, RunFour
<1> QED
  BY <1>2, <1>4, <1>5

LEMMA LargeDoes ==
    ASSUME NEW S \in CpuStates, NEW rr \in Regs \ {0}, NEW c \in WordsOf(64),
           ~Misloaded(c), Si(c) # {}, NEW T, T = RunFrom(S, load_large_constant(rr, Fc(c), Si(c)))
    PROVE  /\ Only(S, T, rr) /\ T.ok = S.ok
           /\ Plus(64, T.reg[rr], c \cap 0..7) = c
<1> DEFINE fc == Fc(c)
           si == Si(c)
           pi == IF 31 \in fc THEN Plus(32, si, {0}) ELSE si
           m == Sext(32, Shr(Plus(32, fc, {19}), 20), 12)
           l == Sext(32, Shr(Sext(32, fc, 20), 8), 24)
           M == Sext(64, m, 12)
           L == Sext(64, l, 12)
           i1 == Lui(rr, Upper(pi))
           i2 == EI("addi", rr, rr, Lo12(pi))
           i3 == Shift("slli", rr, 12)
           i4 == EI("addi", rr, rr, m)
           i6 == EI("addi", rr, rr, l)
           i7 == Shift("slli", rr, 8)
<1>1. load_large_constant(rr, fc, si) = <<i1, i2, i3, i4, i3, i6, i7>>
  BY DEF load_large_constant
<1>2. pi \in WordsOf(32)
  <2>1. si \in WordsOf(32)
    <3>1. ASSUME NEW k \in si PROVE k \in 0..31
      <4>1. PICK j \in c : j >= 32 /\ k = j - 32
        BY <3>1 DEF Si, Shr
      <4> QED
        BY <4>1 DEF WordsOf
    <3> QED
      BY <3>1 DEF WordsOf
  <2>2. 32 \in Nat /\ {0} \in WordsOf(32)
    BY DEF WordsOf
  <2> HIDE DEF si
  <2>3. Plus(32, si, {0}) \in WordsOf(32)
    BY <2>1, <2>2, PlusIs
  <2> QED
    BY <2>1, <2>3
<1>3. /\ Upper(pi) \in WordsOf(64) /\ Upper(pi) \cap 12..31 = Upper(pi)
      /\ Lo12(pi) \in WordsOf(64) /\ ImmFits(Lo12(pi))
      /\ m \in WordsOf(64) /\ ImmFits(m)
  <2>1. 12 \in 1..32
    OBVIOUS
  <2>2. Upper(pi) \in WordsOf(64) /\ Upper(pi) \cap 12..31 = Upper(pi)
    BY DEF Upper, WordsOf
  <2> HIDE DEF pi
  <2> QED
    BY <2>1, <2>2, LowerFits, SextShort DEF Lo12
<1>4. l \in WordsOf(64) /\ ImmFits(l)
  <2>1. l = Sext(32, Shr(Sext(32, fc, 20), 8), 12)
    <3> DEFINE h == Shr(Sext(32, fc, 20), 8)
    <3>1. \A k \in 11..23 : k \in h <=> 19 \in fc
      <4> TAKE k \in 11..23
      <4>1. k \in h <=> k + 8 \in Sext(32, fc, 20)
        <5>1. ASSUME k \in h PROVE k + 8 \in Sext(32, fc, 20)
          <6>1. PICK j \in Sext(32, fc, 20) : j >= 8 /\ k = j - 8
            BY <5>1 DEF Shr
          <6>2. j \in 0..31
            BY DEF Sext
          <6>3. j = k + 8
            BY <6>1, <6>2
          <6> QED
            BY <6>3
        <5>2. ASSUME k + 8 \in Sext(32, fc, 20) PROVE k \in h
          <6>1. (k + 8) - 8 = k /\ k + 8 >= 8
            OBVIOUS
          <6> QED
            BY <5>2, <6>1 DEF Shr
        <5> QED
          BY <5>1, <5>2
      <4>2. k + 8 \in 19..31
        OBVIOUS
      <4> QED
        BY <4>1, <4>2 DEF Sext
    <3> HIDE DEF h
    <3>2. ASSUME NEW k PROVE k \in Sext(32, h, 24) <=> k \in Sext(32, h, 12)
      BY <3>1 DEF Sext
    <3>3. Sext(32, h, 24) = Sext(32, h, 12)
      BY <3>2
    <3> QED
      BY <3>3 DEF h
  <2>2. 12 \in 1..32
    OBVIOUS
  <2> QED
    BY <2>1, <2>2, LowerFits, SextShort
<1> DEFINE S1 == Exec(S, i1)
           S2 == Exec(S1, i2)
           S3 == Exec(S2, i3)
           S4 == Exec(S3, i4)
           S5 == Exec(S4, i3)
           S6 == Exec(S5, i6)
           S7 == Exec(S6, i7)
           P == Plus(64, Sext(64, Upper(pi) \cap 12..31, 32), Sext(64, Lo12(pi), 12))
<1>5. T = S7
  <2>1. T = RunFrom(S, <<i1, i2, i3, i4, i3, i6, i7>>)
    BY <1>1
  <2> HIDE DEF i1, i2, i3, i4, i6, i7
  <2>2. RunFrom(S, <<i1, i2, i3, i4, i3, i6, i7>>)
            = Exec(Exec(Exec(RunFrom(S, <<i1, i2, i3, i4>>), i3), i6), i7)
    BY RunSeven
  <2>3. RunFrom(S, <<i1, i2, i3, i4>>) = Exec(Exec(Exec(Exec(S, i1), i2), i3), i4)
    BY RunFour
  <2> QED
    BY <2>1, <2>2, <2>3
<1> HIDE DEF pi, m, l, fc, si
<1>6. Only(S, S1, rr) /\ S1.ok = S.ok /\ S1.reg[rr] = Sext(64, Upper(pi) \cap 12..31, 32)
  BY <1>3, DoLui
<1> HIDE DEF S1
<1>7. Only(S1, S2, rr) /\ S2.ok = S1.ok /\ S2.reg[rr] = P
  <2>1. S1 \in CpuStates /\ rr \in Regs
    BY <1>6 DEF Only
  <2> QED
    BY <1>3, <1>6, <2>1, DoAddi
<1> HIDE DEF S2, P
<1>8. Only(S2, S3, rr) /\ S3.ok = S2.ok /\ S3.reg[rr] = Shl(64, P, 12)
  <2>1. S2 \in CpuStates /\ 12 \in Nat
    BY <1>7 DEF Only
  <2> QED
    BY <1>7, <2>1, DoShift
<1> HIDE DEF S3
<1>9. Only(S3, S4, rr) /\ S4.ok = S3.ok /\ S4.reg[rr] = Plus(64, Shl(64, P, 12), M)
  <2>1. S3 \in CpuStates /\ rr \in Regs
    BY <1>8 DEF Only
  <2> QED
    BY <1>3, <1>8, <2>1, DoAddi
<1> HIDE DEF S4
<1>10. Only(S4, S5, rr) /\ S5.ok = S4.ok /\ S5.reg[rr] = Shl(64, Plus(64, Shl(64, P, 12), M), 12)
  <2>1. S4 \in CpuStates /\ 12 \in Nat
    BY <1>9 DEF Only
  <2> QED
    BY <1>9, <2>1, DoShift
<1> HIDE DEF S5
<1>11. /\ Only(S5, S6, rr) /\ S6.ok = S5.ok
       /\ S6.reg[rr] = Plus(64, Shl(64, Plus(64, Shl(64, P, 12), M), 12), L)
  <2>1. S5 \in CpuStates /\ rr \in Regs
    BY <1>10 DEF Only
  <2> QED
    BY <1>4, <1>10, <2>1, DoAddi
<1> HIDE DEF S6
<1>12. /\ Only(S6, S7, rr) /\ S7.ok = S6.ok
       /\ S7.reg[rr] = Shl(64, Plus(64, Shl(64, Plus(64, Shl(64, P, 12), M), 12), L), 8)
  <2>1. S6 \in CpuStates /\ 8 \in Nat
    BY <1>11 DEF Only
  <2> QED
    BY <1>11, <2>1, DoShift
<1> HIDE DEF S7
<1>13. P \in WordsOf(64) /\ P \cap 0..31 = pi
  <2>1. P \cap 0..31 = pi
    BY <1>2, UpperLowerLow DEF P
  <2>2. /\ Sext(64, Upper(pi) \cap 12..31, 32) \in WordsOf(64)
        /\ Sext(64, Lo12(pi), 12) \in WordsOf(64)
    BY DEF Sext, WordsOf
  <2> QED
    BY <2>1, <2>2, WordOps DEF P
<1>14. Plus(64, Shl(64, Plus(64, Shl(64, Plus(64, Shl(64, P, 12), M), 12), L), 8), c \cap 0..7) = c
  <2>1. P \cap 0..31 = IF 31 \in Fc(c) THEN Plus(32, Si(c), {0}) ELSE Si(c)
    BY <1>13 DEF pi, fc, si
  <2>2. /\ M = Sext(64, Sext(32, Shr(Plus(32, Fc(c), {19}), 20), 12), 12)
        /\ L = Sext(64, Sext(32, Shr(Sext(32, Fc(c), 20), 8), 24), 12)
    BY DEF fc, m, l
  <2> HIDE DEF M, L
  <2> QED
    BY <1>13, <2>1, <2>2, LargeParts
<1>15. Only(S, S7, rr)
  BY <1>6, <1>7, <1>8, <1>9, <1>10, <1>11, <1>12, OnlyTwice
<1> QED
  BY <1>5, <1>6, <1>7, <1>8, <1>9, <1>10, <1>11, <1>12, <1>14, <1>15

LEMMA ByteIs ==
    ASSUME NEW c
    PROVE  /\ c \cap 0..7 \in WordsOf(32) /\ c \cap 0..7 \in WordsOf(64)
           /\ c \cap 0..7 = Sext(32, c \cap 0..7, 12) /\ c \cap 0..7 = Sext(64, c \cap 0..7, 12)
           /\ ImmFits(c \cap 0..7) /\ ~NeedsLui(c \cap 0..7)
<1>1. c \cap 0..7 \in WordsOf(32) /\ c \cap 0..7 \in WordsOf(64)
  BY DEF WordsOf
<1>2. c \cap 0..7 = Sext(32, c \cap 0..7, 12) /\ c \cap 0..7 = Sext(64, c \cap 0..7, 12)
  BY DEF Sext
<1> QED
  BY <1>1, <1>2, SignedFits

\* A constant address: its register, and the offset that is left.
LEMMA AbsDoes ==
    ASSUME NEW S \in CpuStates, NEW rr \in Regs \ {0}, NEW c \in WordsOf(64),
           ~Misloaded(c), ~Misplaced(c), NEW T, T = RunFrom(S, AbsCode(rr, c))
    PROVE  /\ Only(S, T, rr) /\ T.ok = S.ok /\ ImmFits(AbsOffset(c))
           /\ Plus(64, T.reg[rr], Sext(64, AbsOffset(c), 12)) = c
<1>1. CASE Si(c) # {}
  <2>1. AbsCode(rr, c) = load_large_constant(rr, Fc(c), Si(c)) /\ AbsOffset(c) = c \cap 0..7
    BY <1>1 DEF AbsCode, AbsOffset
  <2>2. Only(S, T, rr) /\ T.ok = S.ok /\ Plus(64, T.reg[rr], c \cap 0..7) = c
    BY <1>1, <2>1, LargeDoes
  <2>3. ImmFits(c \cap 0..7) /\ c \cap 0..7 = Sext(64, c \cap 0..7, 12)
    BY ByteIs
  <2> QED
    BY <2>1, <2>2, <2>3
<1>2. CASE Si(c) = {}
  <2> DEFINE fc == Fc(c)
             i == Lui(rr, Upper(fc))
  <2>1. AbsCode(rr, c) = <<i>> /\ AbsOffset(c) = Lo12(fc)
    BY <1>2 DEF AbsCode, AbsOffset
  <2>2. 31 \notin c /\ ~(11..30 \subseteq c)
    BY <1>2 DEF Misplaced
  <2>3. c \in WordsOf(32)
    <3>1. ASSUME NEW k \in c, k >= 32 PROVE FALSE
      <4>1. k - 32 \in Si(c)
        BY <3>1 DEF Si, Shr
      <4> QED
        BY <1>2, <4>1
    <3> QED
      BY <3>1 DEF WordsOf
  <2>4. fc = c
    <3>1. c \subseteq 0..31
      BY <2>3 DEF WordsOf
    <3> QED
      BY <3>1, Zenon DEF Fc, Low32
  <2>5. Sext(64, fc, 32) = c
    <3>1. c \subseteq 0..31
      BY <2>3 DEF WordsOf
    <3> QED
      <4>1. Sext(64, c, 32) = c \cap 0..31
        BY <2>2 DEF Sext
      <4>2. c \cap 0..31 = c
        BY <3>1, Zenon
      <4> QED
        BY <2>4, <4>1, <4>2
  <2>6. Upper(fc) \in WordsOf(64) /\ Upper(fc) \cap 12..31 = Upper(fc)
    BY DEF Upper, WordsOf
  <2>7. T = Exec(S, i)
    BY <2>1, RunOne
  <2> HIDE DEF fc
  <2>8. Only(S, T, rr) /\ T.ok = S.ok /\ T.reg[rr] = Sext(64, Upper(fc) \cap 12..31, 32)
    BY <2>6, <2>7, DoLui
  <2>9. Plus(64, T.reg[rr], Sext(64, Lo12(fc), 12)) = c
    BY <2>2, <2>3, <2>4, <2>5, <2>8, UpperLower
  <2>10. ImmFits(Lo12(fc))
    BY LowerFits DEF Lo12
  <2> QED
    BY <2>1, <2>8, <2>9, <2>10 DEF fc
<1> QED
  BY <1>1, <1>2

\* The address of a local: a base register, and the offset that is left.
LEMMA LocalDoes ==
    ASSUME NEW S \in CpuStates, NEW r \in Dests \cup {0}, NEW fc \in WordsOf(32),
           31 \in fc \/ ~(11..30 \subseteq fc), NEW T, T = RunFrom(S, LocalCode(r, fc))
    PROVE  /\ T \in CpuStates /\ T.mem = S.mem /\ T.addr = S.addr /\ T.ok = S.ok
           /\ LocalBase(r, fc) \in Regs /\ ImmFits(Lo12(fc)) /\ Lo12(fc) \in WordsOf(64)
           /\ Plus(64, T.reg[LocalBase(r, fc)], Sext(64, Lo12(fc), 12))
                  = Plus(64, S.reg[s0], Sext(64, fc, 32))
<1> DEFINE rr == LocalBase(r, fc)
           U == Sext(64, Upper(fc) \cap 12..31, 32)
           L == Sext(64, Lo12(fc), 12)
<1>1. ImmFits(Lo12(fc)) /\ Lo12(fc) \in WordsOf(64)
  <2>1. 12 \in 1..32
    OBVIOUS
  <2> QED
    BY <2>1, LowerFits, SextShort DEF Lo12
<1>2. CASE NeedsLui(fc)
  <2>1. rr \in Regs \ {0} /\ rr # s0
    BY <1>2 DEF LocalBase, IsInt, Regs, Dests, s0, ra, sp, t0
  <2> DEFINE i == Lui(rr, Upper(fc))
             j == ER("add", rr, rr, s0)
             E == Exec(S, i)
  <2>2. LocalCode(r, fc) = <<i, j>>
    BY <1>2, Zenon DEF LocalCode
  <2>3. Upper(fc) \in WordsOf(64) /\ Upper(fc) \cap 12..31 = Upper(fc)
    BY DEF Upper, WordsOf
  <2>4. T = Exec(E, j)
    <3> HIDE DEF i, j
    <3> QED
      BY <2>2, RunTwo
  <2> HIDE DEF rr
  <2>5. Only(S, E, rr) /\ E.ok = S.ok /\ E.reg[rr] = U
    BY <2>1, <2>3, DoLui
  <2>6. E \in CpuStates /\ s0 \in Regs /\ rr \in Regs
    BY <2>1, <2>5, ZeroInRegs DEF Only
  <2> HIDE DEF E
  <2>7. Only(E, T, rr) /\ T.ok = E.ok /\ T.reg[rr] = Plus(64, E.reg[rr], E.reg[s0])
    BY <2>1, <2>4, <2>6, DoAdd
  <2>8. E.reg[s0] = S.reg[s0]
    BY <2>1, <2>5, <2>6 DEF Only
  <2>9. Plus(64, T.reg[rr], L) = Plus(64, S.reg[s0], Plus(64, U, L))
    <3> DEFINE b == S.reg[s0]
    <3>1. U \in WordsOf(64) /\ L \in WordsOf(64) /\ 64 \in Nat
      BY DEF Sext, WordsOf
    <3>2. b \in WordsOf(64)
      BY <2>6 DEF CpuStates
    <3> HIDE DEF U, L, b
    <3>3. Plus(64, U, b) = Plus(64, b, U)
      BY PlusCommutes
    <3>4. Plus(64, Plus(64, b, U), L) = Plus(64, b, Plus(64, U, L))
      BY <3>1, <3>2, PlusAssociates
    <3>5. T.reg[rr] = Plus(64, U, b)
      BY <2>5, <2>7, <2>8 DEF b
    <3> QED
      BY <3>3, <3>4, <3>5 DEF b
  <2>10. Plus(64, U, L) = Sext(64, fc, 32)
    BY UpperLower
  <2> HIDE DEF L, U
  <2>11. Only(S, T, rr) /\ T.ok = S.ok
    BY <2>5, <2>7, OnlyTwice
  <2> QED
    BY <1>1, <2>6, <2>9, <2>10, <2>11 DEF Only, rr, L
<1>3. CASE ~NeedsLui(fc)
  <2>1. LocalCode(r, fc) = <<>> /\ rr = s0
    BY <1>3, Zenon DEF LocalCode, LocalBase
  <2>2. T = S
    BY <2>1, RunNone
  <2>3. L = Sext(64, fc, 32)
    BY <1>3, ShortIs
  <2> QED
    BY <1>1, <2>1, <2>2, <2>3, ZeroInRegs
<1> QED
  BY <1>2, <1>3

LEMMA RunThenOne ==
    ASSUME NEW S, NEW code \in Seq(Without(0)), NEW i \in Without(0)
    PROVE  RunFrom(S, code \o <<i>>) = Exec(RunFrom(S, code), i)
<1>1. <<i>> \in Seq(Without(0))
  OBVIOUS
<1>2. \A s \in Seq(Without(0)) : RunFrom(S, code \o s) = RunFrom(RunFrom(S, code), s)
  BY RunThen
<1>3. \A E : RunFrom(E, <<i>>) = Exec(E, i)
  BY RunOne
<1> QED
  BY <1>1, <1>2, <1>3, Zenon

LEMMA Tuples ==
    ASSUME NEW i, NEW j
    PROVE  <<i>> \o <<j>> = <<i, j>> /\ <<>> \o <<j>> = <<j>>
<1>1. PICK a, b : a = <<i>> \o <<j>> /\ b = <<i, j>>
  OBVIOUS
<1>2. Len(a) = 2 /\ a[1] = i /\ a[2] = j /\ a \in Seq({i, j})
  <2>1. <<i>> \in Seq({i, j}) /\ <<j>> \in Seq({i, j}) /\ Len(<<i>>) = 1 /\ Len(<<j>>) = 1
    OBVIOUS
  <2> QED
    BY <1>1, <2>1
<1>3. Len(b) = 2 /\ b[1] = i /\ b[2] = j /\ b \in Seq({i, j})
  BY <1>1
<1>4. a = b
  BY <1>2, <1>3
<1>5. <<>> \o <<j>> = <<j>>
  <2>1. <<j>> \in Seq({j})
    OBVIOUS
  <2> QED
    BY <2>1
<1> QED
  BY <1>1, <1>4, <1>5

LowCode(r, fc) ==
    (IF NeedsLui(fc) THEN <<Lui(r, Upper(fc))>> ELSE <<>>)
        \o <<EI("addiw", r, IF NeedsLui(fc) THEN r ELSE 0, Lo12(fc))>>

\* lui and addiw give the 32 bits of their number, and its sign above them.
LEMMA LowDoes ==
    ASSUME NEW S \in CpuStates, S.reg[0] = {}, NEW r \in Regs \ {0}, NEW fc \in WordsOf(32),
           NEW T, T = RunFrom(S, LowCode(r, fc))
    PROVE  /\ Only(S, T, r) /\ T.ok = S.ok /\ T.reg[r] = Sext(64, fc, 32)
           /\ LowCode(r, fc) \in Seq(Without(0))
<1> DEFINE U == Sext(64, Upper(fc) \cap 12..31, 32)
           L == Sext(64, Lo12(fc), 12)
<1>1. ImmFits(Lo12(fc)) /\ Lo12(fc) \in WordsOf(64)
  <2>1. 12 \in 1..32
    OBVIOUS
  <2> QED
    BY <2>1, LowerFits, SextShort DEF Lo12
<1>2. Upper(fc) \in WordsOf(64) /\ Upper(fc) \cap 12..31 = Upper(fc)
  BY DEF Upper, WordsOf
<1>3. CASE NeedsLui(fc)
  <2> DEFINE i == Lui(r, Upper(fc))
             j == EI("addiw", r, r, Lo12(fc))
             E == Exec(S, i)
  <2>1. LowCode(r, fc) = <<i, j>>
    BY <1>3, Tuples, Zenon DEF LowCode
  <2>2. i \in Without(0) /\ j \in Without(0)
    BY <1>1, <1>2, RegsAreNumbers, InstrsAre, ZeroInRegs DEF Loads
  <2>3. LowCode(r, fc) \in Seq(Without(0)) /\ T = Exec(E, j)
    <3> HIDE DEF i, j
    <3>1. <<i, j>> \in Seq(Without(0))
      BY <2>2
    <3> QED
      BY <2>1, <3>1, RunTwo
  <2>4. Only(S, E, r) /\ E.ok = S.ok /\ E.reg[r] = U
    BY <1>2, DoLui
  <2>5. E \in CpuStates
    BY <2>4 DEF Only
  <2> HIDE DEF E, U
  <2>6. Only(E, T, r) /\ T.ok = E.ok /\ T.reg[r] = Sext(64, Plus(64, U, L), 32)
    BY <1>1, <2>3, <2>4, <2>5, DoAddiw
  <2>7. Plus(64, U, L) \cap 0..31 = fc
    BY UpperLowerLow DEF U
  <2>8. Sext(64, Plus(64, U, L), 32) = Sext(64, fc, 32)
    <3> DEFINE x == Plus(64, U, L)
    <3> HIDE DEF x
    <3>1. x \cap 0..31 = fc
      BY <2>7 DEF x
    <3>2. Sext(64, x, 32) = Sext(64, fc, 32)
      BY <3>1 DEF Sext
    <3> QED
      BY <3>2 DEF x
  <2> QED
    BY <2>3, <2>4, <2>6, <2>8, OnlyTwice
<1>4. CASE ~NeedsLui(fc)
  <2> DEFINE j == EI("addiw", r, 0, Lo12(fc))
  <2>1. LowCode(r, fc) = <<j>>
    BY <1>4, Tuples, Zenon DEF LowCode
  <2>2. j \in Without(0)
    BY <1>1, RegsAreNumbers, InstrsAre, ZeroInRegs DEF Loads
  <2>3. LowCode(r, fc) \in Seq(Without(0)) /\ T = Exec(S, j)
    <3> HIDE DEF j
    <3>1. <<j>> \in Seq(Without(0))
      BY <2>2
    <3> QED
      BY <2>1, <3>1, RunOne
  <2>4. Only(S, T, r) /\ T.ok = S.ok /\ T.reg[r] = Sext(64, Plus(64, {}, L), 32)
    <3>1. Only(S, T, r) /\ T.ok = S.ok /\ T.reg[r] = Sext(64, Plus(64, S.reg[0], L), 32)
      <4>1. PICK z \in Regs : z = 0
        BY ZeroInRegs
      <4>2. T = Exec(S, EI("addiw", r, z, Lo12(fc)))
        BY <2>3, <4>1
      <4>3. Only(S, T, r) /\ T.ok = S.ok /\ T.reg[r] = Sext(64, Plus(64, S.reg[z], L), 32)
        BY <1>1, <4>2, DoAddiw
      <4> QED
        BY <4>1, <4>3
    <3> QED
      BY <3>1
  <2>5. Plus(64, {}, L) = L
    BY PlusNone, PlusCommutes
  <2>6. L = Sext(64, fc, 32)
    BY <1>4, ShortIs
  <2>7. Sext(64, Sext(64, fc, 32), 32) = Sext(64, fc, 32)
    BY SextOfSext
  <2> QED
    BY <2>3, <2>4, <2>5, <2>6, <2>7
<1> QED
  BY <1>3, <1>4

\* A constant is loaded as it is, whatever code it takes.
LEMMA LoadImmDoes ==
    ASSUME NEW S \in CpuStates, S.reg[0] = {}, NEW r \in Regs \ {0}, NEW c \in WordsOf(64),
           NEW llong \in BOOLEAN, ~Misloaded(c), ~llong => ~Misplaced(c),
           NEW T, T = RunFrom(S, LoadImm(r, c, llong))
    PROVE  Only(S, T, r) /\ T.ok = S.ok /\ T.reg[r] = c
<1> DEFINE fc == Fc(c)
           short == c = Sext(64, fc, 32)
           large == ~short /\ Si(c) # {}
           zext == ~short /\ ~large /\ llong
           rest == IF large THEN c \cap 0..7 ELSE fc
           first == IF large THEN load_large_constant(r, fc, Si(c)) ELSE <<>>
           second == IF NeedsLui(rest) THEN <<Lui(r, Upper(rest))>> ELSE <<>>
           third == IF rest # {} \/ ~large
                    THEN <<EI(IF large THEN "addi" ELSE "addiw", r,
                              IF large \/ NeedsLui(rest) THEN r ELSE 0, Lo12(rest))>>
                    ELSE <<>>
           fourth == IF zext THEN <<Shift("slli", r, 32), Shift("srli", r, 32)>> ELSE <<>>
           low == LowCode(r, fc)
           E == RunFrom(S, low)
<1>1. LoadImm(r, c, llong) = first \o second \o third \o fourth
  BY DEF LoadImm
<1>2. fc \in WordsOf(32) /\ fc = c \cap 0..31
  BY DEF Fc, Low32, WordsOf
<1>3. r \in Nat /\ r \in Regs
  BY RegsAreNumbers
<1>4. CASE large
  <2> DEFINE big == load_large_constant(r, fc, Si(c))
             byte == c \cap 0..7
             i == EI("addi", r, r, Lo12(byte))
             B == RunFrom(S, big)
  <2>1. first = big /\ rest = byte /\ fourth = <<>>
    BY <1>4
  <2>2. second = <<>>
    BY <2>1, ByteIs
  <2>3. Only(S, B, r) /\ B.ok = S.ok /\ Plus(64, B.reg[r], byte) = c
    BY <1>4, LargeDoes
  <2>4. B \in CpuStates
    BY <2>3 DEF Only
  <2>5. big \in Seq(Without(0))
    BY <1>3, LargeIs
  <2>6. CASE byte = {}
    <3>1. third = <<>>
      BY <1>4, <2>1, <2>6
    <3>2. LoadImm(r, c, llong) = big
      <4> HIDE DEF first, second, third, fourth, big
      <4> QED
        BY <1>1, <2>1, <2>2, <2>5, <3>1
    <3>3. B.reg[r] = c
      BY <2>3, <2>6, PlusNone
    <3> QED
      BY <2>3, <3>2, <3>3
  <2>7. CASE byte # {}
    <3>1. third = <<i>>
      BY <1>4, <2>1, <2>7
    <3>2. Lo12(byte) = byte /\ byte \in WordsOf(64) /\ ImmFits(byte) /\ Sext(64, byte, 12) = byte
      BY ByteIs DEF Lo12
    <3>3. i \in Without(0)
      BY <1>3, <3>2, InstrsAre, ZeroInRegs DEF Loads
    <3>4. LoadImm(r, c, llong) = big \o <<i>>
      <4> HIDE DEF first, second, third, fourth, big, i
      <4> QED
        BY <1>1, <2>1, <2>2, <2>5, <3>1, <3>3
    <3>5. T = Exec(B, i)
      <4> HIDE DEF i, big
      <4>2. RunFrom(S, big \o <<i>>) = Exec(RunFrom(S, big), i)
        BY <2>5, <3>3, RunThenOne
      <4> QED
        BY <3>4, <4>2
    <3> HIDE DEF B, byte
    <3>6. Only(B, T, r) /\ T.ok = B.ok /\ T.reg[r] = Plus(64, B.reg[r], Sext(64, byte, 12))
      BY <1>3, <2>4, <3>2, <3>5, DoAddi
    <3> QED
      BY <2>3, <3>2, <3>6, OnlyTwice
  <2> QED
    BY <2>6, <2>7
<1>5. CASE ~large
  <2>1. rest = fc /\ first = <<>> /\ third = <<EI("addiw", r, IF NeedsLui(fc) THEN r ELSE 0, Lo12(fc))>>
    BY <1>5, Zenon
  <2>2. second \o third = low
    BY <2>1, Zenon DEF LowCode
  <2>3. Only(S, E, r) /\ E.ok = S.ok /\ E.reg[r] = Sext(64, fc, 32) /\ low \in Seq(Without(0))
    <3> HIDE DEF fc
    <3> QED
      BY <1>2, LowDoes
  <2>4. fourth = <<>> \/ fourth = <<Shift("slli", r, 32), Shift("srli", r, 32)>>
    OBVIOUS
  <2>5. fourth \in Seq(Without(0))
    <3>1. 32 \in Nat /\ {} \in WordsOf(64)
      BY DEF WordsOf
    <3>2. Shift("slli", r, 32) \in Without(0) /\ Shift("srli", r, 32) \in Without(0)
      BY <1>3, <3>1, InstrsAre
    <3> QED
      BY <3>2
  <2>6. second \in Seq(Without(0)) /\ third \in Seq(Without(0))
    <3>1. /\ Lui(r, Upper(fc)) \in Without(0)
          /\ EI("addiw", r, IF NeedsLui(fc) THEN r ELSE 0, Lo12(fc)) \in Without(0)
      <4>1. Upper(fc) \in WordsOf(64)
        BY DEF Upper, WordsOf
      <4>2. Lo12(fc) \in WordsOf(64)
        <5>1. 12 \in 1..32
          OBVIOUS
        <5> QED
          BY <5>1, SextShort DEF Lo12
      <4>3. \A rs \in Regs : EI("addiw", r, rs, Lo12(fc)) \in Without(0)
        BY <1>3, <4>2, InstrsAre, ZeroInRegs DEF Loads
      <4> QED
        <5>1. Lui(r, Upper(fc)) \in Without(0)
          BY <1>3, <4>1, InstrsAre, ZeroInRegs
        <5>2. (IF NeedsLui(fc) THEN r ELSE 0) \in Regs
          BY <1>3, ZeroInRegs
        <5> QED
          BY <4>3, <5>1, <5>2
    <3>2. \A i \in Without(0) : <<i>> \in Seq(Without(0)) /\ <<>> \in Seq(Without(0))
      OBVIOUS
    <3>3. third \in Seq(Without(0))
      BY <2>1, <3>1, <3>2, Zenon
    <3>4. second = <<>> \/ second = <<Lui(r, Upper(fc))>>
      BY <2>1, Zenon
    <3> HIDE DEF second, third
    <3> QED
      BY <3>1, <3>2, <3>3, <3>4
  <2>7. LoadImm(r, c, llong) = low \o fourth
    <3> HIDE DEF first, second, third, fourth, low
    <3> QED
      BY <1>1, <2>1, <2>2, <2>5, <2>6
  <2>8. CASE short
    <3>1. fourth = <<>>
      BY <2>8
    <3>2. LoadImm(r, c, llong) = low
      <4> HIDE DEF low, fourth
      <4> QED
        BY <2>3, <2>7, <3>1
    <3> QED
      BY <2>3, <2>8, <3>2
  <2>9. CASE ~short
    <3>1. Si(c) = {}
      BY <1>5, <2>9
    <3>2. c = fc
      <4>1. ASSUME NEW k \in c, k >= 32 PROVE FALSE
        <5>1. k - 32 \in Si(c)
          BY <4>1 DEF Si, Shr
        <5> QED
          BY <3>1, <5>1
      <4>2. c \subseteq 0..63
        BY DEF WordsOf
      <4>3. c \subseteq 0..31
        BY <4>1, <4>2
      <4> QED
        BY <1>2, <4>3, Zenon
    <3>3. llong
      <4>1. 31 \notin c => c = Sext(64, fc, 32)
        <5>1. 31 \notin c => Sext(64, fc, 32) = c \cap 0..31
          BY <1>2 DEF Sext
        <5> QED
          BY <1>2, <3>2, <5>1
      <4> QED
        BY <2>9, <3>1, <4>1 DEF Misplaced
    <3> DEFINE k == Shift("slli", r, 32)
               l == Shift("srli", r, 32)
               F == Exec(E, k)
    <3>4. fourth = <<k, l>>
      BY <1>5, <2>9, <3>3
    <3>5. T = Exec(F, l)
      <4>1. T = RunFrom(E, fourth)
        <5> HIDE DEF low, fourth
        <5> QED
          BY <2>3, <2>5, <2>7, RunThen
      <4> HIDE DEF E, k, l
      <4> QED
        BY <3>4, <4>1, RunTwo
    <3> HIDE DEF E
    <3>6. E \in CpuStates /\ 32 \in Nat
      BY <2>3 DEF Only
    <3>7. Only(E, F, r) /\ F.ok = E.ok /\ F.reg[r] = Shl(64, E.reg[r], 32)
      BY <3>6, DoShift
    <3> HIDE DEF F
    <3>8. F \in CpuStates
      BY <3>7 DEF Only
    <3>9. Only(F, T, r) /\ T.ok = F.ok /\ T.reg[r] = Shr(F.reg[r], 32)
      BY <3>5, <3>6, <3>8, DoShift
    <3>10. Shr(Shl(64, Sext(64, fc, 32), 32), 32) = fc
      <4> DEFINE x == Sext(64, fc, 32)
                 y == Shl(64, x, 32)
      <4>1. \A n \in 0..31 : n \in x <=> n \in fc
        BY DEF Sext
      <4> HIDE DEF x
      <4>2. \A n : n \in y <=> n \in 0..63 /\ n - 32 \in x
        BY DEF Shl
      <4>3. x \subseteq 0..63
        BY DEF x, Sext
      <4> HIDE DEF y
      <4>4. ASSUME NEW n PROVE n \in Shr(y, 32) <=> n \in fc
        <5>1. ASSUME n \in Shr(y, 32) PROVE n \in fc
          <6>1. PICK m \in y : m >= 32 /\ n = m - 32
            BY <5>1 DEF Shr
          <6>2. m \in 32..63 /\ n \in x
            BY <4>2, <6>1
          <6> QED
            BY <4>1, <6>1, <6>2
        <5>2. ASSUME n \in fc PROVE n \in Shr(y, 32)
          <6>1. n \in 0..31
            BY <1>2, <5>2
          <6>2. n + 32 \in 0..63 /\ (n + 32) - 32 = n /\ n + 32 >= 32 /\ n \in x
            BY <4>1, <5>2, <6>1
          <6>3. n + 32 \in y
            BY <4>2, <6>2
          <6> QED
            BY <6>2, <6>3 DEF Shr
        <5> QED
          BY <5>1, <5>2
      <4> QED
        BY <4>4 DEF x, y
    <3> HIDE DEF fc
    <3>11. T.reg[r] = fc
      BY <2>3, <3>7, <3>9, <3>10
    <3>12. Only(S, T, r) /\ T.ok = S.ok
      BY <2>3, <3>7, <3>9, OnlyTwice
    <3> QED
      BY <3>2, <3>11, <3>12
  <2> QED
    BY <2>8, <2>9
<1> QED
  BY <1>4, <1>5


-----------------------------------------------------------------------------
(* What every access keeps *)

KeptRegs == {0, ra, sp, s0} \cup 10..17

FrameType ==
    /\ kind \in FunctionKinds /\ loc \in Frames[kind] /\ num_va_regs \in VaRegs[kind]
    /\ phase \in {"entry", "body", "returned"} /\ steps \in Nat /\ assert_ok \in BOOLEAN
    /\ reg \in [Regs -> WordsOf(64)] /\ entry \in [Regs -> WordsOf(64)] /\ mem \in Memories
    /\ reg[0] = {}

\* The registers that an access of a function of this kind may change as well.
Spoiled ==
    (IF AbsFloats[kind] THEN 10..17 ELSE {}) \cup (IF AbsStores[kind] THEN {s0} ELSE {})

Accessed ==
    /\ phase = "body" /\ steps < MaxSteps[kind] /\ steps' = steps + 1
    /\ UNCHANGED <<phase, loc, num_va_regs, entry, kind>>
    /\ reg' \in [Regs -> WordsOf(64)] /\ mem' \in Memories /\ assert_ok' \in BOOLEAN
    /\ reg'[0] = {}
    /\ \A q \in KeptRegs : q # last'.target /\ q \notin Spoiled => reg'[q] = reg[q]

\* A generated code that leaves the registers alone which are not its own.
LEMMA AccessKeeps ==
    ASSUME FrameType, NEW T \in CpuStates, T.reg = reg, NEW code, NEW target, NEW want, NEW value,
           Access(RunFrom(T, code), target, want, value),
           \A q \in KeptRegs : q = 0 \/ (q # target /\ q \notin Spoiled)
                                  => code \in Seq(Without(q))
    PROVE  Accessed
<1> DEFINE S == RunFrom(T, code)
<1>1. \A q \in KeptRegs : q \in Regs
  BY DEF KeptRegs, Regs
<1>2. \A q \in KeptRegs : q = 0 \/ (q # target /\ q \notin Spoiled)
                             => S \in CpuStates /\ S.reg[q] = reg[q]
  BY <1>1, RunKeeps
<1>3. 0 \in KeptRegs
  BY DEF KeptRegs
<1> HIDE DEF S
<1>4. S \in CpuStates /\ S.reg[0] = {}
  BY <1>2, <1>3 DEF FrameType
<1>5. /\ phase = "body" /\ steps < MaxSteps[kind] /\ steps' = steps + 1
      /\ UNCHANGED <<phase, loc, num_va_regs, entry, kind>>
      /\ reg' = S.reg /\ mem' = S.mem /\ assert_ok' = S.ok /\ last'.target = target
  BY DEF Access, S
<1>6. S.reg \in [Regs -> WordsOf(64)] /\ S.mem \in Memories /\ S.ok \in BOOLEAN
  BY <1>4 DEF CpuStates
<1> QED
  BY <1>2, <1>4, <1>5, <1>6 DEF Accessed

LEMMA CpuIs ==
    ASSUME FrameType
    PROVE  Cpu \in CpuStates /\ Cpu.reg = reg /\ Cpu.mem = mem /\ Cpu.ok = assert_ok
<1>1. {} \in WordsOf(64)
  BY DEF WordsOf
<1> QED
  BY <1>1 DEF FrameType, Cpu, CpuStates

\* The registers and the offsets of a function.
LEMMA RegistersAre ==
    ASSUME FrameType
    PROVE  /\ \A r \in IntRegs[kind] : r \in 10..17 /\ r \in Regs \ {0} /\ IsInt(r)
           /\ \A r \in FloatRegs[kind] : r \in 42..49 /\ ~IsInt(r)
           /\ \A r \in AddressRegs : /\ r \in Dests /\ Number(r) \in 10..17
                                     /\ ~IsInt(r) => AbsFloats[kind]
           /\ Consts[kind] \subseteq WordsOf(64) /\ Addresses[kind] \subseteq WordsOf(64)
           /\ AbsFloats[kind] \in BOOLEAN /\ AbsStores[kind] \in BOOLEAN
<1>1. kind \in FunctionKinds
  BY DEF FrameType
<1>2. /\ IntRegs[kind] \subseteq 10..17 /\ FloatRegs[kind] \subseteq 42..49
      /\ Consts[kind] \subseteq SUBSET (0..63) /\ Addresses[kind] \subseteq SUBSET (0..63)
      /\ AbsStores[kind] \in BOOLEAN /\ AbsFloats[kind] \in BOOLEAN
  BY <1>1, FunctionAssumption
<1>3. \A r \in IntRegs[kind] : r \in 10..17 /\ r \in Regs \ {0} /\ IsInt(r)
  BY <1>2 DEF Regs, IsInt
<1>4. \A r \in FloatRegs[kind] : r \in 42..49 /\ ~IsInt(r)
  BY <1>2 DEF IsInt
<1>5. \A r \in AddressRegs : r \in Dests /\ Number(r) \in 10..17 /\ (~IsInt(r) => AbsFloats[kind])
  BY <1>2, <1>3, <1>4 DEF AddressRegs, Dests, Number
<1>6. Consts[kind] \subseteq WordsOf(64) /\ Addresses[kind] \subseteq WordsOf(64)
  <2>1. WordsOf(64) = SUBSET (0..63)
    BY DEF WordsOf
  <2> QED
    BY <1>2, <2>1
<1> QED
  BY <1>2, <1>3, <1>4, <1>5, <1>6

LEMMA LoadConstKeeps ==
    ASSUME FrameType, LoadConst
    PROVE  Accessed
<1>1. PICK r, c, llong, value : /\ r \in IntRegs[kind]
                               /\ Access(RunFrom(Cpu, LoadImm(r, c, llong)), r, {}, value)
  BY DEF LoadConst, Run
<1>2. r \in Regs
  BY <1>1, RegistersAre
<1>3. \A q \in KeptRegs : q = 0 \/ q # r => LoadImm(r, c, llong) \in Seq(Without(q))
  BY <1>2, LoadImmIs
<1> QED
  BY <1>1, <1>3, CpuIs, AccessKeeps

\* A code and one more instruction.
LEMMA ThenOne ==
    ASSUME NEW q, NEW code \in Seq(Without(q)), NEW i \in Without(q)
    PROVE  code \o <<i>> \in Seq(Without(q))
OBVIOUS

\* The code of an access to a local, with its last instruction.
LEMMA LocalAccessIs ==
    ASSUME NEW q \in KeptRegs, NEW r \in Dests \cup {0}, q # r \/ q = 0, NEW n \in Dests \cup 0..17,
           NEW fc, q # n \/ q = 0
    PROVE  /\ LocalCode(r, fc) \o <<EI("ld", n, LocalBase(r, fc), Lo12(fc))>> \in Seq(Without(q))
           /\ LocalCode(r, fc) \o <<EI("addi", n, LocalBase(r, fc), Lo12(fc))>> \in Seq(Without(q))
           /\ LocalCode(r, fc) \o <<ES(LocalBase(r, fc), n, Lo12(fc))>> \in Seq(Without(q))
<1>1. q \in Regs \ {t0}
  BY DEF KeptRegs, Regs, t0, ra, sp, s0
<1>2. LocalCode(r, fc) \in Seq(Without(q)) /\ LocalBase(r, fc) \in Regs
  BY <1>1, LocalCodeIs
<1>3. Lo12(fc) \in WordsOf(64) /\ n \in Nat
  <2>1. 12 \in 1..32
    OBVIOUS
  <2> QED
    BY <2>1, SextShort DEF Lo12, Dests
<1>4. "ld" \in Loads /\ "addi" \in Loads
  BY DEF Loads
<1> DEFINE b == LocalBase(r, fc)
           o == Lo12(fc)
<1>5. b \in Regs /\ o \in WordsOf(64)
  BY <1>2, <1>3
<1> HIDE DEF b, o
<1>6. EI("ld", n, b, o) \in Without(q) /\ EI("addi", n, b, o) \in Without(q) /\ ES(b, n, o) \in Without(q)
  BY <1>3, <1>4, <1>5, InstrsAre
<1> QED
  BY <1>2, <1>6, ThenOne DEF b, o

LEMMA TargetIs ==
    ASSUME FrameType
    PROVE  \A r \in IntRegs[kind] \cup FloatRegs[kind] :
              /\ r \in Dests /\ r \in 0..17 \cup Dests
              /\ \A q \in KeptRegs : q # Target(r) => q # r
<1>1. ASSUME NEW r \in IntRegs[kind] PROVE r \in 10..17 /\ Target(r) = r
  BY <1>1, RegistersAre DEF Target
<1>2. ASSUME NEW r \in FloatRegs[kind] PROVE r \in 42..49 /\ Target(r) = 0
  BY <1>2, RegistersAre DEF Target
<1>3. \A q \in KeptRegs : q \notin 42..49
  BY DEF KeptRegs, ra, sp, s0
<1> QED
  BY <1>1, <1>2, <1>3 DEF Dests

LEMMA LoadLocalKeeps ==
    ASSUME FrameType, LoadLocal
    PROVE  Accessed
<1>1. PICK r, off : /\ r \in IntRegs[kind] \cup FloatRegs[kind]
                    /\ Access(RunFrom(Cpu, LocalCode(r, W32(off))
                                  \o <<EI("ld", r, LocalBase(r, W32(off)), Lo12(W32(off)))>>),
                              Target(r), LocalAt(off), Unknown)
  BY Zenon DEF LoadLocal, Run
<1>2. r \in Dests /\ \A q \in KeptRegs : q # Target(r) => q # r
  BY <1>1, TargetIs
<1>3. \A q \in KeptRegs : q = 0 \/ q # Target(r) =>
         LocalCode(r, W32(off)) \o <<EI("ld", r, LocalBase(r, W32(off)), Lo12(W32(off)))>>
             \in Seq(Without(q))
  BY <1>2, LocalAccessIs
<1> QED
  BY <1>1, <1>3, CpuIs, AccessKeeps

LEMMA AddressOfLocalKeeps ==
    ASSUME FrameType, AddressOfLocal
    PROVE  Accessed
<1>1. PICK r, off : /\ r \in IntRegs[kind]
                    /\ Access(RunFrom(Cpu, LocalCode(r, W32(off))
                                  \o <<EI("addi", r, LocalBase(r, W32(off)), Lo12(W32(off)))>>),
                              r, {}, Known(LocalAt(off)))
  BY Zenon DEF AddressOfLocal, Run
<1>2. r \in Dests
  BY <1>1, TargetIs
<1>3. \A q \in KeptRegs : q = 0 \/ q # r =>
         LocalCode(r, W32(off)) \o <<EI("addi", r, LocalBase(r, W32(off)), Lo12(W32(off)))>>
             \in Seq(Without(q))
  BY <1>2, LocalAccessIs
<1> QED
  BY <1>1, <1>3, CpuIs, AccessKeeps

LEMMA StoreLocalKeeps ==
    ASSUME FrameType, StoreLocal
    PROVE  Accessed
<1>1. PICK r, off : /\ r \in IntRegs[kind] \cup FloatRegs[kind]
                    /\ Access(RunFrom(Cpu, LocalCode(0, W32(off))
                                  \o <<ES(LocalBase(0, W32(off)), r, Lo12(W32(off)))>>),
                              0, LocalAt(off), Unknown)
  BY Zenon DEF StoreLocal, Run
<1>2. r \in Dests
  BY <1>1, TargetIs
<1>3. \A q \in KeptRegs : q # r \/ q = 0 =>
         LocalCode(0, W32(off)) \o <<ES(LocalBase(0, W32(off)), r, Lo12(W32(off)))>>
             \in Seq(Without(q))
  BY <1>2, LocalAccessIs
<1>4. \A q \in KeptRegs :
         LocalCode(0, W32(off)) \o <<ES(LocalBase(0, W32(off)), r, Lo12(W32(off)))>>
             \in Seq(Without(q))
  <2> TAKE q \in KeptRegs
  <2>1. CASE q # r
    BY <1>3, <2>1
  <2>2. CASE q = r
    <3>1. q \in Regs \ {t0} /\ q # 0
      BY <1>2, <2>2 DEF KeptRegs, Regs, t0, ra, sp, s0, Dests
    <3>2. LocalCode(0, W32(off)) \in Seq(Without(q)) /\ LocalBase(0, W32(off)) \in Regs
      BY <3>1, LocalCodeIs
    <3>3. Lo12(W32(off)) \in WordsOf(64) /\ r \in Nat
      <4>1. 12 \in 1..32
        OBVIOUS
      <4> QED
        BY <1>2, <4>1, SextShort DEF Lo12, Dests
    <3> DEFINE b == LocalBase(0, W32(off))
               o == Lo12(W32(off))
    <3>4. b \in Regs /\ o \in WordsOf(64)
      BY <3>2, <3>3
    <3> HIDE DEF b, o
    <3>5. ES(b, r, o) \in Without(q)
      BY <3>3, <3>4 DEF ES, Without, Instrs
    <3> QED
      BY <3>2, <3>5, ThenOne DEF b, o
  <2> QED
    BY <2>1, <2>2
<1> QED
  BY <1>1, <1>4, CpuIs, AccessKeeps

\* One instruction, by a register.
LEMMA OneIs ==
    ASSUME NEW q, NEW i \in Without(q)
    PROVE  <<i>> \in Seq(Without(q))
OBVIOUS

LEMMA EmptyIs == {} \in WordsOf(64)
BY DEF WordsOf

LEMMA LoadByRegisterKeeps ==
    ASSUME FrameType, LoadByRegister
    PROVE  Accessed
<1>1. PICK r, v : /\ r \in IntRegs[kind] \cup FloatRegs[kind] /\ v \in IntRegs[kind]
                  /\ Access(RunFrom(Cpu, <<EI("ld", r, v, {})>>), Target(r), reg[v], Unknown)
  BY Zenon DEF LoadByRegister, Run
<1>2. r \in Nat /\ v \in Regs /\ \A q \in KeptRegs : q # Target(r) => q # r
  BY <1>1, TargetIs, RegistersAre DEF Dests
<1>3. \A q \in KeptRegs : q = 0 \/ q # Target(r) => <<EI("ld", r, v, {})>> \in Seq(Without(q))
  BY <1>2, InstrsAre, OneIs, EmptyIs DEF Loads
<1> QED
  BY <1>1, <1>3, CpuIs, AccessKeeps

LEMMA StoreByRegisterKeeps ==
    ASSUME FrameType, StoreByRegister
    PROVE  Accessed
<1>1. PICK r, v : /\ r \in IntRegs[kind] \cup FloatRegs[kind] /\ v \in IntRegs[kind]
                  /\ Access(RunFrom(Cpu, <<ES(v, r, {})>>), 0, reg[v], Unknown)
  BY Zenon DEF StoreByRegister, Run
<1>2. r \in Nat /\ v \in Regs
  BY <1>1, TargetIs, RegistersAre DEF Dests
<1>3. \A q \in KeptRegs : <<ES(v, r, {})>> \in Seq(Without(q))
  <2> TAKE q \in KeptRegs
  <2>1. ES(v, r, {}) \in Without(q)
    BY <1>2, EmptyIs DEF ES, Without, Instrs
  <2> QED
    BY <2>1, OneIs
<1> QED
  BY <1>1, <1>3, CpuIs, AccessKeeps

LEMMA LoadAbsoluteKeeps ==
    ASSUME FrameType, LoadAbsolute
    PROVE  Accessed
<1>1. PICK r, c : /\ r \in AddressRegs
                  /\ Access(RunFrom(Cpu, AbsCode(Number(r), c)
                                \o <<EI("ld", r, Number(r), AbsOffset(c))>>), Target(r), c, Unknown)
  BY Zenon DEF LoadAbsolute, Run
<1>2. r \in Dests /\ Number(r) \in 10..17 /\ (~IsInt(r) => AbsFloats[kind])
  BY <1>1, RegistersAre
<1>3. \A q \in KeptRegs : q # Target(r) /\ q \notin Spoiled => q # r /\ q # Number(r)
  <2>1. CASE IsInt(r)
    BY <2>1 DEF Target, Number
  <2>2. CASE ~IsInt(r)
    <3>1. 10..17 \subseteq Spoiled
      BY <1>2, <2>2 DEF Spoiled
    <3>2. r \in 42..49
      BY <1>2, <2>2 DEF Dests, IsInt
    <3> QED
      BY <1>2, <3>1, <3>2 DEF KeptRegs, ra, sp, s0
  <2> QED
    BY <2>1, <2>2
<1>4. Number(r) \in Regs /\ r \in Nat
  BY <1>2 DEF Regs, Dests
<1>5. ASSUME NEW q \in KeptRegs, q = 0 \/ (q # Target(r) /\ q \notin Spoiled)
      PROVE  AbsCode(Number(r), c) \o <<EI("ld", r, Number(r), AbsOffset(c))>> \in Seq(Without(q))
  <2>1. q = 0 \/ (q # r /\ q # Number(r))
    BY <1>3, <1>5
  <2>2. AbsCode(Number(r), c) \in Seq(Without(q)) /\ AbsOffset(c) \in WordsOf(64)
    BY <1>4, <2>1, AbsCodeIs
  <2>3. EI("ld", r, Number(r), AbsOffset(c)) \in Without(q)
    BY <1>4, <2>1, <2>2, InstrsAre DEF Loads
  <2> QED
    BY <2>2, <2>3, ThenOne
<1> QED
  BY <1>1, <1>5, CpuIs, AccessKeeps

LEMMA StoreAbsoluteKeeps ==
    ASSUME FrameType, StoreAbsolute
    PROVE  Accessed
<1>1. PICK r, c : /\ r \in IntRegs[kind] \cup FloatRegs[kind]
                  /\ Access(RunFrom(Cpu, AbsCode(s0, c) \o <<ES(s0, r, AbsOffset(c))>>), 0, c, Unknown)
  BY Zenon DEF StoreAbsolute, Run
<1>2. r \in Nat /\ s0 \in Regs /\ s0 \in Spoiled
  BY <1>1, TargetIs DEF Dests, Regs, StoreAbsolute, Spoiled
<1>3. ASSUME NEW q \in KeptRegs, q = 0 \/ q \notin Spoiled
      PROVE  AbsCode(s0, c) \o <<ES(s0, r, AbsOffset(c))>> \in Seq(Without(q))
  <2>1. q = 0 \/ q # s0
    BY <1>2, <1>3
  <2>2. AbsCode(s0, c) \in Seq(Without(q)) /\ AbsOffset(c) \in WordsOf(64)
    BY <1>2, <2>1, AbsCodeIs
  <2>3. ES(s0, r, AbsOffset(c)) \in Without(q)
    BY <1>2, <2>2 DEF ES, Without, Instrs
  <2> QED
    BY <2>2, <2>3, ThenOne
<1> QED
  BY <1>1, <1>3, CpuIs, AccessKeeps

\* Where the locals are.
LEMMA LocalAtIs ==
    ASSUME FrameType, NEW off \in Int
    PROVE  FramePointer \in WordsOf(64) /\ W(off) \in WordsOf(64) /\ LocalAt(off) \in WordsOf(64)
<1>1. sp \in Regs /\ 64 \in Nat /\ 64 >= 32
  BY ZeroInRegs
<1>2. entry[sp] \in WordsOf(64) /\ Bits(num_va_regs * 8) \in WordsOf(64) /\ W(off) \in WordsOf(64)
  BY <1>1, BitsRange, WordIs DEF FrameType, W
<1>3. FramePointer \in WordsOf(64)
  BY <1>2, WordOps DEF FramePointer
<1> QED
  BY <1>2, <1>3, WordOps DEF LocalAt

\* The locals of a frame lie between its end and the saved registers.
LEMMA OffsetsLie ==
    ASSUME FrameType
    PROVE  /\ loc \in Int /\ -LargestFrame < loc /\ loc <= -16 /\ loc % 8 = 0
           /\ num_va_regs \in 0..8
           /\ \A off \in Locals : off \in Int /\ loc <= off /\ off <= -24
<1>1. kind \in FunctionKinds /\ loc \in Frames[kind] /\ num_va_regs \in VaRegs[kind]
  BY DEF FrameType
<1>2. /\ loc \in Int /\ -LargestFrame < loc /\ loc <= -16 /\ loc % 8 = 0
      /\ num_va_regs \in 0..8
  BY <1>1, FunctionAssumption, Zenon
<1>3. \A off \in Locals : off \in Int /\ loc <= off /\ off <= -24
  BY <1>2 DEF Locals
<1> QED
  BY <1>2, <1>3

SpilledCpu(off, p) == [Cpu EXCEPT !.mem = Store(@, LocalAt(off), p)]

LEMMA SpilledIs ==
    ASSUME FrameType, NEW off \in Int, NEW p \in WordsOf(64)
    PROVE  /\ SpilledCpu(off, p) \in CpuStates /\ SpilledCpu(off, p).reg = reg
           /\ SpilledCpu(off, p).mem = Store(mem, LocalAt(off), p)
           /\ SpilledCpu(off, p).ok = assert_ok
<1>1. Cpu \in CpuStates /\ Cpu.mem = mem /\ Cpu.reg = reg /\ Cpu.ok = assert_ok
  BY CpuIs
<1>2. Store(mem, LocalAt(off), p) \in Memories
  BY LocalAtIs, MemoryIs DEF FrameType
<1> HIDE DEF Cpu
<1> QED
  BY <1>1, <1>2 DEF SpilledCpu, CpuStates

LEMMA LoadSpilledIs ==
    ASSUME LoadSpilled
    PROVE  \E r \in AddressRegs, off \in Locals, p \in Addresses[kind] :
              Access(RunFrom(SpilledCpu(off, p),
                             LocalCode(r, W32(off))
                                 \o <<EI("ld", Number(r), LocalBase(r, W32(off)), Lo12(W32(off))),
                                      EI("ld", r, Number(r), {})>>), Target(r), p, Unknown)
BY Zenon DEF LoadSpilled, SpilledCpu

\* Two instructions are one and one.
LEMMA ThenTwo ==
    ASSUME NEW T, NEW code \in Seq(T), NEW i \in T, NEW j \in T
    PROVE  code \o <<i, j>> = (code \o <<i>>) \o <<j>> /\ code \o <<i, j>> \in Seq(T)
<1>1. code \o <<i, j>> \in Seq(T) /\ (code \o <<i>>) \o <<j>> \in Seq(T)
  OBVIOUS
<1> DEFINE a == code \o <<i, j>>
           b == (code \o <<i>>) \o <<j>>
           n == Len(code)
<1>2. n \in Nat /\ Len(<<i, j>>) = 2 /\ Len(<<i>>) = 1
  OBVIOUS
<1>3. Len(a) = n + 2 /\ Len(b) = n + 2
  OBVIOUS
<1>4. \A k \in 1..n : a[k] = code[k] /\ b[k] = code[k]
  OBVIOUS
<1>5. a[n + 1] = i /\ b[n + 1] = i /\ a[n + 2] = j /\ b[n + 2] = j
  OBVIOUS
<1>6. \A k \in 1..n + 2 : k \in 1..n \/ k = n + 1 \/ k = n + 2
  BY <1>2
<1> HIDE DEF a, b, n
<1>7. \A k \in 1..n + 2 : a[k] = b[k]
  <2> TAKE k \in 1..n + 2
  <2>1. CASE k \in 1..n
    BY <1>4, <2>1
  <2>2. CASE k = n + 1
    BY <1>5, <2>2
  <2>3. CASE k = n + 2
    BY <1>5, <2>3
  <2> QED
    BY <1>6, <2>1, <2>2, <2>3
<1>8. a = b
  <2>1. a \in Seq(T) /\ b \in Seq(T) /\ Len(a) = Len(b)
    BY <1>1, <1>3 DEF a, b
  <2>2. \A k \in 1..Len(a) : a[k] = b[k]
    BY <1>3, <1>7
  <2>3. \A s, t \in Seq(T) : Len(s) = Len(t) /\ (\A k \in 1..Len(s) : s[k] = t[k]) => s = t
    OBVIOUS
  <2> QED
    BY <2>1, <2>2, <2>3, Zenon
<1> QED
  BY <1>1, <1>8 DEF a, b

LEMMA LoadSpilledKeeps ==
    ASSUME FrameType, LoadSpilled
    PROVE  Accessed
<1>1. PICK r \in AddressRegs, off \in Locals, p \in Addresses[kind] :
              Access(RunFrom(SpilledCpu(off, p),
                             LocalCode(r, W32(off))
                                 \o <<EI("ld", Number(r), LocalBase(r, W32(off)), Lo12(W32(off))),
                                      EI("ld", r, Number(r), {})>>), Target(r), p, Unknown)
  BY LoadSpilledIs
<1>2. r \in Dests /\ Number(r) \in 10..17 /\ (~IsInt(r) => AbsFloats[kind])
  BY <1>1, RegistersAre
<1>3. \A q \in KeptRegs : q # Target(r) /\ q \notin Spoiled => q # r /\ q # Number(r)
  <2>1. CASE IsInt(r)
    BY <2>1 DEF Target, Number
  <2>2. CASE ~IsInt(r)
    <3>1. 10..17 \subseteq Spoiled
      BY <1>2, <2>2 DEF Spoiled
    <3>2. r \in 42..49
      BY <1>2, <2>2 DEF Dests, IsInt
    <3> QED
      BY <1>2, <3>1, <3>2 DEF KeptRegs, ra, sp, s0
  <2> QED
    BY <2>1, <2>2
<1>4. Number(r) \in Regs /\ r \in Nat /\ Number(r) \in 0..17 \cup Dests
  BY <1>2 DEF Regs, Dests
<1>5. SpilledCpu(off, p) \in CpuStates /\ SpilledCpu(off, p).reg = reg
  <2>1. off \in Int /\ p \in WordsOf(64)
    BY <1>1, OffsetsLie, RegistersAre
  <2> QED
    BY <2>1, SpilledIs
<1> DEFINE i == EI("ld", Number(r), LocalBase(r, W32(off)), Lo12(W32(off)))
           j == EI("ld", r, Number(r), {})
           code == LocalCode(r, W32(off))
<1>6. ASSUME NEW q \in KeptRegs, q = 0 \/ (q # Target(r) /\ q \notin Spoiled)
      PROVE  code \o <<i, j>> \in Seq(Without(q))
  <2>1. q = 0 \/ (q # r /\ q # Number(r))
    BY <1>3, <1>6
  <2>2. q \in Regs \ {t0}
    BY DEF KeptRegs, Regs, t0, ra, sp, s0
  <2>3. code \in Seq(Without(q)) /\ LocalBase(r, W32(off)) \in Regs
    BY <1>2, <2>1, <2>2, LocalCodeIs
  <2>4. Lo12(W32(off)) \in WordsOf(64)
    <3>1. 12 \in 1..32
      OBVIOUS
    <3> QED
      BY <3>1, SextShort DEF Lo12
  <2>5. i \in Without(q) /\ j \in Without(q)
    <3> DEFINE b == LocalBase(r, W32(off))
               o == Lo12(W32(off))
               m == Number(r)
    <3>1. b \in Regs /\ o \in WordsOf(64) /\ m \in Regs /\ m \in Nat
      BY <1>2, <1>4, <2>3, <2>4
    <3>2. q = 0 \/ (q # r /\ q # m)
      BY <2>1
    <3> HIDE DEF b, o, m
    <3>3. EI("ld", m, b, o) \in Without(q) /\ EI("ld", r, m, {}) \in Without(q)
      BY <1>4, <3>1, <3>2, InstrsAre, EmptyIs DEF Loads
    <3> QED
      BY <3>3 DEF b, o, m
  <2> HIDE DEF i, j, code
  <2> QED
    BY <2>3, <2>5, ThenTwo
<1> QED
  BY <1>1, <1>5, <1>6, AccessKeeps

-----------------------------------------------------------------------------
(* The frame *)

\* The sizes that FunctionAssumption admits.
IsFrame(l, nv) == l \in Int /\ -LargestFrame < l /\ l <= -16 /\ l % 8 = 0 /\ nv \in 0..8

LEMMA FrameNumbers ==
    ASSUME NEW l, NEW nv, IsFrame(l, nv),
           NEW v, v = FrameSize(l, nv), NEW e, e = d(l, nv)
    PROVE  /\ v \in Nat /\ v % 16 = 0 /\ nv * 8 - l <= v /\ v <= nv * 8 - l + 15
           /\ e \in Nat /\ 16 <= e /\ e < 2048 /\ e % 16 = 0
           /\ FrameBase(l, nv) = e - nv * 8
           /\ TwoSteps(v) => e = 16 /\ v - 16 \in Nat
           /\ ~TwoSteps(v) => v = e
           /\ v \in Offsets /\ v - 16 \in Offsets /\ e \in Offsets /\ nv * 8 \in Offsets
           /\ -e \in Offsets /\ l \in Offsets
<1>0. l \in Int /\ -LargestFrame < l /\ l <= -16 /\ nv \in 0..8
  BY DEF IsFrame
<1>1. v \in Nat /\ v % 16 = 0 /\ nv * 8 - l <= v /\ v <= nv * 8 - l + 15 /\ 16 <= v
  BY <1>0, SMT DEF FrameSize
<1>2. e = IF v >= 2048 THEN 16 ELSE v
  BY SMT DEF d, TwoSteps
<1>3. FrameBase(l, nv) = e - nv * 8
  BY <1>0 DEF FrameBase
<1>4. TwoSteps(v) <=> v >= 2048
  BY DEF TwoSteps
<1>5. v < 536871200
  BY <1>0, <1>1, SMT DEF LargestFrame
<1>6. e \in Nat /\ 16 <= e /\ e < 2048 /\ e % 16 = 0
  BY <1>1, <1>2
<1>7. v \in Offsets /\ v - 16 \in Offsets
  BY <1>1, <1>5, SMT DEF Offsets
<1>8. e \in Offsets /\ nv * 8 \in Offsets /\ -e \in Offsets
  BY <1>0, <1>6, SMT DEF Offsets
<1>9. l \in Offsets
  BY <1>0, SMT DEF Offsets, LargestFrame
<1>10. (TwoSteps(v) => e = 16 /\ v - 16 \in Nat) /\ (~TwoSteps(v) => v = e)
  <2>1. CASE v >= 2048
    BY <1>1, <1>2, <1>4, <2>1, SMT
  <2>2. CASE v < 2048
    BY <1>1, <1>2, <1>4, <2>2, SMT
  <2> QED
    BY <1>1, <2>1, <2>2, SMT
<1> QED
  BY <1>0, <1>1, <1>3, <1>6, <1>7, <1>8, <1>9, <1>10, SMT

LEMMA Words64 ==
    ASSUME NEW n \in Int
    PROVE  W32(n) \in WordsOf(32) /\ W32(n) \in WordsOf(64) /\ W(n) \in WordsOf(64)
<1>1. W32(n) \in WordsOf(32) /\ W(n) \in WordsOf(64)
  BY WordIs DEF W, W32
<1> QED
  BY <1>1, Words32

LEMMA SecondStepIs ==
    ASSUME NEW v \in Int
    PROVE  SecondStep(v) \in Seq(Instrs) /\ Instrs = Without(0)
<1> DEFINE fc == W32(v - 16)
<1> HIDE DEF fc
<1>3. Lui(t0, Upper(fc)) \in Without(0) /\ EI("addi", t0, t0, Lo12(fc)) \in Without(0)
  <2>1. Lo12(fc) \in WordsOf(64) /\ Upper(fc) \in WordsOf(64)
    <3>1. 12 \in 1..32
      OBVIOUS
    <3>2. Upper(fc) \in WordsOf(64)
      BY DEF Upper, WordsOf
    <3> QED
      BY <3>1, <3>2, SextShort DEF Lo12
  <2>2. t0 \in Regs /\ t0 \in Nat /\ 0 \in Nat
    BY DEF t0, Regs
  <2> QED
    BY <2>1, <2>2, InstrsAre DEF Loads
<1>4. Instrs = Without(0)
  BY DEF Without
<1>5. SecondStep(v) = <<Lui(t0, Upper(fc)), EI("addi", t0, t0, Lo12(fc))>>
  BY DEF SecondStep, fc
<1>6. <<Lui(t0, Upper(fc)), EI("addi", t0, t0, Lo12(fc))>> \in Seq(Instrs)
  BY <1>3, <1>4
<1> QED
  BY <1>4, <1>5, <1>6

\* The instructions of a frame that a stack pointer and a frame pointer take.
LEMMA FrameInstrs ==
    ASSUME NEW n \in Int, NEW r \in Regs
    PROVE  /\ EI("addi", sp, sp, W32(n)) \in Instrs /\ EI("addi", s0, sp, W32(n)) \in Instrs
           /\ ES(sp, r, W32(n)) \in Instrs /\ EI("ld", r, sp, W32(n)) \in Instrs
           /\ \A op \in {"sub", "add"} : ER(op, sp, sp, t0) \in Instrs
           /\ \A k \in Nat : ES(s0, k, W32(n)) \in Instrs
<1>1. W32(n) \in WordsOf(64) /\ Instrs = Without(0) /\ r \in Nat /\ {} \in WordsOf(64)
  BY Words64, RegsAreNumbers, EmptyIs DEF Without
<1>2. sp \in Regs /\ s0 \in Regs /\ t0 \in Regs /\ sp \in Nat /\ s0 \in Nat /\ t0 \in Nat /\ 0 \in Nat
  BY DEF Regs, sp, s0, t0
<1>3. \A op \in {"addi", "ld"} : op \in Loads
  BY DEF Loads
<1>4. EI("addi", sp, sp, W32(n)) \in Instrs /\ EI("addi", s0, sp, W32(n)) \in Instrs
  BY <1>1, <1>2, <1>3, InstrsAre
<1>5. ES(sp, r, W32(n)) \in Instrs /\ EI("ld", r, sp, W32(n)) \in Instrs
  BY <1>1, <1>2, <1>3, InstrsAre
<1>6. \A op \in {"sub", "add"} : ER(op, sp, sp, t0) \in Instrs
  BY <1>1, <1>2 DEF ER, Instrs
<1>7. \A k \in Nat : ES(s0, k, W32(n)) \in Instrs
  BY <1>1, <1>2 DEF ES, Instrs
<1> QED
  BY <1>4, <1>5, <1>6, <1>7

LEMMA PrologueIs ==
    ASSUME NEW l, NEW nv, IsFrame(l, nv)
    PROVE  /\ Prologue(l, nv) \in Seq(Instrs) /\ SpillVa(nv) \in Seq(Instrs)
           /\ Epilogue(l, nv) \in Seq(Instrs)
<1> DEFINE v == FrameSize(l, nv)
           e == d(l, nv)
           b == FrameBase(l, nv)
<1>0. nv \in 0..8
  BY DEF IsFrame
<1>1. v \in Nat /\ e \in Nat /\ b \in Int
  <2>1. v = FrameSize(l, nv) /\ e = d(l, nv) /\ b = FrameBase(l, nv)
    OBVIOUS
  <2> HIDE DEF v, e, b
  <2>2. v \in Nat /\ e \in Nat /\ b = e - nv * 8
    BY <2>1, FrameNumbers
  <2> QED
    BY <1>0, <2>2
<1>2. ra \in Regs /\ s0 \in Regs
  BY ZeroInRegs
<1>3. SecondStep(v) \in Seq(Instrs)
  BY <1>1, SecondStepIs
<1> HIDE DEF v, e, b
<1>4. -e \in Int /\ b - 8 \in Int /\ b - 16 \in Int
  BY <1>1
<1>5. <<EI("addi", sp, sp, W32(-e)), ES(sp, ra, W32(b - 8)), ES(sp, s0, W32(b - 16)),
        EI("addi", s0, sp, W32(b))>> \in Seq(Instrs)
  <2>1. PICK i, j, k, m : /\ i = EI("addi", sp, sp, W32(-e)) /\ j = ES(sp, ra, W32(b - 8))
                          /\ k = ES(sp, s0, W32(b - 16)) /\ m = EI("addi", s0, sp, W32(b))
    OBVIOUS
  <2>2. i \in Instrs /\ j \in Instrs /\ k \in Instrs /\ m \in Instrs
    BY <1>1, <1>2, <1>4, <2>1, FrameInstrs
  <2> QED
    BY <2>1, <2>2
<1>6. <<EI("ld", ra, sp, W32(b - 8)), EI("ld", s0, sp, W32(b - 16)),
        EI("addi", sp, sp, W32(e))>> \in Seq(Instrs)
  <2>1. PICK i, j, k : /\ i = EI("ld", ra, sp, W32(b - 8)) /\ j = EI("ld", s0, sp, W32(b - 16))
                       /\ k = EI("addi", sp, sp, W32(e))
    OBVIOUS
  <2>2. i \in Instrs /\ j \in Instrs /\ k \in Instrs
    BY <1>1, <1>2, <1>4, <2>1, FrameInstrs
  <2> QED
    BY <2>1, <2>2
<1>7. <<ER("sub", sp, sp, t0)>> \in Seq(Instrs) /\ <<ER("add", sp, sp, t0)>> \in Seq(Instrs)
  <2>1. ER("sub", sp, sp, t0) \in Instrs /\ ER("add", sp, sp, t0) \in Instrs
    BY <1>1, <1>2, FrameInstrs
  <2> QED
    BY <2>1
<1>8. \A x, y \in Seq(Instrs) : x \o y \in Seq(Instrs)
  OBVIOUS
<1>9. <<>> \in Seq(Instrs)
  OBVIOUS
<1>10. Prologue(l, nv) \in Seq(Instrs)
  BY <1>3, <1>5, <1>7, <1>8, <1>9, Zenon DEF Prologue, v, e, b
<1>11. Epilogue(l, nv) \in Seq(Instrs)
  BY <1>3, <1>6, <1>7, <1>8, <1>9, Zenon DEF Epilogue, v, e, b
<1>12. SpillVa(nv) \in Seq(Instrs)
  <2>1. \A k \in 1..nv : ES(s0, 18 - nv + k - 1, W32(-8 + k * 8)) \in Instrs
    <3> TAKE k \in 1..nv
    <3>1. 18 - nv + k - 1 \in Nat /\ -8 + k * 8 \in Int
      BY <1>0
    <3> QED
      BY <1>2, <3>1, FrameInstrs
  <2>2. nv \in Nat
    BY <1>0
  <2> DEFINE f(k) == ES(s0, 18 - nv + k - 1, W32(-8 + k * 8))
  <2>3. SpillVa(nv) = [k \in 1..nv |-> f(k)]
    BY DEF SpillVa
  <2> HIDE DEF f
  <2>4. \A k \in 1..nv : f(k) \in Instrs
    BY <2>1 DEF f
  <2>5. [k \in 1..nv |-> f(k)] \in Seq(Instrs)
    BY <2>2, <2>4
  <2> QED
    BY <2>3, <2>5
<1> QED
  BY <1>10, <1>11, <1>12

-----------------------------------------------------------------------------
(* The steps *)

LEMMA FrameIs ==
    ASSUME FrameType
    PROVE  IsFrame(loc, num_va_regs)
BY OffsetsLie DEF IsFrame

LEMMA EntryIs == FrameInit => FrameType
<1> SUFFICES ASSUME FrameInit PROVE FrameType
  OBVIOUS
<1>1. /\ kind \in FunctionKinds /\ loc \in Frames[kind] /\ num_va_regs \in VaRegs[kind]
      /\ phase = "entry" /\ steps = 0 /\ assert_ok = TRUE /\ entry = reg /\ mem = <<>>
  BY DEF FrameInit
<1>2. reg = [r \in Regs |-> CASE r = 0 -> {} [] r = sp -> EntrySp [] OTHER -> {r, 40}]
  BY DEF FrameInit
<1>3. \A r \in Regs : (CASE r = 0 -> {} [] r = sp -> EntrySp [] OTHER -> {r, 40}) \in WordsOf(64)
  <2> TAKE r \in Regs
  <2>1. EntrySp \in WordsOf(64) /\ {} \in WordsOf(64)
    BY FunctionAssumption DEF WordsOf
  <2>2. {r, 40} \in WordsOf(64)
    BY DEF Regs, WordsOf, ra, sp, t0, s0
  <2> QED
    BY <2>1, <2>2
<1>4. reg \in [Regs -> WordsOf(64)]
  BY <1>2, <1>3
<1>5. reg[0] = {}
  <2> DEFINE f(r) == CASE r = 0 -> {} [] r = sp -> EntrySp [] OTHER -> {r, 40}
  <2>1. f(0) = {}
    BY DEF sp
  <2>2. reg = [r \in Regs |-> f(r)]
    BY <1>2
  <2> HIDE DEF f
  <2> QED
    BY <2>1, <2>2, ZeroInRegs
<1>6. mem \in Memories
  <2>1. <<>> \in [{} -> WordsOf(64)] /\ {} \in SUBSET WordsOf(64)
    OBVIOUS
  <2> QED
    BY <1>1, <2>1 DEF Memories
<1> QED
  BY <1>1, <1>4, <1>5, <1>6 DEF FrameType

\* A code run on the state as it is.
LEMMA RunIsTyped ==
    ASSUME FrameType, NEW code \in Seq(Instrs), NEW S, S = Run(code)
    PROVE  S \in CpuStates /\ S.reg[0] = {}
<1>1. Cpu \in CpuStates /\ Cpu.reg[0] = {}
  BY CpuIs DEF FrameType
<1>2. Instrs = Without(0) /\ 0 \in Regs
  BY ZeroInRegs DEF Without
<1> QED
  BY <1>1, <1>2, RunKeeps DEF Run

LEMMA EnterIs ==
    ASSUME FrameType, Enter
    PROVE  FrameType'
<1> DEFINE S == Run(Prologue(loc, num_va_regs) \o SpillVa(num_va_regs))
<1>1. reg' = S.reg /\ mem' = S.mem /\ assert_ok' = S.ok
  BY DEF Enter
<1>2. phase' = "body" /\ UNCHANGED <<loc, num_va_regs, entry, steps, kind>>
  BY DEF Enter
<1>3. Prologue(loc, num_va_regs) \o SpillVa(num_va_regs) \in Seq(Instrs)
  BY FrameIs, PrologueIs
<1> HIDE DEF S
<1>4. S \in CpuStates /\ S.reg[0] = {}
  BY <1>3, RunIsTyped DEF S
<1> QED
  BY <1>1, <1>2, <1>4 DEF FrameType, CpuStates

LEMMA LeaveIs ==
    ASSUME FrameType, Leave
    PROVE  FrameType' /\ phase' = "returned"
<1> DEFINE S == Run(Epilogue(loc, num_va_regs))
<1>1. reg' = S.reg /\ mem' = S.mem /\ assert_ok' = S.ok
  BY DEF Leave
<1>2. phase' = "returned" /\ UNCHANGED <<loc, num_va_regs, entry, steps, kind>>
  BY DEF Leave
<1>3. Epilogue(loc, num_va_regs) \in Seq(Instrs)
  BY FrameIs, PrologueIs
<1> HIDE DEF S
<1>4. S \in CpuStates /\ S.reg[0] = {}
  BY <1>3, RunIsTyped DEF S
<1> QED
  BY <1>1, <1>2, <1>4 DEF FrameType, CpuStates

\* Every access keeps the type and the registers of others.
LEMMA AccessesKeep ==
    ASSUME FrameType,
           LoadConst \/ LoadLocal \/ AddressOfLocal \/ LoadSpilled \/ LoadByRegister
               \/ LoadAbsolute \/ StoreLocal \/ StoreByRegister \/ StoreAbsolute
    PROVE  Accessed
BY LoadConstKeeps, LoadLocalKeeps, AddressOfLocalKeeps, LoadSpilledKeeps, LoadByRegisterKeeps,
   LoadAbsoluteKeeps, StoreLocalKeeps, StoreByRegisterKeeps, StoreAbsoluteKeeps

LEMMA StepIs ==
    ASSUME FrameType, [FrameNext]_frameVars
    PROVE  /\ FrameType'
           /\ phase = "body" /\ phase' = "body" => Accessed \/ UNCHANGED frameVars
<1>1. CASE Enter
  BY <1>1, EnterIs DEF Enter
<1>2. CASE Leave
  BY <1>2, LeaveIs
<1>3. CASE Accessed
  BY <1>3 DEF Accessed, FrameType
<1>4. CASE UNCHANGED frameVars
  BY <1>4 DEF FrameType, frameVars
<1> QED
  BY <1>1, <1>2, <1>3, <1>4, AccessesKeep DEF FrameNext

\* The registers hold words, and memory holds words at words, whatever code runs.
THEOREM FrameTyped == FrameSpec => []FrameType
<1>1. FrameType /\ [FrameNext]_frameVars => FrameType'
  BY StepIs
<1> QED
  BY <1>1, EntryIs, PTL DEF FrameSpec

\* Whatever a function loads and stores, in whatever order: the code of one access leaves
\* all registers alone but the one it loads, as long as no address is formed in another.
THEOREM OthersStay == FrameSpec => OthersMostlyKept
<1>1. FrameType /\ [FrameNext]_frameVars =>
         [phase = "body" /\ phase' = "body" /\ ~AbsStores[kind] /\ ~AbsFloats[kind] =>
            \A r \in {ra, sp, s0} \cup 10..17 : r # last'.target => reg'[r] = reg[r]]_frameVars
  <2> SUFFICES ASSUME FrameType, [FrameNext]_frameVars, phase = "body", phase' = "body",
                      ~AbsStores[kind], ~AbsFloats[kind], ~UNCHANGED frameVars
               PROVE  \A r \in {ra, sp, s0} \cup 10..17 : r # last'.target => reg'[r] = reg[r]
    OBVIOUS
  <2>1. Accessed
    BY StepIs
  <2>2. Spoiled = {}
    BY DEF Spoiled
  <2> QED
    BY <2>1, <2>2 DEF Accessed, KeptRegs
<1> QED
  BY <1>1, FrameTyped, PTL DEF FrameSpec, OthersMostlyKept

-----------------------------------------------------------------------------
(* The prologue *)

Immediates == {n \in Int : -2048 < n /\ n < 2048}

LEMMA ImmIs ==
    ASSUME NEW n \in Immediates
    PROVE  /\ n \in Int /\ n \in Offsets /\ ImmFits(W32(n)) /\ W32(n) \in WordsOf(64)
           /\ Sext(64, W32(n), 12) = W(n) /\ W(n) \in WordsOf(64)
<1>1. n \in Int /\ -2048 < n /\ n < 2048
  BY DEF Immediates
<1>2. n \in Offsets
  BY <1>1, SMT DEF Offsets
<1>3. Sext(64, W32(n), 12) = W(n)
  <2>1. PICK w \in Nat, v \in Nat : w = 64 /\ v = 32
    OBVIOUS
  <2>2. Sext(w, Word(v, n), 12) = Word(w, n)
    BY <1>1, <1>2, <2>1, SextOfWord
  <2> QED
    BY <2>1, <2>2 DEF W, W32
<1>4. Sext(32, W32(n), 12) = W32(n)
  <2>1. PICK w \in Nat : w = 32
    OBVIOUS
  <2>2. Sext(w, Word(w, n), 12) = Word(w, n)
    BY <1>1, <1>2, <2>1, SextOfWord
  <2> QED
    BY <2>1, <2>2 DEF W32
<1>5. W32(n) \in WordsOf(32) /\ W32(n) \in WordsOf(64) /\ W(n) \in WordsOf(64)
  BY <1>1, Words64
<1>6. ImmFits(W32(n))
  BY <1>4, <1>5, SignedFits
<1> QED
  BY <1>1, <1>2, <1>3, <1>5, <1>6

LEMMA Sums ==
    ASSUME NEW a \in WordsOf(64), NEW i \in Offsets, NEW j \in Offsets
    PROVE  Plus(64, Plus(64, a, W(i)), W(j)) = Plus(64, a, W(i + j))
<1>1. i \in Int /\ j \in Int
  BY OffsetsAre
<1>2. W(i) \in WordsOf(64) /\ W(j) \in WordsOf(64)
  BY <1>1, Words64
<1>3. W(i + j) = Plus(64, W(i), W(j))
  BY WordPlus DEF W
<1> QED
  BY <1>2, <1>3, PlusAssociates

LEMMA Differences ==
    ASSUME NEW a \in WordsOf(64), NEW i \in Offsets
    PROVE  /\ i >= 0 => Minus(64, a, W(i)) = Plus(64, a, W(-i))
           /\ i >= 0 => Minus(64, a, Bits(i)) = Plus(64, a, W(-i))
           /\ W(i) \in WordsOf(64) /\ Plus(64, a, W(i)) \in WordsOf(64)
<1>1. i \in Int
  BY OffsetsAre
<1>2. W(i) \in WordsOf(64)
  BY <1>1, Words64
<1>3. ASSUME i >= 0
      PROVE  Minus(64, a, W(i)) = Plus(64, a, W(-i)) /\ Minus(64, a, Bits(i)) = Plus(64, a, W(-i))
  <2>1. W(i) = Bits(i) /\ i \in Nat
    BY <1>1, <1>3 DEF W, Word
  <2> QED
    BY <2>1, MinusBits DEF W
<1> QED
  BY <1>2, <1>3, WordOps

\* t0 gets a number of 32 bits.
LEMMA SecondDoes ==
    ASSUME NEW S \in CpuStates, NEW v \in Int, v - 16 \in Offsets, v - 16 >= 0,
           NEW T, T = RunFrom(S, SecondStep(v))
    PROVE  Only(S, T, t0) /\ T.ok = S.ok /\ T.reg[t0] = W(v - 16)
<1> DEFINE fc == W32(v - 16)
           i == Lui(t0, Upper(fc))
           j == EI("addi", t0, t0, Lo12(fc))
           E == Exec(S, i)
<1>1. T = Exec(E, j)
  BY RunTwo DEF SecondStep
<1>2. fc \in WordsOf(32) /\ 30 \notin fc /\ Sext(64, fc, 32) = W(v - 16)
  <2>1. PICK w \in Nat, u \in Nat : w = 64 /\ u = 32
    OBVIOUS
  <2>2. Sext(w, Word(u, v - 16), u) = Word(w, v - 16) /\ (30 \in Word(u, v - 16) <=> v - 16 < 0)
    BY <2>1, SextOfWord
  <2> QED
    BY <2>1, <2>2, Words64 DEF W, W32
<1> HIDE DEF fc
<1>3. Plus(64, Sext(64, Upper(fc) \cap 12..31, 32), Sext(64, Lo12(fc), 12)) = W(v - 16)
  BY <1>2, UpperLower
<1>4. ImmFits(Lo12(fc)) /\ Lo12(fc) \in WordsOf(64) /\ Upper(fc) \in WordsOf(64)
  <2>1. 12 \in 1..32
    OBVIOUS
  <2>2. Upper(fc) \in WordsOf(64)
    BY DEF Upper, WordsOf
  <2> QED
    BY <2>1, <2>2, LowerFits, SextShort DEF Lo12
<1>5. t0 \in Regs \ {0} /\ t0 \in Regs
  BY ZeroInRegs
<1>6. Only(S, E, t0) /\ E.ok = S.ok /\ E.reg[t0] = Sext(64, Upper(fc) \cap 12..31, 32)
  BY <1>4, <1>5, DoLui
<1>7. E \in CpuStates
  BY <1>6 DEF Only
<1> HIDE DEF E
<1>8. Only(E, T, t0) /\ T.ok = E.ok /\ T.reg[t0] = Plus(64, E.reg[t0], Sext(64, Lo12(fc), 12))
  BY <1>1, <1>4, <1>5, <1>7, DoAddi
<1> QED
  BY <1>3, <1>6, <1>8, OnlyTwice

Holds(m, a, w) == a \in DOMAIN m /\ m[a] = w

\* Stores change no register, and the memory at their addresses alone.
LEMMA StoresDo ==
    ASSUME NEW S \in CpuStates, NEW code \in Seq(Instrs), NEW A,
           \A k \in 1..Len(code) : /\ code[k].op = "s" /\ ImmediateFits(code[k])
                                   /\ Address(S, code[k]) \notin A,
           NEW T, T = RunFrom(S, code)
    PROVE  /\ T \in CpuStates /\ T.reg = S.reg /\ T.ok = S.ok
           /\ \A a \in A : \A w : Holds(S.mem, a, w) => Holds(T.mem, a, w)
<1>1. Len(code) \in Nat
  OBVIOUS
<1>2. PICK state : /\ state[0] = S
                   /\ \A n \in 1..Len(code) : state[n] = Exec(state[n - 1], code[n])
                   /\ RunFrom(S, code) = state[Len(code)]
  BY <1>1, RunTrace
<1> DEFINE Right(E) == /\ E \in CpuStates /\ E.reg = S.reg /\ E.ok = S.ok
                       /\ \A a \in A : \A w : Holds(S.mem, a, w) => Holds(E.mem, a, w)
           ok == {n \in 0..Len(code) : Right(state[n])}
<1>3. 0 \in ok
  BY <1>1, <1>2
<1>4. ASSUME NEW k \in Nat, k + 1 < Len(code) + 1, k \in ok PROVE k + 1 \in ok
  <2>1. k + 1 \in 1..Len(code) /\ (k + 1) - 1 = k /\ k + 1 \in 0..Len(code)
    BY <1>1, <1>4
  <2> DEFINE E == state[k]
             i == code[k + 1]
             F == state[k + 1]
  <2>2. F = Exec(E, i)
    BY <1>2, <2>1
  <2>3. i \in Instrs /\ i.op = "s" /\ ImmediateFits(i) /\ Address(S, i) \notin A
    BY <2>1
  <2>4. Right(E)
    BY <1>4
  <2> HIDE DEF E, i, F, ok
  <2>5. E \in CpuStates /\ E.reg = S.reg /\ E.ok = S.ok /\ E.mem \in Memories
    BY <2>4 DEF CpuStates
  <2>6. Address(E, i) = Address(S, i)
    BY <2>5 DEF Address
  <2>7. /\ F \in CpuStates /\ F.ok = E.ok
        /\ F.mem = Store(E.mem, Address(E, i), StoredValue(E, i))
        /\ Address(E, i) \in WordsOf(64) /\ StoredValue(E, i) \in WordsOf(64)
    BY <2>2, <2>3, <2>5, ExecIs DEF CpuStates
  <2>8. F.reg = E.reg
    BY <2>2, <2>3 DEF Exec
  <2>9. ASSUME NEW a \in A, NEW w, Holds(S.mem, a, w) PROVE Holds(F.mem, a, w)
    <3>1. Holds(E.mem, a, w) /\ a # Address(E, i)
      BY <2>3, <2>4, <2>6, <2>9
    <3>2. /\ DOMAIN F.mem = {Address(E, i)} \cup DOMAIN E.mem
          /\ \A b \in DOMAIN E.mem : b # Address(E, i) => F.mem[b] = E.mem[b]
      <4>1. PICK m, x, y : m = E.mem /\ x = Address(E, i) /\ y = StoredValue(E, i)
        OBVIOUS
      <4>2. m \in Memories /\ x \in WordsOf(64) /\ y \in WordsOf(64) /\ F.mem = Store(m, x, y)
        BY <2>5, <2>7, <4>1
      <4>3. /\ DOMAIN Store(m, x, y) = {x} \cup DOMAIN m
            /\ \A b \in DOMAIN m : b # x => Store(m, x, y)[b] = m[b]
        BY <4>2, MemoryIs
      <4> QED
        BY <4>1, <4>2, <4>3
    <3> QED
      BY <3>1, <3>2 DEF Holds
  <2>10. Right(F)
    BY <2>5, <2>7, <2>8, <2>9
  <2> QED
    BY <2>1, <2>10 DEF F, ok
<1>5. \A k \in 0..Len(code) : k \in ok
  <2>1. PICK w \in Nat : w = Len(code) + 1
    BY <1>1
  <2> HIDE DEF ok
  <2>2. \A k \in 0..w - 1 : k \in ok
    BY <1>3, <1>4, <2>1, BitInduction
  <2>3. w - 1 = Len(code)
    BY <1>1, <2>1
  <2> QED
    BY <2>2, <2>3
<1>6. Len(code) \in 0..Len(code)
  BY <1>1
<1> QED
  BY <1>2, <1>5, <1>6

LEMMA PlacesDiffer ==
    ASSUME NEW fp \in WordsOf(64), NEW i \in Offsets, NEW j \in Offsets, i # j
    PROVE  Plus(64, fp, W(i)) # Plus(64, fp, W(j))
<1>1. SUFFICES ASSUME Plus(64, fp, W(i)) = Plus(64, fp, W(j)) PROVE FALSE
  OBVIOUS
<1>2. W(i) \in WordsOf(64) /\ W(j) \in WordsOf(64)
  BY OffsetsAre, Words64
<1>3. Plus(64, W(i), fp) = Plus(64, W(j), fp)
  BY <1>1, PlusCommutes
<1>4. PICK w \in Nat : w = 64 /\ w >= 32
  OBVIOUS
<1>5. W(i) = W(j)
  BY <1>2, <1>3, <1>4, PlusCancels
<1> QED
  BY <1>4, <1>5, WordsDiffer DEF W

\* The instructions with the offsets that they hold.
LEMMA DoMove ==
    ASSUME NEW S \in CpuStates, NEW rd \in Regs \ {0}, NEW rs \in Regs, NEW n \in Immediates,
           NEW E, E = Exec(S, EI("addi", rd, rs, W32(n)))
    PROVE  Only(S, E, rd) /\ E.ok = S.ok /\ E.reg[rd] = Plus(64, S.reg[rs], W(n))
<1>1. PICK imm : imm = W32(n)
  OBVIOUS
<1>2. ImmFits(imm) /\ imm \in WordsOf(64) /\ Sext(64, imm, 12) = W(n)
  BY <1>1, ImmIs
<1>3. Only(S, E, rd) /\ E.ok = S.ok /\ E.reg[rd] = Plus(64, S.reg[rs], Sext(64, imm, 12))
  BY <1>1, <1>2, DoAddi
<1> QED
  BY <1>2, <1>3

LEMMA DoSave ==
    ASSUME NEW S \in CpuStates, NEW rs \in Regs, NEW r \in Regs, NEW n \in Immediates,
           NEW E, E = Exec(S, ES(rs, r, W32(n))), NEW a, a = Plus(64, S.reg[rs], W(n))
    PROVE  /\ E \in CpuStates /\ E.ok = S.ok /\ \A q \in Regs : E.reg[q] = S.reg[q]
           /\ Holds(E.mem, a, S.reg[r])
           /\ E.mem = Store(S.mem, a, S.reg[r]) /\ S.mem \in Memories /\ a \in WordsOf(64)
           /\ S.reg[r] \in WordsOf(64)
<1>1. PICK imm : imm = W32(n)
  OBVIOUS
<1>2. ImmFits(imm) /\ imm \in WordsOf(64) /\ Sext(64, imm, 12) = W(n) /\ r \in Nat
  BY <1>1, ImmIs, RegsAreNumbers
<1>3. /\ E \in CpuStates /\ E.ok = S.ok /\ E.addr = Plus(64, S.reg[rs], Sext(64, imm, 12))
      /\ \A q \in Regs : E.reg[q] = S.reg[q]
      /\ E.mem = Store(S.mem, E.addr, IF r \in Regs THEN S.reg[r] ELSE {})
  BY <1>1, <1>2, DoStore
<1>4. E.addr = a
  BY <1>2, <1>3
<1>5. PICK m, v : m = S.mem /\ v = S.reg[r]
  OBVIOUS
<1>6. m \in Memories /\ a \in WordsOf(64) /\ v \in WordsOf(64)
  BY <1>3, <1>4, <1>5 DEF CpuStates
<1>7. E.mem = Store(m, a, v)
  BY <1>3, <1>4, <1>5
<1>8. /\ DOMAIN Store(m, a, v) = {a} \cup DOMAIN m
      /\ \A b \in DOMAIN m : b # a => Store(m, a, v)[b] = m[b]
  BY <1>6, MemoryIs
<1>9. Store(m, a, v)[a] = v
  BY <1>6, MemoryIs
<1> QED
  BY <1>3, <1>5, <1>6, <1>7, <1>8, <1>9 DEF Holds

LEMMA SaveKeeps ==
    ASSUME NEW S \in CpuStates, NEW rs \in Regs, NEW r \in Regs, NEW n \in Immediates,
           NEW b, NEW w, b # Plus(64, S.reg[rs], W(n)), Holds(S.mem, b, w)
    PROVE  Holds(Exec(S, ES(rs, r, W32(n))).mem, b, w)
<1>1. PICK E, a, m, v : /\ E = Exec(S, ES(rs, r, W32(n))) /\ a = Plus(64, S.reg[rs], W(n))
                        /\ m = S.mem /\ v = S.reg[r]
  OBVIOUS
<1>2. E.mem = Store(m, a, v) /\ m \in Memories /\ a \in WordsOf(64) /\ v \in WordsOf(64)
  BY <1>1, DoSave
<1>3. /\ DOMAIN Store(m, a, v) = {a} \cup DOMAIN m
      /\ \A p \in DOMAIN m : p # a => Store(m, a, v)[p] = m[p]
  BY <1>2, MemoryIs
<1> QED
  BY <1>1, <1>2, <1>3 DEF Holds

LEMMA DoRestore ==
    ASSUME NEW S \in CpuStates, NEW rd \in Regs \ {0}, NEW rs \in Regs, NEW n \in Immediates,
           NEW E, E = Exec(S, EI("ld", rd, rs, W32(n))), NEW a, a = Plus(64, S.reg[rs], W(n))
    PROVE  /\ E \in CpuStates /\ E.mem = S.mem /\ E.ok = S.ok
           /\ \A q \in Regs : q # rd => E.reg[q] = S.reg[q]
           /\ a \in DOMAIN S.mem => E.reg[rd] = S.mem[a]
<1>1. PICK imm : imm = W32(n)
  OBVIOUS
<1>2. /\ ImmFits(imm) /\ imm \in WordsOf(64) /\ Sext(64, imm, 12) = W(n)
      /\ rd \in Regs \cup 42..49
  BY <1>1, ImmIs
<1>3. /\ E \in CpuStates /\ E.mem = S.mem /\ E.ok = S.ok
      /\ E.addr = Plus(64, S.reg[rs], Sext(64, imm, 12))
      /\ \A q \in Regs : q # rd \/ q = 0 => E.reg[q] = S.reg[q]
      /\ rd \in Regs \ {0} => E.reg[rd] = IF E.addr \in DOMAIN S.mem THEN S.mem[E.addr] ELSE {}
  BY <1>1, <1>2, DoLoad
<1> QED
  BY <1>2, <1>3

\* Where the return address and the caller's frame base are saved.
RaSlot(fp) == Plus(64, fp, W(-8))
S0Slot(fp) == Plus(64, fp, W(-16))

\* The first step: the saved registers and the frame base.
FirstCode(e, b) ==
    <<EI("addi", sp, sp, W32(-e)), ES(sp, ra, W32(b - 8)), ES(sp, s0, W32(b - 16)),
      EI("addi", s0, sp, W32(b))>>

IsBase(nv, e, b) == nv \in 0..8 /\ e \in Nat /\ 16 <= e /\ e < 2048 /\ b = e - nv * 8

LEMMA FrameOffsets ==
    ASSUME NEW nv, NEW e, NEW b, IsBase(nv, e, b)
    PROVE  /\ -e \in Immediates /\ b \in Immediates /\ b - 8 \in Immediates /\ b - 16 \in Immediates
           /\ e \in Immediates /\ b \in Int
           /\ -e + (b - 8) = -(nv * 8) + -8 /\ -e + (b - 16) = -(nv * 8) + -16
           /\ -e + b = -(nv * 8)
           /\ -(nv * 8) \in Offsets /\ nv * 8 \in Offsets /\ nv * 8 >= 0
           /\ -8 \in Offsets /\ -16 \in Offsets
<1>1. b \in Int /\ -e \in Immediates /\ b \in Immediates /\ b - 8 \in Immediates
      /\ b - 16 \in Immediates /\ e \in Immediates
  BY SMT DEF IsBase, Immediates
<1>2. -(nv * 8) \in Offsets /\ nv * 8 \in Offsets /\ -8 \in Offsets /\ -16 \in Offsets
  BY SMT DEF IsBase, Offsets
<1>3. /\ -e + (b - 8) = -(nv * 8) + -8 /\ -e + (b - 16) = -(nv * 8) + -16
      /\ -e + b = -(nv * 8) /\ nv * 8 >= 0
  BY SMT DEF IsBase
<1> QED
  BY <1>1, <1>2, <1>3

\* The frame base and the places of the saved registers, from the stack pointer after the
\* first step.
LEMMA SlotsAre ==
    ASSUME NEW a \in WordsOf(64), NEW nv, NEW e, NEW b, IsBase(nv, e, b),
           NEW fp, fp = Minus(64, a, Bits(nv * 8)), NEW x, x = -e, NEW i, i = b - 8, NEW j, j = b - 16
    PROVE  /\ fp \in WordsOf(64) /\ Plus(64, Plus(64, a, W(x)), W(b)) = fp
           /\ Plus(64, Plus(64, a, W(x)), W(i)) = RaSlot(fp)
           /\ Plus(64, Plus(64, a, W(x)), W(j)) = S0Slot(fp)
           /\ RaSlot(fp) \in WordsOf(64) /\ S0Slot(fp) \in WordsOf(64) /\ RaSlot(fp) # S0Slot(fp)
<1>2. PICK k, y, z, u : u = nv * 8 /\ k = -u /\ y = -8 /\ z = -16
  OBVIOUS
<1>20. /\ x \in Immediates /\ b \in Immediates /\ i \in Immediates /\ j \in Immediates
       /\ b \in Int /\ x + i = k + y /\ x + j = k + z /\ x + b = k
       /\ k \in Offsets /\ u \in Offsets /\ u >= 0 /\ y \in Offsets /\ z \in Offsets /\ y # z
  BY <1>2, FrameOffsets
<1>21. x \in Offsets /\ b \in Offsets /\ i \in Offsets /\ j \in Offsets
  BY <1>20, ImmIs
<1>11. fp = Plus(64, a, W(k)) /\ fp \in WordsOf(64)
  BY <1>2, <1>20, Differences
<1>12. Plus(64, Plus(64, a, W(x)), W(b)) = fp
  <2>1. Plus(64, Plus(64, a, W(x)), W(b)) = Plus(64, a, W(x + b))
    BY <1>20, <1>21, Sums
  <2> QED
    BY <1>20, <1>21, <1>11, <2>1
<1>13. Plus(64, Plus(64, a, W(x)), W(i)) = RaSlot(fp)
  <2>1. Plus(64, Plus(64, a, W(x)), W(i)) = Plus(64, a, W(x + (i)))
    BY <1>20, <1>21, Sums
  <2>2. Plus(64, Plus(64, a, W(k)), W(y)) = Plus(64, a, W(k + y))
    BY <1>20, <1>21, Sums
  <2> QED
    BY <1>20, <1>21, <1>11, <2>1, <2>2, <1>2 DEF RaSlot
<1>14. Plus(64, Plus(64, a, W(x)), W(j)) = S0Slot(fp)
  <2>1. Plus(64, Plus(64, a, W(x)), W(j)) = Plus(64, a, W(x + (j)))
    BY <1>20, <1>21, Sums
  <2>2. Plus(64, Plus(64, a, W(k)), W(z)) = Plus(64, a, W(k + z))
    BY <1>20, <1>21, Sums
  <2> QED
    BY <1>20, <1>21, <1>11, <2>1, <2>2, <1>2 DEF S0Slot
<1>15. RaSlot(fp) \in WordsOf(64) /\ S0Slot(fp) \in WordsOf(64) /\ RaSlot(fp) # S0Slot(fp)
  <2>1. RaSlot(fp) \in WordsOf(64) /\ S0Slot(fp) \in WordsOf(64)
    BY <1>20, <1>21, <1>11, <1>2, Differences DEF RaSlot, S0Slot
  <2>3. RaSlot(fp) # S0Slot(fp)
    BY <1>20, <1>21, <1>11, <1>2, PlacesDiffer DEF RaSlot, S0Slot
  <2> QED
    BY <2>1, <2>3
<1> QED
  BY <1>11, <1>12, <1>13, <1>14, <1>15

LEMMA FirstDoes ==
    ASSUME NEW S \in CpuStates, NEW nv, NEW e, NEW b, IsBase(nv, e, b), NEW T, T = RunFrom(S, FirstCode(e, b)),
           NEW fp, fp = Minus(64, S.reg[sp], Bits(nv * 8))
    PROVE  /\ T \in CpuStates /\ T.ok = S.ok /\ fp \in WordsOf(64)
           /\ T.reg[s0] = fp /\ T.reg[sp] = Plus(64, S.reg[sp], W(-e))
           /\ Holds(T.mem, RaSlot(fp), S.reg[ra]) /\ Holds(T.mem, S0Slot(fp), S.reg[s0])
<1>2. PICK x, i, j : x = -e /\ i = b - 8 /\ j = b - 16
  OBVIOUS
<1>20. x \in Immediates /\ b \in Immediates /\ i \in Immediates /\ j \in Immediates
  BY <1>2, FrameOffsets
<1> DEFINE a == S.reg[sp]
<1>0. PICK E, F, G : /\ E = Exec(S, EI("addi", sp, sp, W32(x))) /\ F = Exec(E, ES(sp, ra, W32(i)))
                     /\ G = Exec(F, ES(sp, s0, W32(j)))
  OBVIOUS
<1>1. T = Exec(G, EI("addi", s0, sp, W32(b)))
  BY <1>0, <1>2, RunFour DEF FirstCode
<1>3. /\ sp \in Regs \ {0} /\ s0 \in Regs \ {0} /\ ra \in Regs /\ sp \in Regs /\ s0 \in Regs
      /\ ra # sp /\ s0 # sp /\ ra \in Nat /\ s0 \in Nat /\ 0 \in Regs
  BY DEF Regs, ra, sp, s0
<1>4. a \in WordsOf(64)
  BY <1>3 DEF CpuStates
<1>5. Only(S, E, sp) /\ E.ok = S.ok /\ E.reg[sp] = Plus(64, a, W(x))
  <2>1. /\ S \in CpuStates /\ sp \in Regs \ {0} /\ sp \in Regs /\ x \in Immediates
        /\ E = Exec(S, EI("addi", sp, sp, W32(x)))
    BY <1>0, <1>20, <1>3
  <2> QED
    BY <2>1, DoMove
<1>6. E \in CpuStates /\ E.reg[ra] = S.reg[ra] /\ E.reg[s0] = S.reg[s0]
  BY <1>3, <1>5 DEF Only
<1>7. /\ F \in CpuStates /\ F.ok = E.ok /\ \A q \in Regs : F.reg[q] = E.reg[q]
      /\ Holds(F.mem, Plus(64, E.reg[sp], W(i)), E.reg[ra])
  <2>1. PICK p, k, q : p = Plus(64, E.reg[k], W(i)) /\ k = sp /\ q = ra
    OBVIOUS
  <2>2. /\ E \in CpuStates /\ k \in Regs /\ q \in Regs /\ i \in Immediates
        /\ F = Exec(E, ES(k, q, W32(i))) /\ p = Plus(64, E.reg[k], W(i))
    BY <1>0, <1>20, <1>3, <1>6, <2>1
  <2>3. F \in CpuStates /\ F.ok = E.ok /\ \A z \in Regs : F.reg[z] = E.reg[z]
    BY <2>2, DoSave
  <2>4. Holds(F.mem, p, E.reg[q])
    BY <2>2, DoSave
  <2> QED
    BY <2>1, <2>3, <2>4
<1>8. /\ G \in CpuStates /\ G.ok = F.ok /\ \A q \in Regs : G.reg[q] = F.reg[q]
      /\ Holds(G.mem, Plus(64, F.reg[sp], W(j)), F.reg[s0])
  <2>1. PICK p, k, q : p = Plus(64, F.reg[k], W(j)) /\ k = sp /\ q = s0
    OBVIOUS
  <2>2. /\ F \in CpuStates /\ k \in Regs /\ q \in Regs /\ j \in Immediates
        /\ G = Exec(F, ES(k, q, W32(j))) /\ p = Plus(64, F.reg[k], W(j))
    BY <1>0, <1>20, <1>3, <1>7, <2>1
  <2>3. G \in CpuStates /\ G.ok = F.ok /\ \A z \in Regs : G.reg[z] = F.reg[z]
    BY <2>2, DoSave
  <2>4. Holds(G.mem, p, F.reg[q])
    BY <2>2, DoSave
  <2> QED
    BY <2>1, <2>3, <2>4
<1>80. \A p, w : p # Plus(64, F.reg[sp], W(j)) /\ Holds(F.mem, p, w) => Holds(G.mem, p, w)
  <2> SUFFICES ASSUME NEW p, NEW w, p # Plus(64, F.reg[sp], W(j)), Holds(F.mem, p, w)
               PROVE  Holds(G.mem, p, w)
    OBVIOUS
  <2> QED
    BY <1>0, <1>20, <1>3, <1>7, SaveKeeps
<1>9. Only(G, T, s0) /\ T.ok = G.ok /\ T.reg[s0] = Plus(64, G.reg[sp], W(b))
  BY <1>1, <1>20, <1>3, <1>8, DoMove
<1>10. /\ T \in CpuStates /\ T.mem = G.mem /\ T.reg[sp] = Plus(64, a, W(x)) /\ T.ok = S.ok
       /\ G.reg[sp] = Plus(64, a, W(x)) /\ F.reg[sp] = Plus(64, a, W(x)) /\ F.reg[s0] = S.reg[s0]
  BY <1>3, <1>5, <1>6, <1>7, <1>8, <1>9 DEF Only
<1>11. /\ fp \in WordsOf(64) /\ Plus(64, Plus(64, a, W(x)), W(b)) = fp
       /\ Plus(64, Plus(64, a, W(x)), W(i)) = RaSlot(fp)
       /\ Plus(64, Plus(64, a, W(x)), W(j)) = S0Slot(fp)
       /\ RaSlot(fp) \in WordsOf(64) /\ S0Slot(fp) \in WordsOf(64) /\ RaSlot(fp) # S0Slot(fp)
  BY <1>2, <1>4, SlotsAre
<1>12. T.reg[s0] = fp
  BY <1>9, <1>10, <1>11
<1>16. Holds(G.mem, RaSlot(fp), S.reg[ra]) /\ Holds(G.mem, S0Slot(fp), S.reg[s0])
  BY <1>3, <1>5, <1>6, <1>7, <1>8, <1>80, <1>10, <1>11
<1> QED
  BY <1>2, <1>10, <1>11, <1>12, <1>16

\* The step that is left where the frame is a large one, down or up.
RestCode(v, op) ==
    IF TwoSteps(v) THEN SecondStep(v) \o <<ER(op, sp, sp, t0)>> ELSE <<>>

LEMMA RunSeq ==
    ASSUME NEW S, NEW a \in Seq(Instrs), NEW b \in Seq(Instrs)
    PROVE  RunFrom(S, a \o b) = RunFrom(RunFrom(S, a), b) /\ a \o b \in Seq(Instrs)
<1>1. RunFrom(S, a \o b) = RunFrom(RunFrom(S, a), b)
  BY RunThen
<1> QED
  BY <1>1

LEMMA RestDoes ==
    ASSUME NEW S \in CpuStates, NEW v \in Int, v - 16 \in Offsets, TwoSteps(v) => v - 16 >= 0,
           NEW T, T = RunFrom(S, RestCode(v, "sub")), NEW U, U = RunFrom(S, RestCode(v, "add"))
    PROVE  /\ T \in CpuStates /\ T.ok = S.ok /\ T.mem = S.mem
           /\ T.reg[s0] = S.reg[s0] /\ T.reg[ra] = S.reg[ra]
           /\ T.reg[sp] = Plus(64, S.reg[sp], W(IF TwoSteps(v) THEN -(v - 16) ELSE 0))
           /\ U \in CpuStates /\ U.ok = S.ok /\ U.mem = S.mem
           /\ U.reg[sp] = Plus(64, S.reg[sp], W(IF TwoSteps(v) THEN v - 16 ELSE 0))
<1>0. /\ t0 \in Regs \ {0} /\ sp \in Regs \ {0} /\ sp \in Regs /\ t0 \in Regs /\ s0 \in Regs
      /\ ra \in Regs /\ sp # t0 /\ s0 # t0 /\ ra # t0 /\ s0 # sp /\ ra # sp
  BY DEF Regs, ra, sp, s0, t0
<1>1. S.reg[sp] \in WordsOf(64)
  BY <1>0 DEF CpuStates
<1>2. CASE ~TwoSteps(v)
  <2>1. T = S /\ U = S
    BY <1>2, RunNone DEF RestCode
  <2>2. W(0) = {}
    BY BitsOfZero DEF W, Word
  <2>3. Plus(64, S.reg[sp], {}) = S.reg[sp]
    BY PlusNone
  <2> QED
    BY <1>2, <2>1, <2>2, <2>3
<1>3. CASE TwoSteps(v)
  <2> DEFINE E == RunFrom(S, SecondStep(v))
  <2>1. PICK n : n = v - 16
    OBVIOUS
  <2>2. Only(S, E, t0) /\ E.ok = S.ok /\ E.reg[t0] = W(v - 16)
    BY <1>3, SecondDoes
  <2>3. SecondStep(v) \in Seq(Instrs) /\ Instrs = Without(0)
    BY SecondStepIs
  <2>4. \A op \in {"sub", "add"} : ER(op, sp, sp, t0) \in Instrs
    <3>1. 0 \in Int /\ 0 \in Regs
      BY ZeroInRegs
    <3> QED
      BY <3>1, FrameInstrs
  <2>5. \A op \in {"sub", "add"} :
           RunFrom(S, SecondStep(v) \o <<ER(op, sp, sp, t0)>>) = Exec(E, ER(op, sp, sp, t0))
    BY <2>3, <2>4, RunThenOne
  <2>6. T = Exec(E, ER("sub", sp, sp, t0)) /\ U = Exec(E, ER("add", sp, sp, t0))
    BY <1>3, <2>5 DEF RestCode
  <2> HIDE DEF E
  <2>7. E \in CpuStates /\ E.mem = S.mem /\ E.reg[sp] = S.reg[sp]
        /\ E.reg[s0] = S.reg[s0] /\ E.reg[ra] = S.reg[ra]
    BY <1>0, <2>2 DEF Only
  <2>8. /\ Only(E, T, sp) /\ T.ok = E.ok /\ T.reg[sp] = Minus(64, E.reg[sp], E.reg[t0])
        /\ Only(E, U, sp) /\ U.ok = E.ok /\ U.reg[sp] = Plus(64, E.reg[sp], E.reg[t0])
    BY <1>0, <2>6, <2>7, DoAdd
  <2>9. Minus(64, S.reg[sp], W(n)) = Plus(64, S.reg[sp], W(-n))
    BY <1>1, <1>3, <2>1, Differences
  <2> QED
    BY <1>0, <1>3, <2>1, <2>2, <2>7, <2>8, <2>9 DEF Only
<1> QED
  BY <1>2, <1>3

\* The registers that a variadic function spills lie at its frame base and above.
LEMMA SpillDoes ==
    ASSUME NEW S \in CpuStates, NEW nv \in 0..8, NEW fp, fp = S.reg[s0],
           NEW T, T = RunFrom(S, SpillVa(nv)), NEW i \in Offsets, i < 0, NEW w
    PROVE  /\ T \in CpuStates /\ T.ok = S.ok /\ T.reg = S.reg
           /\ Holds(S.mem, Plus(64, fp, W(i)), w) => Holds(T.mem, Plus(64, fp, W(i)), w)
<1> DEFINE f(k) == ES(s0, 18 - nv + k - 1, W32(-8 + k * 8))
           A == {Plus(64, fp, W(i))}
           code == SpillVa(nv)
<1>1. code = [k \in 1..nv |-> f(k)]
  BY DEF SpillVa
<1>2. fp \in WordsOf(64) /\ s0 \in Regs
  BY ZeroInRegs DEF CpuStates
<1>3. ASSUME NEW k \in 1..nv
      PROVE  f(k) \in Instrs /\ f(k).op = "s" /\ ImmediateFits(f(k)) /\ Address(S, f(k)) \notin A
  <2>1. PICK n, x : n = -8 + k * 8 /\ x = 18 - nv + k - 1
    OBVIOUS
  <2>2. n \in Immediates /\ n >= 0 /\ n \in Int /\ x \in Nat
    BY <2>1, SMT DEF Immediates
  <2>3. f(k) = ES(s0, x, W32(n))
    BY <2>1
  <2> HIDE DEF f
  <2>4. f(k) \in Instrs
    BY <1>2, <2>2, <2>3, FrameInstrs
  <2>5. ImmFits(W32(n)) /\ Sext(64, W32(n), 12) = W(n) /\ n \in Offsets
    BY <2>2, ImmIs
  <2>6. f(k).op = "s" /\ ImmediateFits(f(k)) /\ f(k).rs = s0 /\ f(k).imm = W32(n)
    BY <2>3, <2>5 DEF ES, ImmediateFits
  <2>7. Address(S, f(k)) = Plus(64, fp, W(n))
    BY <2>5, <2>6 DEF Address
  <2>8. n # i
    <3>1. i \in Int
      BY OffsetsAre
    <3> QED
      BY <2>2, <3>1
  <2> QED
    BY <1>2, <2>4, <2>5, <2>6, <2>7, <2>8, PlacesDiffer
<1> HIDE DEF f, A, code
<1>4. /\ code \in Seq(Instrs) /\ Len(code) = nv /\ \A k \in 1..Len(code) : code[k] = f(k)
  BY <1>1, <1>3
<1>5. \A k \in 1..Len(code) : code[k].op = "s" /\ ImmediateFits(code[k]) /\ Address(S, code[k]) \notin A
  BY <1>3, <1>4
<1>6. /\ T \in CpuStates /\ T.reg = S.reg /\ T.ok = S.ok
      /\ \A a \in A : \A u : Holds(S.mem, a, u) => Holds(T.mem, a, u)
  BY <1>4, <1>5, StoresDo DEF code
<1> QED
  BY <1>6 DEF A

\* After the prologue the frame base and the stack pointer are where the frame has them, and
\* the caller's return address and frame base are saved.
LEMMA PrologueDoes ==
    ASSUME NEW S \in CpuStates, NEW l, NEW nv, IsFrame(l, nv),
           NEW T, T = RunFrom(S, Prologue(l, nv) \o SpillVa(nv)),
           NEW fp, fp = Minus(64, S.reg[sp], Bits(nv * 8)), NEW v, v = FrameSize(l, nv)
    PROVE  /\ T \in CpuStates /\ T.ok = S.ok /\ fp \in WordsOf(64)
           /\ T.reg[s0] = fp /\ T.reg[sp] = Plus(64, S.reg[sp], W(-v))
           /\ Holds(T.mem, RaSlot(fp), S.reg[ra]) /\ Holds(T.mem, S0Slot(fp), S.reg[s0])
<1>1. PICK e, b : e = d(l, nv) /\ b = FrameBase(l, nv)
  OBVIOUS
<1>2. /\ v \in Nat /\ v - 16 \in Offsets /\ v \in Offsets /\ e \in Nat /\ 16 <= e /\ e < 2048
      /\ b = e - nv * 8 /\ -e \in Offsets
      /\ TwoSteps(v) => e = 16 /\ v - 16 \in Nat
      /\ ~TwoSteps(v) => v = e
  BY <1>1, FrameNumbers
<1>3. IsBase(nv, e, b)
  BY <1>2, SMT DEF IsBase, IsFrame
<1> DEFINE first == FirstCode(e, b)
           rest == RestCode(v, "sub")
           spill == SpillVa(nv)
           E == RunFrom(S, first)
           F == RunFrom(E, rest)
<1>4. Prologue(l, nv) = first \o rest
  BY <1>1, Zenon DEF Prologue, FirstCode, RestCode
<1>5. first \in Seq(Instrs) /\ rest \in Seq(Instrs) /\ spill \in Seq(Instrs)
  <2>1. spill \in Seq(Instrs)
    BY PrologueIs
  <2>2. rest \in Seq(Instrs)
    <3>1. SecondStep(v) \in Seq(Instrs)
      BY <1>2, SecondStepIs
    <3>2. ER("sub", sp, sp, t0) \in Instrs
      <4>1. 0 \in Int /\ 0 \in Regs
        BY ZeroInRegs
      <4> QED
        BY <4>1, FrameInstrs
    <3>3. SecondStep(v) \o <<ER("sub", sp, sp, t0)>> \in Seq(Instrs) /\ <<>> \in Seq(Instrs)
      BY <3>1, <3>2
    <3> QED
      BY <3>3 DEF RestCode
  <2>3. first \in Seq(Instrs)
    <3>1. PICK x, i, j : x = -e /\ i = b - 8 /\ j = b - 16
      OBVIOUS
    <3>2. x \in Int /\ i \in Int /\ j \in Int /\ b \in Int
      BY <1>2, <1>3, <3>1 DEF IsBase
    <3>3. ra \in Regs /\ s0 \in Regs
      BY ZeroInRegs
    <3>4. /\ EI("addi", sp, sp, W32(x)) \in Instrs /\ ES(sp, ra, W32(i)) \in Instrs
          /\ ES(sp, s0, W32(j)) \in Instrs /\ EI("addi", s0, sp, W32(b)) \in Instrs
      BY <3>2, <3>3, FrameInstrs
    <3>5. first = <<EI("addi", sp, sp, W32(x)), ES(sp, ra, W32(i)), ES(sp, s0, W32(j)),
                    EI("addi", s0, sp, W32(b))>>
      BY <3>1 DEF FirstCode
    <3> QED
      BY <3>4, <3>5
  <2> QED
    BY <2>1, <2>2, <2>3
<1>6. /\ E \in CpuStates /\ E.ok = S.ok /\ fp \in WordsOf(64)
      /\ E.reg[s0] = fp /\ E.reg[sp] = Plus(64, S.reg[sp], W(-e))
      /\ Holds(E.mem, RaSlot(fp), S.reg[ra]) /\ Holds(E.mem, S0Slot(fp), S.reg[s0])
  BY <1>3, FirstDoes
<1>7. T = RunFrom(F, spill)
  <2> HIDE DEF first, rest, spill
  <2>1. first \o rest \in Seq(Instrs) /\ RunFrom(S, first \o rest) = F
    BY <1>5, RunSeq
  <2> HIDE DEF F
  <2>2. RunFrom(S, (first \o rest) \o spill) = RunFrom(F, spill)
    <3>1. PICK p : p = first \o rest
      OBVIOUS
    <3>2. p \in Seq(Instrs) /\ RunFrom(S, p) = F
      BY <2>1, <3>1
    <3>3. RunFrom(S, p \o spill) = RunFrom(RunFrom(S, p), spill)
      BY <1>5, <3>2, RunSeq
    <3> QED
      BY <3>1, <3>2, <3>3
  <2>3. T = RunFrom(S, (first \o rest) \o spill)
    BY <1>4 DEF spill
  <2> QED
    BY <2>2, <2>3
<1> HIDE DEF E
<1>8. /\ F \in CpuStates /\ F.ok = E.ok /\ F.mem = E.mem
      /\ F.reg[s0] = E.reg[s0]
      /\ F.reg[sp] = Plus(64, E.reg[sp], W(IF TwoSteps(v) THEN -(v - 16) ELSE 0))
  BY <1>2, <1>6, RestDoes
<1> HIDE DEF F
<1>9. F.reg[sp] = Plus(64, S.reg[sp], W(-v))
  <2>1. S.reg[sp] \in WordsOf(64)
    BY ZeroInRegs DEF CpuStates
  <2>2. PICK x, y : x = -e /\ y = IF TwoSteps(v) THEN -(v - 16) ELSE 0
    OBVIOUS
  <2>3. x \in Offsets /\ y \in Offsets /\ x + y = -v
    <3>1. CASE TwoSteps(v)
      <4>1. y = -(v - 16) /\ x = -16
        BY <1>2, <2>2, <3>1
      <4>2. y \in Offsets
        BY <1>2, <4>1, OffsetsAre
      <4>3. x + y = -v
        BY <1>2, <4>1
      <4> QED
        BY <1>2, <2>2, <4>2, <4>3
    <3>2. CASE ~TwoSteps(v)
      <4>1. y = 0 /\ x = -v
        BY <1>2, <2>2, <3>2
      <4>2. y \in Offsets
        BY <4>1, SMT DEF Offsets
      <4>3. x + y = -v
        BY <1>2, <4>1
      <4> QED
        BY <1>2, <2>2, <4>2, <4>3
    <3> QED
      BY <3>1, <3>2
  <2>4. Plus(64, Plus(64, S.reg[sp], W(x)), W(y)) = Plus(64, S.reg[sp], W(x + y))
    BY <2>1, <2>3, Sums
  <2> QED
    BY <1>6, <1>8, <2>2, <2>3, <2>4
<1>10. nv \in 0..8 /\ -8 \in Offsets /\ -16 \in Offsets
  BY SMT DEF IsFrame, Offsets
<1>11. /\ T \in CpuStates /\ T.ok = F.ok /\ T.reg = F.reg
       /\ Holds(T.mem, RaSlot(fp), S.reg[ra]) /\ Holds(T.mem, S0Slot(fp), S.reg[s0])
  <2>1. PICK i, j : i = -8 /\ j = -16
    OBVIOUS
  <2>2. i \in Offsets /\ i < 0 /\ j \in Offsets /\ j < 0
    BY <1>10, <2>1
  <2>3. fp = F.reg[s0] /\ Holds(F.mem, Plus(64, fp, W(i)), S.reg[ra])
        /\ Holds(F.mem, Plus(64, fp, W(j)), S.reg[s0])
    BY <1>6, <1>8, <2>1 DEF RaSlot, S0Slot
  <2>4. T \in CpuStates /\ T.ok = F.ok /\ T.reg = F.reg /\ Holds(T.mem, Plus(64, fp, W(i)), S.reg[ra])
    BY <1>7, <1>8, <1>10, <2>2, <2>3, SpillDoes
  <2>5. Holds(T.mem, Plus(64, fp, W(j)), S.reg[s0])
    BY <1>7, <1>8, <1>10, <2>2, <2>3, SpillDoes
  <2> QED
    BY <2>1, <2>4, <2>5 DEF RaSlot, S0Slot
<1> QED
  BY <1>6, <1>8, <1>9, <1>11

LEMMA RunThree ==
    ASSUME NEW S, NEW i, NEW j, NEW k
    PROVE  RunFrom(S, <<i, j, k>>) = Exec(Exec(Exec(S, i), j), k)
<1>1. Len(<<i, j, k>>) = 3
  OBVIOUS
<1>2. PICK state : /\ state[0] = S
                   /\ \A n \in 1..3 : state[n] = Exec(state[n - 1], <<i, j, k>>[n])
                   /\ RunFrom(S, <<i, j, k>>) = state[3]
  <2> DEFINE code == <<i, j, k>>
  <2>1. PICK state : /\ state[0] = S
                     /\ \A n \in 1..Len(code) : state[n] = Exec(state[n - 1], code[n])
                     /\ RunFrom(S, code) = state[Len(code)]
    <3> HIDE DEF code
    <3>1. Len(code) \in Nat
      BY <1>1 DEF code
    <3> QED
      BY <3>1, RunTrace
  <2> QED
    BY <1>1, <2>1
<1>3. /\ state[1] = Exec(state[1 - 1], <<i, j, k>>[1])
      /\ state[2] = Exec(state[2 - 1], <<i, j, k>>[2])
      /\ state[3] = Exec(state[3 - 1], <<i, j, k>>[3])
  BY <1>2
<1> QED
  BY <1>2, <1>3

\* From a frame of v bytes below a, with x and y saved, S comes to T with all three restored.
GivesBack(S, T, v, a, fp, x, y) ==
    S.reg[sp] = Plus(64, a, W(-v)) /\ Holds(S.mem, RaSlot(fp), x) /\ Holds(S.mem, S0Slot(fp), y)
        => T.reg[ra] = x /\ T.reg[s0] = y /\ T.reg[sp] = a

\* The epilogue takes the prologue back; its offsets fit wherever the stack pointer is.
LEMMA EpilogueDoes ==
    ASSUME NEW S \in CpuStates, NEW l, NEW nv, IsFrame(l, nv),
           NEW T, T = RunFrom(S, Epilogue(l, nv)), NEW v, v = FrameSize(l, nv),
           NEW a \in WordsOf(64), NEW fp, fp = Minus(64, a, Bits(nv * 8)), NEW x, NEW y
    PROVE  T \in CpuStates /\ T.ok = S.ok /\ GivesBack(S, T, v, a, fp, x, y)
<1>1. PICK e, b : e = d(l, nv) /\ b = FrameBase(l, nv)
  OBVIOUS
<1>2. /\ v \in Nat /\ v - 16 \in Offsets /\ v \in Offsets /\ e \in Nat /\ 16 <= e /\ e < 2048
      /\ b = e - nv * 8 /\ -e \in Offsets /\ e \in Offsets
      /\ TwoSteps(v) => e = 16 /\ v - 16 \in Nat
      /\ ~TwoSteps(v) => v = e
  BY <1>1, FrameNumbers
<1>3. IsBase(nv, e, b)
  BY <1>2, SMT DEF IsBase, IsFrame
<1>4. PICK m, i, j : m = -e /\ i = b - 8 /\ j = b - 16
  OBVIOUS
<1>5. /\ m \in Immediates /\ i \in Immediates /\ j \in Immediates /\ b \in Immediates
      /\ e \in Immediates /\ e \in Int
  BY <1>2, <1>3, <1>4, FrameOffsets
<1>6. /\ ra \in Regs \ {0} /\ s0 \in Regs \ {0} /\ sp \in Regs \ {0} /\ sp \in Regs
      /\ ra # sp /\ s0 # sp /\ ra # s0
  BY DEF Regs, ra, sp, s0
<1> DEFINE rest == RestCode(v, "add")
           x1 == EI("ld", ra, sp, W32(i))
           x2 == EI("ld", s0, sp, W32(j))
           x3 == EI("addi", sp, sp, W32(e))
           F == RunFrom(S, rest)
           G == Exec(F, x1)
           H == Exec(G, x2)
<1>7. Epilogue(l, nv) = rest \o <<x1, x2, x3>>
  BY <1>1, <1>4, Zenon DEF Epilogue, RestCode
<1>8. rest \in Seq(Instrs) /\ <<x1, x2, x3>> \in Seq(Instrs)
  <2>1. SecondStep(v) \in Seq(Instrs)
    BY <1>2, SecondStepIs
  <2>2. ER("add", sp, sp, t0) \in Instrs
    <3>1. 0 \in Int /\ 0 \in Regs
      BY ZeroInRegs
    <3> QED
      BY <3>1, FrameInstrs
  <2>3. SecondStep(v) \o <<ER("add", sp, sp, t0)>> \in Seq(Instrs) /\ <<>> \in Seq(Instrs)
    BY <2>1, <2>2
  <2>4. rest \in Seq(Instrs)
    BY <2>3 DEF RestCode
  <2>5. ra \in Regs /\ s0 \in Regs /\ i \in Int /\ j \in Int
    BY <1>5, <1>6, ImmIs
  <2>6. x1 \in Instrs /\ x2 \in Instrs /\ x3 \in Instrs
    BY <1>5, <2>5, FrameInstrs
  <2> HIDE DEF x1, x2, x3, rest
  <2> QED
    BY <2>4, <2>6
<1>9. T = Exec(H, x3)
  <2> HIDE DEF x1, x2, x3, rest
  <2>1. PICK c : c = <<x1, x2, x3>>
    OBVIOUS
  <2>4. c \in Seq(Instrs) /\ rest \in Seq(Instrs)
    BY <1>8, <2>1
  <2>2. RunFrom(S, rest \o c) = RunFrom(RunFrom(S, rest), c)
    BY <2>4, RunSeq
  <2>3. RunFrom(F, c) = Exec(Exec(Exec(F, x1), x2), x3)
    BY <2>1, RunThree
  <2> QED
    BY <1>7, <2>1, <2>2, <2>3
<1>10. /\ F \in CpuStates /\ F.ok = S.ok /\ F.mem = S.mem
       /\ F.reg[sp] = Plus(64, S.reg[sp], W(IF TwoSteps(v) THEN v - 16 ELSE 0))
  BY <1>2, RestDoes
<1> HIDE DEF F
<1>11. /\ G \in CpuStates /\ G.mem = F.mem /\ G.ok = F.ok
       /\ \A q \in Regs : q # ra => G.reg[q] = F.reg[q]
       /\ \A p : p = Plus(64, F.reg[sp], W(i)) /\ p \in DOMAIN F.mem => G.reg[ra] = F.mem[p]
  <2> SUFFICES ASSUME NEW p, p = Plus(64, F.reg[sp], W(i))
               PROVE  /\ G \in CpuStates /\ G.mem = F.mem /\ G.ok = F.ok
                      /\ \A q \in Regs : q # ra => G.reg[q] = F.reg[q]
                      /\ p \in DOMAIN F.mem => G.reg[ra] = F.mem[p]
    OBVIOUS
  <2>1. G = Exec(F, EI("ld", ra, sp, W32(i)))
    OBVIOUS
  <2> HIDE DEF G
  <2>2. ra \in Regs \ {0} /\ sp \in Regs /\ i \in Immediates /\ F \in CpuStates
    BY <1>5, <1>6, <1>10
  <2> QED
    BY <2>1, <2>2, DoRestore
<1> HIDE DEF G
<1>12. /\ H \in CpuStates /\ H.mem = G.mem /\ H.ok = G.ok
       /\ \A q \in Regs : q # s0 => H.reg[q] = G.reg[q]
       /\ \A p : p = Plus(64, G.reg[sp], W(j)) /\ p \in DOMAIN G.mem => H.reg[s0] = G.mem[p]
  <2> SUFFICES ASSUME NEW p, p = Plus(64, G.reg[sp], W(j))
               PROVE  /\ H \in CpuStates /\ H.mem = G.mem /\ H.ok = G.ok
                      /\ \A q \in Regs : q # s0 => H.reg[q] = G.reg[q]
                      /\ p \in DOMAIN G.mem => H.reg[s0] = G.mem[p]
    OBVIOUS
  <2>1. H = Exec(G, EI("ld", s0, sp, W32(j)))
    OBVIOUS
  <2> HIDE DEF H
  <2>2. s0 \in Regs \ {0} /\ sp \in Regs /\ j \in Immediates /\ G \in CpuStates
    BY <1>5, <1>6, <1>11
  <2> QED
    BY <2>1, <2>2, DoRestore
<1> HIDE DEF H
<1>13. Only(H, T, sp) /\ T.ok = H.ok /\ T.reg[sp] = Plus(64, H.reg[sp], W(e))
  BY <1>5, <1>6, <1>9, <1>12, DoMove
<1>14. /\ T \in CpuStates /\ T.ok = S.ok /\ T.reg[ra] = G.reg[ra] /\ T.reg[s0] = H.reg[s0]
       /\ H.reg[sp] = F.reg[sp] /\ G.reg[sp] = F.reg[sp] /\ G.mem = S.mem
  BY <1>6, <1>10, <1>11, <1>12, <1>13 DEF Only
<1>15. ASSUME S.reg[sp] = Plus(64, a, W(-v))
       PROVE  F.reg[sp] = Plus(64, a, W(-e))
  <2>1. PICK n, k : n = -v /\ k = IF TwoSteps(v) THEN v - 16 ELSE 0
    OBVIOUS
  <2>2. n \in Offsets /\ k \in Offsets /\ n + k = m
    <3>1. n \in Offsets
      BY <1>2, <2>1, OffsetsAre
    <3>2. k \in Offsets
      <4>1. 0 \in Offsets
        BY SMT DEF Offsets
      <4> QED
        BY <1>2, <2>1, <4>1
    <3>3. CASE TwoSteps(v)
      BY <1>2, <1>4, <2>1, <3>1, <3>2, <3>3
    <3>4. CASE ~TwoSteps(v)
      BY <1>2, <1>4, <2>1, <3>1, <3>2, <3>4
    <3> QED
      BY <3>1, <3>2, <3>3, <3>4
  <2>3. Plus(64, Plus(64, a, W(n)), W(k)) = Plus(64, a, W(n + k))
    BY <2>2, Sums
  <2> QED
    BY <1>4, <1>10, <1>15, <2>1, <2>2, <2>3
<1>16. ASSUME S.reg[sp] = Plus(64, a, W(-v)), Holds(S.mem, RaSlot(fp), x), Holds(S.mem, S0Slot(fp), y)
       PROVE  T.reg[ra] = x /\ T.reg[s0] = y /\ T.reg[sp] = a
  <2>1. F.reg[sp] = Plus(64, a, W(m))
    BY <1>4, <1>15, <1>16
  <2>2. /\ Plus(64, Plus(64, a, W(m)), W(i)) = RaSlot(fp)
        /\ Plus(64, Plus(64, a, W(m)), W(j)) = S0Slot(fp)
    BY <1>3, <1>4, SlotsAre
  <2>3. Plus(64, Plus(64, a, W(m)), W(e)) = a
    <3>1. m \in Offsets /\ e \in Offsets /\ m + e = 0
      BY <1>2, <1>4
    <3>2. Plus(64, Plus(64, a, W(m)), W(e)) = Plus(64, a, W(m + e))
      BY <3>1, Sums
    <3>3. W(0) = {} /\ Plus(64, a, {}) = a
      BY BitsOfZero, PlusNone DEF W, Word
    <3> QED
      BY <3>1, <3>2, <3>3
  <2> QED
    BY <1>10, <1>11, <1>12, <1>13, <1>14, <1>16, <2>1, <2>2, <2>3 DEF Holds
<1> QED
  BY <1>14, <1>16 DEF GivesBack

-----------------------------------------------------------------------------
(* What every access does *)

\* Where the frame base is that of the function's locals: as long as no store to a constant
\* address was made.
BaseRight ==
    phase = "body" /\ (~AbsStores[kind] \/ steps = 0) => reg[s0] = FramePointer

Means(S, target, want, value) ==
    S.ok /\ S.addr = want /\ (value.known => S.reg[target] = value.w)

\* The registers that the code starts from, with the immediates before it all right.
Ready(S) == S \in CpuStates /\ S.reg = reg /\ S.ok /\ S.addr = {}

LEMMA CpuReady ==
    ASSUME FrameType, assert_ok
    PROVE  Ready(Cpu)
BY CpuIs DEF Ready, Cpu

LEMMA MeansIs ==
    ASSUME NEW S, NEW target, NEW want, NEW value,
           Access(S, target, want, value), Means(S, target, want, value)
    PROVE  MeansWhatItSays' /\ mem' = S.mem /\ last'.want = want
<1>1. /\ reg' = S.reg /\ assert_ok' = S.ok /\ mem' = S.mem
      /\ last' = [target |-> target, want |-> want, addr |-> S.addr, value |-> value]
  BY DEF Access
<1>2. assert_ok' /\ last'.addr = last'.want
  BY <1>1 DEF Means
<1>3. last'.value.known /\ phase' = "body" => reg'[last'.target] = last'.value.w
  BY <1>1 DEF Means
<1> QED
  BY <1>1, <1>2, <1>3 DEF MeansWhatItSays

\* An instruction without an offset.
LEMMA NoOffset ==
    /\ ImmFits({}) /\ {} \in WordsOf(64) /\ Sext(64, {}, 12) = {}
    /\ \A a : Plus(64, a, {}) = a
<1>1. {} = Sext(32, {}, 12) /\ Sext(64, {}, 12) = {} /\ {} \in WordsOf(32) /\ {} \in WordsOf(64)
  BY DEF Sext, WordsOf
<1> QED
  BY <1>1, SignedFits, PlusNone

\* A local is accessed at its place, from the frame base.
LEMMA LocalPlace ==
    ASSUME FrameType, BaseRight, phase = "body", ~AbsStores[kind] \/ steps = 0,
           NEW S, Ready(S), NEW r \in Dests \cup {0}, NEW off \in Locals, NEW fc, fc = W32(off),
           NEW T, T = RunFrom(S, LocalCode(r, fc))
    PROVE  /\ T \in CpuStates /\ T.mem = S.mem /\ T.addr = S.addr /\ T.ok = S.ok
           /\ LocalBase(r, fc) \in Regs /\ ImmFits(Lo12(fc)) /\ Lo12(fc) \in WordsOf(64)
           /\ Plus(64, T.reg[LocalBase(r, fc)], Sext(64, Lo12(fc), 12)) = LocalAt(off)
<1>1. off \in Int /\ off \in Offsets /\ off < 0
  <2>1. off \in Int /\ loc <= off /\ off <= -24 /\ loc \in Int /\ -LargestFrame < loc
    BY OffsetsLie
  <2> QED
    BY <2>1, SMT DEF Offsets, LargestFrame
<1>2. fc \in WordsOf(32) /\ 31 \in fc /\ Sext(64, fc, 32) = W(off)
  <2>1. PICK w \in Nat, u \in Nat : w = 64 /\ u = 32
    OBVIOUS
  <2>2. Sext(w, Word(u, off), u) = Word(w, off) /\ (31 \in Word(u, off) <=> off < 0)
    BY <1>1, <2>1, SextOfWord
  <2> QED
    BY <1>1, <2>1, <2>2, Words64 DEF W, W32
<1>3. S \in CpuStates /\ S.reg[s0] = FramePointer
  BY DEF Ready, BaseRight
<1> QED
  BY <1>2, <1>3, LocalDoes DEF LocalAt

LEMMA SplitOne ==
    ASSUME NEW q \in Regs \ {t0}, NEW r \in Dests \cup {0}, NEW fc
    PROVE  LocalCode(r, fc) \in Seq(Without(0)) /\ Lo12(fc) \in WordsOf(64) /\ LocalBase(r, fc) \in Regs
<1>1. 0 \in Regs \ {t0} /\ 12 \in 1..32
  BY DEF Regs, t0
<1> QED
  BY <1>1, LocalCodeIs, SextShort DEF Lo12

LEMMA LoadConstMeans ==
    ASSUME FrameType, assert_ok, RightConstants, LoadConst
    PROVE  MeansWhatItSays' /\ mem' = mem
<1>1. PICK r \in IntRegs[kind], c \in Consts[kind] \cup Addresses[kind], llong \in BOOLEAN :
            /\ ~llong => c \in Addresses[kind]
            /\ Access(RunFrom(Cpu, LoadImm(r, c, llong)), r, {}, Known(c))
  BY DEF LoadConst, Run
<1>2. ~Misloaded(c) /\ (~llong => ~Misplaced(c))
  BY <1>1 DEF RightConstants, FrameType
<1>3. r \in Regs \ {0} /\ c \in WordsOf(64)
  BY <1>1, RegistersAre
<1>4. Cpu \in CpuStates /\ Cpu.reg[0] = {} /\ Cpu.ok /\ Cpu.addr = {} /\ Cpu.mem = mem
  BY CpuReady, CpuIs DEF Ready, FrameType
<1>5. PICK S, T : S = Cpu /\ T = RunFrom(S, LoadImm(r, c, llong))
  OBVIOUS
<1>6. /\ S \in CpuStates /\ S.reg[0] = {} /\ r \in Regs \ {0} /\ c \in WordsOf(64)
      /\ llong \in BOOLEAN /\ ~Misloaded(c) /\ (~llong => ~Misplaced(c))
      /\ T = RunFrom(S, LoadImm(r, c, llong)) /\ S.ok /\ S.addr = {} /\ S.mem = mem
  BY <1>1, <1>2, <1>3, <1>4, <1>5
<1>7. Only(S, T, r) /\ T.ok = S.ok /\ T.reg[r] = c
  <2>1. \A s \in CpuStates, q \in Regs \ {0}, w \in WordsOf(64), l \in BOOLEAN :
           s.reg[0] = {} /\ ~Misloaded(w) /\ (~l => ~Misplaced(w)) =>
               LET t == RunFrom(s, LoadImm(q, w, l))
               IN  Only(s, t, q) /\ t.ok = s.ok /\ t.reg[q] = w
    BY LoadImmDoes
  <2>2. \A w \in WordsOf(64), l \in BOOLEAN :
           ~Misloaded(w) /\ (~l => ~Misplaced(w)) =>
               LET t == RunFrom(S, LoadImm(r, w, l))
               IN  Only(S, t, r) /\ t.ok = S.ok /\ t.reg[r] = w
    <3>1. \A q \in Regs \ {0}, w \in WordsOf(64), l \in BOOLEAN :
           S.reg[0] = {} /\ ~Misloaded(w) /\ (~l => ~Misplaced(w)) =>
               LET t == RunFrom(S, LoadImm(q, w, l))
               IN  Only(S, t, q) /\ t.ok = S.ok /\ t.reg[q] = w
      <4>1. S \in CpuStates
        BY <1>6
      <4> QED
        BY <4>1, <2>1, Zenon
    <3>2. r \in Regs \ {0} /\ S.reg[0] = {}
      BY <1>6
    <3> QED
      BY <3>1, <3>2, Zenon
  <2>3. ~Misloaded(c) /\ (~llong => ~Misplaced(c)) =>
               LET t == RunFrom(S, LoadImm(r, c, llong))
               IN  Only(S, t, r) /\ t.ok = S.ok /\ t.reg[r] = c
    BY <1>6, <2>2, Zenon
  <2> QED
    BY <1>6, <2>3, Zenon
<1>8. Means(T, r, {}, Known(c)) /\ T.mem = mem
  BY <1>6, <1>7 DEF Only, Means, Known
<1> QED
  BY <1>1, <1>5, <1>8, MeansIs

LEMMA StepsLeft ==
    ASSUME FrameType, RightConstants, steps < MaxSteps[kind]
    PROVE  ~AbsStores[kind] \/ steps = 0
<1>1. kind \in FunctionKinds /\ steps \in Nat
  BY DEF FrameType
<1>2. (AbsStores[kind] => MaxSteps[kind] <= 1) /\ MaxSteps[kind] \in Nat
  BY <1>1, FunctionAssumption DEF RightConstants
<1> QED
  BY <1>1, <1>2

LEMMA LoadLocalMeans ==
    ASSUME FrameType, assert_ok, BaseRight, RightConstants, LoadLocal
    PROVE  MeansWhatItSays' /\ mem' = mem
<1>1. PICK r, off : /\ r \in IntRegs[kind] \cup FloatRegs[kind] /\ off \in Locals
                    /\ Access(RunFrom(Cpu, LocalCode(r, W32(off))
                                  \o <<EI("ld", r, LocalBase(r, W32(off)), Lo12(W32(off)))>>),
                              Target(r), LocalAt(off), Unknown)
  BY Zenon DEF LoadLocal, Run
<1>2. PICK fc, code, i, b : /\ fc = W32(off) /\ code = LocalCode(r, fc) /\ b = LocalBase(r, fc)
                            /\ i = EI("ld", r, b, Lo12(fc))
  OBVIOUS
<1>3. phase = "body" /\ (~AbsStores[kind] \/ steps = 0)
  BY <1>1, StepsLeft DEF Access
<1>4. r \in Dests /\ r \in Nat /\ r \in Regs \cup 42..49
  BY <1>1, TargetIs, RegistersAre DEF Dests
<1>5. Ready(Cpu) /\ Cpu.mem = mem
  BY CpuReady, CpuIs
<1> DEFINE T == RunFrom(Cpu, code)
<1>6. /\ T \in CpuStates /\ T.mem = Cpu.mem /\ T.addr = Cpu.addr /\ T.ok = Cpu.ok
      /\ b \in Regs /\ ImmFits(Lo12(fc)) /\ Lo12(fc) \in WordsOf(64)
      /\ Plus(64, T.reg[b], Sext(64, Lo12(fc), 12)) = LocalAt(off)
  BY <1>1, <1>2, <1>3, <1>4, <1>5, LocalPlace
<1>7. code \in Seq(Without(0)) /\ i \in Without(0)
  <2>1. code \in Seq(Without(0))
    <3>1. s0 \in Regs \ {t0}
      BY DEF Regs, s0, t0
    <3> QED
      BY <1>2, <1>4, <3>1, SplitOne
  <2>2. PICK o : o = Lo12(fc)
    OBVIOUS
  <2>3. EI("ld", r, b, o) \in Without(0)
    BY <1>4, <1>6, <2>2, InstrsAre DEF Loads
  <2> QED
    BY <1>2, <2>1, <2>2, <2>3
<1>8. RunFrom(Cpu, code \o <<i>>) = Exec(T, i)
  BY <1>7, RunThenOne
<1> HIDE DEF T
<1>9. PICK E : E = Exec(T, i)
  OBVIOUS
<1>10. E.ok = T.ok /\ E.mem = T.mem /\ E.addr = Plus(64, T.reg[b], Sext(64, Lo12(fc), 12))
  BY <1>2, <1>4, <1>6, <1>9, DoLoad
<1>11. Means(E, Target(r), LocalAt(off), Unknown) /\ E.mem = mem
  BY <1>5, <1>6, <1>10 DEF Means, Unknown, Ready
<1> QED
  BY <1>1, <1>2, <1>8, <1>9, <1>11, MeansIs

LEMMA AddressOfLocalMeans ==
    ASSUME FrameType, assert_ok, BaseRight, RightConstants, AddressOfLocal
    PROVE  MeansWhatItSays' /\ mem' = mem
<1>1. PICK r, off : /\ r \in IntRegs[kind] /\ off \in Locals
                    /\ Access(RunFrom(Cpu, LocalCode(r, W32(off))
                                  \o <<EI("addi", r, LocalBase(r, W32(off)), Lo12(W32(off)))>>),
                              r, {}, Known(LocalAt(off)))
  BY Zenon DEF AddressOfLocal, Run
<1>2. PICK fc, code, i, b : /\ fc = W32(off) /\ code = LocalCode(r, fc) /\ b = LocalBase(r, fc)
                            /\ i = EI("addi", r, b, Lo12(fc))
  OBVIOUS
<1>3. phase = "body" /\ (~AbsStores[kind] \/ steps = 0)
  BY <1>1, StepsLeft DEF Access
<1>4. r \in Dests /\ r \in Nat /\ r \in Regs \ {0}
  <2>1. r \in 10..17 /\ r \in Regs \ {0}
    BY <1>1, RegistersAre
  <2> QED
    BY <2>1 DEF Dests
<1>5. Ready(Cpu) /\ Cpu.mem = mem
  BY CpuReady, CpuIs
<1> DEFINE T == RunFrom(Cpu, code)
<1>6. /\ T \in CpuStates /\ T.mem = Cpu.mem /\ T.addr = Cpu.addr /\ T.ok = Cpu.ok
      /\ b \in Regs /\ ImmFits(Lo12(fc)) /\ Lo12(fc) \in WordsOf(64)
      /\ Plus(64, T.reg[b], Sext(64, Lo12(fc), 12)) = LocalAt(off)
  BY <1>1, <1>2, <1>3, <1>4, <1>5, LocalPlace
<1>7. code \in Seq(Without(0)) /\ i \in Without(0)
  <2>1. code \in Seq(Without(0))
    <3>1. s0 \in Regs \ {t0}
      BY DEF Regs, s0, t0
    <3> QED
      BY <1>2, <1>4, <3>1, SplitOne
  <2>2. PICK o : o = Lo12(fc)
    OBVIOUS
  <2>3. EI("addi", r, b, o) \in Without(0)
    BY <1>4, <1>6, <2>2, InstrsAre DEF Loads
  <2> QED
    BY <1>2, <2>1, <2>2, <2>3
<1>8. RunFrom(Cpu, code \o <<i>>) = Exec(T, i)
  BY <1>7, RunThenOne
<1> HIDE DEF T
<1>9. PICK E : E = Exec(T, i)
  OBVIOUS
<1>10. Only(T, E, r) /\ E.ok = T.ok /\ E.reg[r] = Plus(64, T.reg[b], Sext(64, Lo12(fc), 12))
  <2>1. PICK o : o = Lo12(fc)
    OBVIOUS
  <2>2. T \in CpuStates /\ b \in Regs /\ o \in WordsOf(64) /\ ImmFits(o) /\ r \in Regs \ {0}
        /\ E = Exec(T, EI("addi", r, b, o))
    BY <1>2, <1>4, <1>6, <1>9, <2>1
  <2> QED
    BY <2>1, <2>2, DoAddi
<1>11. Means(E, r, {}, Known(LocalAt(off))) /\ E.mem = mem
  BY <1>5, <1>6, <1>10 DEF Means, Known, Ready, Only
<1> QED
  BY <1>1, <1>2, <1>8, <1>9, <1>11, MeansIs

LEMMA StoreLocalMeans ==
    ASSUME FrameType, assert_ok, BaseRight, RightConstants, StoreLocal
    PROVE  /\ MeansWhatItSays'
           /\ \E off \in Locals : \E w : mem' = Store(mem, LocalAt(off), w)
<1>1. PICK r, off : /\ r \in IntRegs[kind] \cup FloatRegs[kind] /\ off \in Locals
                    /\ Access(RunFrom(Cpu, LocalCode(0, W32(off))
                                  \o <<ES(LocalBase(0, W32(off)), r, Lo12(W32(off)))>>),
                              0, LocalAt(off), Unknown)
  BY Zenon DEF StoreLocal, Run
<1>2. PICK fc, code, i, b : /\ fc = W32(off) /\ code = LocalCode(0, fc) /\ b = LocalBase(0, fc)
                            /\ i = ES(b, r, Lo12(fc))
  OBVIOUS
<1>3. phase = "body" /\ (~AbsStores[kind] \/ steps = 0)
  BY <1>1, StepsLeft DEF Access
<1>4. r \in Nat
  BY <1>1, RegistersAre
<1>5. Ready(Cpu) /\ 0 \in Dests \cup {0} /\ Cpu.mem = mem
  BY CpuReady, CpuIs
<1> DEFINE T == RunFrom(Cpu, code)
<1>6. /\ T \in CpuStates /\ T.mem = Cpu.mem /\ T.addr = Cpu.addr /\ T.ok = Cpu.ok
      /\ b \in Regs /\ ImmFits(Lo12(fc)) /\ Lo12(fc) \in WordsOf(64)
      /\ Plus(64, T.reg[b], Sext(64, Lo12(fc), 12)) = LocalAt(off)
  BY <1>1, <1>2, <1>3, <1>5, LocalPlace
<1>7. code \in Seq(Without(0)) /\ i \in Without(0)
  <2>1. code \in Seq(Without(0))
    <3>1. s0 \in Regs \ {t0}
      BY DEF Regs, s0, t0
    <3> QED
      BY <1>2, <1>5, <3>1, SplitOne
  <2>2. PICK o : o = Lo12(fc)
    OBVIOUS
  <2>3. ES(b, r, o) \in Without(0)
    <3>1. 0 \in Nat
      OBVIOUS
    <3> QED
      BY <1>4, <1>6, <2>2, <3>1, InstrsAre
  <2> QED
    BY <1>2, <2>1, <2>2, <2>3
<1>8. RunFrom(Cpu, code \o <<i>>) = Exec(T, i)
  BY <1>7, RunThenOne
<1> HIDE DEF T
<1>9. PICK E : E = Exec(T, i)
  OBVIOUS
<1>10. /\ E.ok = T.ok /\ E.addr = Plus(64, T.reg[b], Sext(64, Lo12(fc), 12))
       /\ \E w : E.mem = Store(T.mem, E.addr, w)
  BY <1>2, <1>4, <1>6, <1>9, DoStore
<1>11. Means(E, 0, LocalAt(off), Unknown) /\ \E w : E.mem = Store(mem, LocalAt(off), w)
  BY <1>5, <1>6, <1>10 DEF Means, Unknown, Ready
<1>12. MeansWhatItSays' /\ mem' = E.mem
  BY <1>1, <1>2, <1>8, <1>9, <1>11, MeansIs
<1> QED
  BY <1>1, <1>11, <1>12

LEMMA LoadByRegisterMeans ==
    ASSUME FrameType, assert_ok, LoadByRegister
    PROVE  MeansWhatItSays' /\ mem' = mem
<1>1. PICK r, b : /\ r \in IntRegs[kind] \cup FloatRegs[kind] /\ b \in IntRegs[kind]
                  /\ Access(RunFrom(Cpu, <<EI("ld", r, b, {})>>), Target(r), reg[b], Unknown)
  BY DEF LoadByRegister, Run
<1>2. r \in Nat /\ r \in Regs \cup 42..49 /\ b \in Regs
  BY <1>1, TargetIs, RegistersAre
<1>3. PICK S, E, i : S = Cpu /\ E = Exec(S, i) /\ i = EI("ld", r, b, {})
  OBVIOUS
<1>4. Ready(S) /\ S.mem = mem
  BY <1>3, CpuReady, CpuIs
<1>5. i \in Without(0)
  BY <1>2, <1>3, EmptyIs, InstrsAre DEF Loads
<1>6. E.ok = S.ok /\ E.mem = S.mem /\ E.addr = Plus(64, S.reg[b], Sext(64, {}, 12))
  <2>1. PICK o : o = {}
    OBVIOUS
  <2>2. S \in CpuStates /\ o \in WordsOf(64) /\ ImmFits(o) /\ E = Exec(S, EI("ld", r, b, o))
    BY <1>3, <1>4, <2>1, NoOffset DEF Ready
  <2> QED
    BY <1>2, <2>1, <2>2, DoLoad
<1>7. Means(E, Target(r), reg[b], Unknown) /\ E.mem = mem
  BY <1>4, <1>6, NoOffset DEF Means, Unknown, Ready
<1> QED
  BY <1>1, <1>3, <1>4, <1>5, <1>7, RunOne, MeansIs DEF Ready

LEMMA StoreByRegisterMeans ==
    ASSUME FrameType, assert_ok, StoreByRegister
    PROVE  MeansWhatItSays' /\ \E w : mem' = Store(mem, last'.want, w)
<1>1. PICK r, b : /\ r \in IntRegs[kind] \cup FloatRegs[kind] /\ b \in IntRegs[kind]
                  /\ Access(RunFrom(Cpu, <<ES(b, r, {})>>), 0, reg[b], Unknown)
  BY DEF StoreByRegister, Run
<1>2. r \in Nat /\ b \in Regs /\ 0 \in Nat
  BY <1>1, RegistersAre
<1>3. PICK S, E, i : S = Cpu /\ E = Exec(S, i) /\ i = ES(b, r, {})
  OBVIOUS
<1>4. Ready(S) /\ S.mem = mem
  BY <1>3, CpuReady, CpuIs
<1>5. i \in Without(0)
  BY <1>2, <1>3, EmptyIs, InstrsAre
<1>6. /\ E.ok = S.ok /\ E.addr = Plus(64, S.reg[b], Sext(64, {}, 12))
      /\ \E w : E.mem = Store(S.mem, E.addr, w)
  <2>1. PICK o : o = {}
    OBVIOUS
  <2>2. S \in CpuStates /\ o \in WordsOf(64) /\ ImmFits(o) /\ E = Exec(S, ES(b, r, o))
    BY <1>3, <1>4, <2>1, NoOffset DEF Ready
  <2> QED
    BY <1>2, <2>1, <2>2, DoStore
<1>7. Means(E, 0, reg[b], Unknown) /\ \E w : E.mem = Store(mem, reg[b], w)
  BY <1>4, <1>6, NoOffset DEF Means, Unknown, Ready
<1>8. MeansWhatItSays' /\ mem' = E.mem /\ last'.want = reg[b]
  BY <1>1, <1>3, <1>4, <1>5, <1>7, RunOne, MeansIs DEF Ready
<1> QED
  BY <1>7, <1>8

\* The code of a constant address, and one access.
LEMMA AbsMeans ==
    ASSUME FrameType, assert_ok, RightConstants, NEW n \in Regs \ {0}, NEW c \in Addresses[kind],
           NEW T, T = RunFrom(Cpu, AbsCode(n, c)), NEW o, o = AbsOffset(c)
    PROVE  /\ T \in CpuStates /\ T.ok /\ T.mem = mem /\ o \in WordsOf(64) /\ ImmFits(o)
           /\ AbsCode(n, c) \in Seq(Without(0))
           /\ Plus(64, T.reg[n], Sext(64, o, 12)) = c
<1>1. PICK S : S = Cpu
  OBVIOUS
<1>2. S \in CpuStates /\ S.ok /\ S.mem = mem
  BY <1>1, CpuReady, CpuIs DEF Ready
<1>3. c \in WordsOf(64)
  BY RegistersAre
<1>4. ~Misloaded(c) /\ ~Misplaced(c)
  BY DEF RightConstants, FrameType
<1>5. /\ Only(S, T, n) /\ T.ok = S.ok /\ ImmFits(AbsOffset(c))
      /\ Plus(64, T.reg[n], Sext(64, AbsOffset(c), 12)) = c
  <2>1. /\ S \in CpuStates /\ n \in Regs \ {0} /\ c \in WordsOf(64) /\ ~Misloaded(c) /\ ~Misplaced(c)
        /\ T = RunFrom(S, AbsCode(n, c))
    BY <1>1, <1>2, <1>3, <1>4
  <2> QED
    BY <2>1, AbsDoes
<1>6. AbsCode(n, c) \in Seq(Without(0)) /\ AbsOffset(c) \in WordsOf(64)
  BY AbsCodeIs
<1> QED
  BY <1>2, <1>5, <1>6 DEF Only

\* A load at the end of a code.
LEMMA LoadThen ==
    ASSUME NEW S, NEW code \in Seq(Without(0)), NEW T \in CpuStates, T = RunFrom(S, code),
           NEW r \in Regs \cup 42..49, NEW b \in Regs, NEW o \in WordsOf(64), ImmFits(o),
           NEW E, E = RunFrom(S, code \o <<EI("ld", r, b, o)>>)
    PROVE  E.ok = T.ok /\ E.mem = T.mem /\ E.addr = Plus(64, T.reg[b], Sext(64, o, 12))
<1>1. r \in Nat
  BY RegsAreNumbers
<1>2. PICK i : i = EI("ld", r, b, o)
  OBVIOUS
<1>3. i \in Without(0)
  BY <1>1, <1>2, InstrsAre DEF Loads
<1>4. E = Exec(T, i)
  BY <1>2, <1>3, RunThenOne
<1>5. E = Exec(T, EI("ld", r, b, o))
  BY <1>2, <1>4
<1> QED
  BY <1>1, <1>5, DoLoad

LEMMA LoadAbsoluteMeans ==
    ASSUME FrameType, assert_ok, RightConstants, LoadAbsolute
    PROVE  MeansWhatItSays' /\ mem' = mem
<1>1. PICK r, c : /\ r \in AddressRegs /\ c \in Addresses[kind]
                  /\ Access(RunFrom(Cpu, AbsCode(Number(r), c)
                                \o <<EI("ld", r, Number(r), AbsOffset(c))>>),
                            Target(r), c, Unknown)
  BY DEF LoadAbsolute, Run
<1>2. PICK n, code, o, T, E : /\ n = Number(r) /\ code = AbsCode(n, c) /\ o = AbsOffset(c)
                              /\ T = RunFrom(Cpu, code)
                              /\ E = RunFrom(Cpu, code \o <<EI("ld", r, n, o)>>)
  OBVIOUS
<1>3. n \in Regs \ {0} /\ r \in Nat /\ r \in Regs \cup 42..49
  <2>1. r \in Dests /\ n \in 10..17
    BY <1>1, <1>2, RegistersAre
  <2> QED
    BY <2>1 DEF Dests, Regs
<1>4. /\ T \in CpuStates /\ T.ok /\ T.mem = mem /\ o \in WordsOf(64) /\ ImmFits(o)
      /\ code \in Seq(Without(0)) /\ Plus(64, T.reg[n], Sext(64, o, 12)) = c
  BY <1>1, <1>2, <1>3, AbsMeans
<1>7. E.ok = T.ok /\ E.mem = T.mem /\ E.addr = Plus(64, T.reg[n], Sext(64, o, 12))
  <2>1. /\ code \in Seq(Without(0)) /\ T \in CpuStates /\ r \in Regs \cup 42..49 /\ n \in Regs
        /\ r \in Nat /\ o \in WordsOf(64) /\ ImmFits(o) /\ T = RunFrom(Cpu, code)
        /\ E = RunFrom(Cpu, code \o <<EI("ld", r, n, o)>>)
    BY <1>2, <1>3, <1>4
  <2> QED
    BY <2>1, LoadThen
<1>8. Means(E, Target(r), c, Unknown) /\ E.mem = mem
  BY <1>4, <1>7 DEF Means, Unknown
<1> QED
  BY <1>1, <1>2, <1>8, MeansIs

LEMMA StoreAbsoluteMeans ==
    ASSUME FrameType, assert_ok, RightConstants, StoreAbsolute
    PROVE  MeansWhatItSays' /\ \E w : mem' = Store(mem, last'.want, w)
<1>1. PICK r, c : /\ r \in IntRegs[kind] \cup FloatRegs[kind] /\ c \in Addresses[kind]
                  /\ Access(RunFrom(Cpu, AbsCode(s0, c) \o <<ES(s0, r, AbsOffset(c))>>),
                            0, c, Unknown)
  BY DEF StoreAbsolute, Run
<1>2. PICK n, code, o, i, T, E : /\ n = s0 /\ code = AbsCode(n, c) /\ o = AbsOffset(c)
                                 /\ i = ES(n, r, o) /\ T = RunFrom(Cpu, code)
                                 /\ E = Exec(T, i)
  OBVIOUS
<1>3. n \in Regs \ {0} /\ r \in Nat /\ 0 \in Nat
  <2>1. r \in Nat
    BY <1>1, RegistersAre
  <2> QED
    BY <1>2, <2>1 DEF Regs, s0
<1>4. /\ T \in CpuStates /\ T.ok /\ T.mem = mem /\ o \in WordsOf(64) /\ ImmFits(o)
      /\ code \in Seq(Without(0)) /\ Plus(64, T.reg[n], Sext(64, o, 12)) = c
  BY <1>1, <1>2, <1>3, AbsMeans
<1>5. i \in Without(0)
  BY <1>2, <1>3, <1>4, InstrsAre
<1>6. RunFrom(Cpu, code \o <<i>>) = E
  BY <1>2, <1>4, <1>5, RunThenOne
<1>7. /\ E.ok = T.ok /\ E.addr = Plus(64, T.reg[n], Sext(64, o, 12))
      /\ \E w : E.mem = Store(T.mem, E.addr, w)
  <2>1. /\ T \in CpuStates /\ r \in Nat /\ n \in Regs /\ o \in WordsOf(64)
        /\ ImmFits(o) /\ E = Exec(T, ES(n, r, o))
    BY <1>2, <1>3, <1>4
  <2> QED
    BY <2>1, DoStore
<1>8. Means(E, 0, c, Unknown) /\ \E w : E.mem = Store(mem, c, w)
  BY <1>4, <1>7 DEF Means, Unknown
<1>9. MeansWhatItSays' /\ mem' = E.mem /\ last'.want = c
  BY <1>1, <1>2, <1>6, <1>8, MeansIs
<1> QED
  BY <1>8, <1>9

LEMMA LoadSpilledMeans ==
    ASSUME FrameType, assert_ok, BaseRight, RightConstants, LoadSpilled
    PROVE  /\ MeansWhatItSays'
           /\ \E off \in Locals : \E w : mem' = Store(mem, LocalAt(off), w)
<1>1. PICK r \in AddressRegs, off \in Locals, p \in Addresses[kind] :
              Access(RunFrom(SpilledCpu(off, p),
                             LocalCode(r, W32(off))
                                 \o <<EI("ld", Number(r), LocalBase(r, W32(off)), Lo12(W32(off))),
                                      EI("ld", r, Number(r), {})>>), Target(r), p, Unknown)
  BY LoadSpilledIs
<1>2. PICK S, fc, code, b, n, o, i, j, T, E, F, z :
         /\ S = SpilledCpu(off, p) /\ fc = W32(off) /\ code = LocalCode(r, fc)
         /\ b = LocalBase(r, fc) /\ n = Number(r) /\ o = Lo12(fc) /\ z = {}
         /\ i = EI("ld", n, b, o) /\ j = EI("ld", r, n, z)
         /\ T = RunFrom(S, code) /\ E = Exec(T, i) /\ F = Exec(E, j)
  OBVIOUS
<1>3. phase = "body" /\ (~AbsStores[kind] \/ steps = 0)
  BY <1>1, StepsLeft DEF Access
<1>4. /\ r \in Dests /\ n \in 10..17 /\ n \in Regs \ {0} /\ n \in Nat /\ n \in Regs \cup 42..49
      /\ r \in Nat /\ r \in Regs \cup 42..49
  <2>1. r \in Dests /\ n \in 10..17
    BY <1>1, <1>2, RegistersAre
  <2> QED
    BY <2>1 DEF Dests, Regs
<1>5. p \in WordsOf(64) /\ off \in Int
  BY <1>1, OffsetsLie, RegistersAre
<1>6. Ready(S) /\ S.mem = Store(mem, LocalAt(off), p)
  <2>1. /\ S \in CpuStates /\ S.reg = reg /\ S.ok = assert_ok
        /\ S.mem = Store(mem, LocalAt(off), p)
    BY <1>2, <1>5, SpilledIs
  <2>2. S.addr = {}
    BY <1>2 DEF SpilledCpu, Cpu
  <2> QED
    BY <2>1, <2>2 DEF Ready
<1>7. /\ T \in CpuStates /\ T.mem = S.mem /\ T.ok = S.ok
      /\ b \in Regs /\ ImmFits(o) /\ o \in WordsOf(64)
      /\ Plus(64, T.reg[b], Sext(64, o, 12)) = LocalAt(off)
  BY <1>1, <1>2, <1>3, <1>4, <1>6, LocalPlace
<1>8. z \in WordsOf(64) /\ ImmFits(z) /\ Sext(64, z, 12) = {}
  BY <1>2, NoOffset
<1>9. code \in Seq(Without(0)) /\ i \in Without(0) /\ j \in Without(0)
  <2>1. code \in Seq(Without(0))
    <3>1. s0 \in Regs \ {t0}
      BY DEF Regs, s0, t0
    <3> QED
      BY <1>2, <1>4, <3>1, SplitOne
  <2>2. EI("ld", n, b, o) \in Without(0) /\ EI("ld", r, n, z) \in Without(0)
    BY <1>4, <1>7, <1>8, InstrsAre DEF Loads
  <2> QED
    BY <1>2, <2>1, <2>2
<1>10. RunFrom(S, code \o <<i, j>>) = F
  <2>1. RunFrom(S, code \o <<i>>) = E
    BY <1>2, <1>9, RunThenOne
  <2>2. code \o <<i>> \in Seq(Without(0)) /\ code \o <<i, j>> = (code \o <<i>>) \o <<j>>
    BY <1>9, ThenOne, ThenTwo
  <2>3. RunFrom(S, (code \o <<i>>) \o <<j>>) = Exec(RunFrom(S, code \o <<i>>), j)
    BY <1>9, <2>2, RunThenOne
  <2> QED
    BY <1>2, <2>1, <2>2, <2>3
<1>11. E \in CpuStates /\ E.ok = T.ok /\ E.mem = T.mem /\ E.reg[n] = p
  <2>1. /\ E \in CpuStates /\ E.ok = T.ok /\ E.mem = T.mem /\ E.addr = Plus(64, T.reg[b], Sext(64, o, 12))
        /\ E.reg[n] = IF E.addr \in DOMAIN T.mem THEN T.mem[E.addr] ELSE {}
    <3>1. /\ T \in CpuStates /\ n \in Regs \cup 42..49 /\ n \in Regs \ {0} /\ b \in Regs
          /\ o \in WordsOf(64) /\ ImmFits(o) /\ E = Exec(T, EI("ld", n, b, o))
      BY <1>2, <1>4, <1>7
    <3> QED
      BY <3>1, DoLoad
  <2>2. E.addr = LocalAt(off)
    BY <1>7, <2>1
  <2>3. \A m, a, w : a \in DOMAIN Store(m, a, w) /\ Store(m, a, w)[a] = w
    BY DEF Store
  <2> QED
    BY <1>6, <1>7, <2>1, <2>2, <2>3
<1>12. F.ok = E.ok /\ F.mem = E.mem /\ F.addr = Plus(64, E.reg[n], Sext(64, z, 12))
  <2>1. F = Exec(E, EI("ld", r, n, z)) /\ n \in Regs
    BY <1>2, <1>4
  <2> QED
    BY <1>4, <1>8, <1>11, <2>1, DoLoad
<1>13. F.addr = p
  BY <1>8, <1>11, <1>12, NoOffset
<1>14. Means(F, Target(r), p, Unknown)
  BY <1>6, <1>7, <1>11, <1>12, <1>13 DEF Means, Unknown, Ready
<1>15. MeansWhatItSays' /\ mem' = F.mem
  BY <1>1, <1>2, <1>10, <1>14, MeansIs
<1> QED
  BY <1>6, <1>7, <1>11, <1>12, <1>15

-----------------------------------------------------------------------------
(* Code does what the program means *)

\* What a function starts from.
EntryRight == phase = "entry" => reg = entry /\ ~last.value.known

FrameInvariant == FrameType /\ EntryRight /\ BaseRight /\ MeansWhatItSays

\* No access is to change a register that the frame needs.
LEMMA TargetsAre ==
    ASSUME FrameType,
           LoadConst \/ LoadLocal \/ AddressOfLocal \/ LoadSpilled \/ LoadByRegister
               \/ LoadAbsolute \/ StoreLocal \/ StoreByRegister \/ StoreAbsolute
    PROVE  last'.target \in {0} \cup 10..17
<1>1. \A r \in IntRegs[kind] : r \in 10..17
  BY RegistersAre
<1>2. \A r : Target(r) \in {0} \cup 10..17
  BY DEF Target, IsInt
<1>3. \A S, target, want, value : Access(S, target, want, value) => last'.target = target
  BY DEF Access
<1>4. CASE LoadConst
  BY <1>1, <1>3, <1>4 DEF LoadConst
<1>5. CASE LoadLocal
  BY <1>2, <1>3, <1>5 DEF LoadLocal
<1>6. CASE AddressOfLocal
  BY <1>1, <1>3, <1>6 DEF AddressOfLocal
<1>7. CASE LoadSpilled
  BY <1>2, <1>3, <1>7, LoadSpilledIs
<1>8. CASE LoadByRegister
  BY <1>2, <1>3, <1>8 DEF LoadByRegister
<1>9. CASE LoadAbsolute
  BY <1>2, <1>3, <1>9 DEF LoadAbsolute
<1>10. CASE StoreLocal
  BY <1>3, <1>10 DEF StoreLocal
<1>11. CASE StoreByRegister
  BY <1>3, <1>11 DEF StoreByRegister
<1>12. CASE StoreAbsolute
  BY <1>3, <1>12 DEF StoreAbsolute
<1> QED
  BY <1>4, <1>5, <1>6, <1>7, <1>8, <1>9, <1>10, <1>11, <1>12

LEMMA AccessesMean ==
    ASSUME FrameInvariant, RightConstants,
           LoadConst \/ LoadLocal \/ AddressOfLocal \/ LoadSpilled \/ LoadByRegister
               \/ LoadAbsolute \/ StoreLocal \/ StoreByRegister \/ StoreAbsolute
    PROVE  FrameInvariant'
<1>1. FrameType /\ assert_ok /\ BaseRight
  BY DEF FrameInvariant, MeansWhatItSays
<1>2. MeansWhatItSays'
  BY <1>1, LoadConstMeans, LoadLocalMeans, AddressOfLocalMeans, LoadSpilledMeans,
     LoadByRegisterMeans, LoadAbsoluteMeans, StoreLocalMeans, StoreByRegisterMeans,
     StoreAbsoluteMeans
<1>3. Accessed
  BY <1>1, AccessesKeep
<1>4. FrameType'
  BY <1>1, <1>3 DEF FrameType, Accessed
<1>5. EntryRight'
  BY <1>3 DEF Accessed, EntryRight
<1>6. BaseRight'
  <2>1. steps \in Nat /\ steps' = steps + 1 /\ phase = "body"
    BY <1>1, <1>3 DEF FrameType, Accessed
  <2>2. CASE AbsStores[kind]
    <3>1. kind' = kind /\ steps' # 0
      BY <1>3, <2>1 DEF Accessed
    <3> QED
      BY <2>2, <3>1 DEF BaseRight
  <2>3. CASE ~AbsStores[kind]
    <3>1. s0 \in KeptRegs /\ s0 # last'.target /\ s0 \notin Spoiled
      BY <1>1, <2>3, TargetsAre DEF KeptRegs, Spoiled, s0
    <3>2. reg'[s0] = reg[s0] /\ FramePointer' = FramePointer
      BY <1>3, <3>1 DEF Accessed, FramePointer
    <3> QED
      BY <1>1, <2>1, <2>3, <3>2 DEF BaseRight
  <2> QED
    BY <2>2, <2>3
<1> QED
  BY <1>2, <1>4, <1>5, <1>6 DEF FrameInvariant

\* The prologue lays the frame, and the epilogue's immediates fit.
LEMMA EnterDoes ==
    ASSUME FrameType, Enter
    PROVE  \E T : /\ T = Run(Prologue(loc, num_va_regs) \o SpillVa(num_va_regs))
                  /\ reg' = T.reg /\ mem' = T.mem /\ assert_ok' = T.ok /\ phase' = "body"
                  /\ UNCHANGED <<loc, num_va_regs, entry, steps, last, kind>>
BY DEF Enter

LEMMA EnterMeans ==
    ASSUME FrameInvariant, Enter
    PROVE  FrameInvariant'
<1>1. FrameType /\ assert_ok /\ EntryRight /\ MeansWhatItSays
  BY DEF FrameInvariant, MeansWhatItSays
<1>2. FrameType'
  BY <1>1, EnterIs
<1>3. PICK T : /\ T = Run(Prologue(loc, num_va_regs) \o SpillVa(num_va_regs))
               /\ reg' = T.reg /\ mem' = T.mem /\ assert_ok' = T.ok /\ phase' = "body"
               /\ UNCHANGED <<loc, num_va_regs, entry, steps, last, kind>>
  BY <1>1, EnterDoes
<1>4. reg = entry /\ ~last.value.known /\ last.addr = last.want
  BY <1>1 DEF EntryRight, MeansWhatItSays, Enter
<1>5. PICK S, l, nv, fp, v : /\ S = Cpu /\ l = loc /\ nv = num_va_regs
                             /\ fp = Minus(64, S.reg[sp], Bits(nv * 8)) /\ v = FrameSize(l, nv)
  OBVIOUS
<1>6. S \in CpuStates /\ S.reg = reg /\ S.ok
  BY <1>1, <1>5, CpuIs
<1>7. IsFrame(l, nv)
  BY <1>1, <1>5, FrameIs
<1>8. T = RunFrom(S, Prologue(l, nv) \o SpillVa(nv))
  BY <1>3, <1>5 DEF Run
<1>9. T.ok = S.ok /\ T.reg[s0] = fp
  <2>1. /\ S \in CpuStates /\ IsFrame(l, nv) /\ T = RunFrom(S, Prologue(l, nv) \o SpillVa(nv))
        /\ fp = Minus(64, S.reg[sp], Bits(nv * 8)) /\ v = FrameSize(l, nv)
    BY <1>5, <1>6, <1>7, <1>8
  <2> QED
    BY <2>1, PrologueDoes
<1>10. BaseRight'
  <2>1. FramePointer' = fp
    BY <1>3, <1>4, <1>5, <1>6 DEF FramePointer
  <2> QED
    BY <1>3, <1>9, <2>1 DEF BaseRight
<1>11. MeansWhatItSays' /\ EntryRight'
  BY <1>3, <1>4, <1>6, <1>9 DEF MeansWhatItSays, EntryRight
<1> QED
  BY <1>2, <1>10, <1>11 DEF FrameInvariant

LEMMA LeaveMeans ==
    ASSUME FrameInvariant, Leave
    PROVE  FrameInvariant'
<1>1. FrameType /\ assert_ok /\ MeansWhatItSays
  BY DEF FrameInvariant, MeansWhatItSays
<1>2. FrameType' /\ phase' = "returned"
  BY <1>1, LeaveIs
<1>3. PICK T, S, l, nv : /\ S = Cpu /\ l = loc /\ nv = num_va_regs
                         /\ T = RunFrom(S, Epilogue(l, nv)) /\ assert_ok' = T.ok
                         /\ last' = last
  BY DEF Leave, Run
<1>4. S \in CpuStates /\ S.ok
  BY <1>1, <1>3, CpuIs
<1>5. IsFrame(l, nv)
  BY <1>1, <1>3, FrameIs
<1>6. T.ok = S.ok
  <2>1. PICK a, fp, v : a = {} /\ fp = Minus(64, a, Bits(nv * 8)) /\ v = FrameSize(l, nv)
    OBVIOUS
  <2>2. a \in WordsOf(64)
    BY <2>1, EmptyIs
  <2> QED
    <3>1. /\ S \in CpuStates /\ IsFrame(l, nv) /\ T = RunFrom(S, Epilogue(l, nv))
          /\ v = FrameSize(l, nv) /\ a \in WordsOf(64) /\ fp = Minus(64, a, Bits(nv * 8))
      BY <1>3, <1>4, <1>5, <2>1, <2>2
    <3> QED
      BY <3>1, EpilogueDoes
<1>7. MeansWhatItSays' /\ EntryRight' /\ BaseRight'
  BY <1>1, <1>2, <1>3, <1>4, <1>6 DEF MeansWhatItSays, EntryRight, BaseRight
<1> QED
  BY <1>2, <1>7 DEF FrameInvariant

-----------------------------------------------------------------------------
(* The frame holds *)

\* The caller's registers are where the prologue saved them.
Saved ==
    /\ Holds(mem, RaSlot(FramePointer), entry[ra])
    /\ Holds(mem, S0Slot(FramePointer), entry[s0])

FrameHolds ==
    /\ entry[sp] = EntrySp
    /\ phase = "body" => reg[sp] = Plus(64, entry[sp], W(-FrameSize(loc, num_va_regs))) /\ Saved
    /\ phase = "returned" => \A r \in {ra, sp, s0} : reg[r] = entry[r]

\* No pointer or constant address that is stored to is that of a saved register.
StoresApart ==
    StoreByRegister \/ StoreAbsolute =>
        last'.want \notin {RaSlot(FramePointer), S0Slot(FramePointer)}

LEMMA ElsewhereHolds ==
    ASSUME NEW m, NEW a, NEW b, a # b, NEW w, NEW x, Holds(m, b, x)
    PROVE  Holds(Store(m, a, w), b, x)
BY DEF Store, Holds

LEMMA FrameIsWord ==
    ASSUME FrameType
    PROVE  /\ entry[sp] \in WordsOf(64) /\ FramePointer \in WordsOf(64)
           /\ entry[ra] \in WordsOf(64) /\ entry[s0] \in WordsOf(64)
           /\ num_va_regs * 8 \in Offsets /\ num_va_regs * 8 >= 0
           /\ FramePointer = Plus(64, entry[sp], W(-(num_va_regs * 8)))
<1>1. entry[sp] \in WordsOf(64) /\ entry[ra] \in WordsOf(64) /\ entry[s0] \in WordsOf(64)
  BY DEF FrameType, Regs, sp, ra, s0
<1>2. PICK n, a : n = num_va_regs * 8 /\ a = entry[sp]
  OBVIOUS
<1>3. n \in Offsets /\ n >= 0 /\ -n \in Offsets
  <2>1. num_va_regs \in 0..8
    BY OffsetsLie
  <2> QED
    BY <1>2, <2>1, SMT DEF Offsets
<1>4. Minus(64, a, Bits(n)) = Plus(64, a, W(-n))
  BY <1>1, <1>2, <1>3, Differences
<1>5. Plus(64, a, W(-n)) \in WordsOf(64)
  <2>1. PICK i : i = -n
    OBVIOUS
  <2> QED
    BY <1>1, <1>2, <1>3, <2>1, Differences
<1> QED
  BY <1>1, <1>2, <1>3, <1>4, <1>5 DEF FramePointer

\* No local lies on a saved register.
LEMMA LocalsApart ==
    ASSUME FrameType, NEW off \in Locals
    PROVE  LocalAt(off) # RaSlot(FramePointer) /\ LocalAt(off) # S0Slot(FramePointer)
<1>1. off \in Offsets /\ off <= -24
  <2>1. off \in Int /\ loc <= off /\ off <= -24 /\ loc \in Int /\ -LargestFrame < loc
    BY OffsetsLie
  <2> QED
    BY <2>1, SMT DEF Offsets, LargestFrame
<1>2. PICK i, j, fp : i = -8 /\ j = -16 /\ fp = FramePointer
  OBVIOUS
<1>3. i \in Offsets /\ j \in Offsets /\ off # i /\ off # j
  BY <1>1, <1>2, SMT DEF Offsets
<1>4. fp \in WordsOf(64)
  BY <1>2, FrameIsWord
<1>5. Plus(64, fp, W(off)) # Plus(64, fp, W(i)) /\ Plus(64, fp, W(off)) # Plus(64, fp, W(j))
  BY <1>1, <1>3, <1>4, PlacesDiffer
<1>6. RaSlot(fp) = Plus(64, fp, W(i)) /\ S0Slot(fp) = Plus(64, fp, W(j))
  BY <1>2 DEF RaSlot, S0Slot
<1> QED
  BY <1>2, <1>5, <1>6 DEF LocalAt

\* What an access writes, if anything.
LEMMA AccessesWrite ==
    ASSUME FrameInvariant, RightConstants,
           LoadConst \/ LoadLocal \/ AddressOfLocal \/ LoadSpilled \/ LoadByRegister
               \/ LoadAbsolute \/ StoreLocal \/ StoreByRegister \/ StoreAbsolute
    PROVE  \/ mem' = mem
           \/ \E off \in Locals : \E w : mem' = Store(mem, LocalAt(off), w)
           \/ (StoreByRegister \/ StoreAbsolute) /\ \E w : mem' = Store(mem, last'.want, w)
<1>1. FrameType /\ assert_ok /\ BaseRight
  BY DEF FrameInvariant, MeansWhatItSays
<1> QED
  BY <1>1, LoadConstMeans, LoadLocalMeans, AddressOfLocalMeans, LoadSpilledMeans,
     LoadByRegisterMeans, LoadAbsoluteMeans, StoreLocalMeans, StoreByRegisterMeans,
     StoreAbsoluteMeans

LEMMA AccessesSave ==
    ASSUME FrameInvariant, RightConstants, StoresApart, FrameHolds,
           LoadConst \/ LoadLocal \/ AddressOfLocal \/ LoadSpilled \/ LoadByRegister
               \/ LoadAbsolute \/ StoreLocal \/ StoreByRegister \/ StoreAbsolute
    PROVE  FrameHolds'
<1>1. FrameType /\ Accessed
  BY AccessesKeep DEF FrameInvariant
<1>2. /\ phase = "body" /\ phase' = "body" /\ FramePointer' = FramePointer /\ entry' = entry
      /\ FrameSize(loc, num_va_regs)' = FrameSize(loc, num_va_regs)
  BY <1>1 DEF Accessed, FramePointer
<1>3. PICK p, q, x, y : /\ p = RaSlot(FramePointer) /\ q = S0Slot(FramePointer)
                        /\ x = entry[ra] /\ y = entry[s0]
  OBVIOUS
<1>4. Holds(mem, p, x) /\ Holds(mem, q, y)
  BY <1>2, <1>3 DEF FrameHolds, Saved
<1>5. Holds(mem', p, x) /\ Holds(mem', q, y)
  <2>1. CASE mem' = mem
    BY <1>4, <2>1
  <2>2. CASE \E off \in Locals : \E w : mem' = Store(mem, LocalAt(off), w)
    <3>1. PICK off \in Locals : \E w : mem' = Store(mem, LocalAt(off), w)
      BY <2>2
    <3>2. PICK w, a : mem' = Store(mem, a, w) /\ a = LocalAt(off)
      BY <3>1
    <3>3. a # p /\ a # q
      BY <1>1, <1>3, <3>2, LocalsApart
    <3> QED
      BY <1>4, <3>2, <3>3, ElsewhereHolds
  <2>3. CASE (StoreByRegister \/ StoreAbsolute) /\ \E w : mem' = Store(mem, last'.want, w)
    <3>1. PICK w, a : mem' = Store(mem, a, w) /\ a = last'.want
      BY <2>3
    <3>2. a # p /\ a # q
      BY <1>3, <2>3, <3>1 DEF StoresApart
    <3> QED
      BY <1>4, <3>1, <3>2, ElsewhereHolds
  <2> QED
    BY <2>1, <2>2, <2>3, AccessesWrite
<1>6. reg'[sp] = reg[sp]
  <2>1. sp \in KeptRegs /\ sp # last'.target /\ sp \notin Spoiled
    BY <1>1, TargetsAre DEF KeptRegs, Spoiled, s0, sp
  <2> QED
    BY <1>1, <2>1 DEF Accessed
<1>7. Saved'
  BY <1>2, <1>3, <1>5 DEF Saved
<1> QED
  BY <1>2, <1>6, <1>7 DEF FrameHolds

LEMMA EnterHolds ==
    ASSUME FrameType, EntryRight, FrameHolds, Enter
    PROVE  FrameHolds'
<1>1. PICK T : /\ T = Run(Prologue(loc, num_va_regs) \o SpillVa(num_va_regs))
               /\ reg' = T.reg /\ mem' = T.mem /\ assert_ok' = T.ok /\ phase' = "body"
               /\ UNCHANGED <<loc, num_va_regs, entry, steps, last, kind>>
  BY EnterDoes
<1>2. reg = entry
  BY DEF EntryRight, Enter
<1>3. PICK S, l, nv, fp, v : /\ S = Cpu /\ l = loc /\ nv = num_va_regs
                             /\ fp = Minus(64, S.reg[sp], Bits(nv * 8)) /\ v = FrameSize(l, nv)
  OBVIOUS
<1>4. /\ S \in CpuStates /\ S.reg = entry
      /\ IsFrame(l, nv) /\ T = RunFrom(S, Prologue(l, nv) \o SpillVa(nv))
      /\ fp = Minus(64, S.reg[sp], Bits(nv * 8)) /\ v = FrameSize(l, nv)
  BY <1>1, <1>2, <1>3, CpuIs, FrameIs DEF Run
<1>5. /\ T.reg[sp] = Plus(64, S.reg[sp], W(-v))
      /\ Holds(T.mem, RaSlot(fp), S.reg[ra]) /\ Holds(T.mem, S0Slot(fp), S.reg[s0])
  BY <1>4, PrologueDoes
<1>6. FramePointer' = fp /\ FrameSize(loc, num_va_regs)' = v /\ entry' = entry
  BY <1>1, <1>3, <1>4 DEF FramePointer
<1>7. Saved'
  BY <1>1, <1>4, <1>5, <1>6 DEF Saved
<1>8. entry[sp] = EntrySp
  BY DEF FrameHolds
<1> QED
  BY <1>1, <1>4, <1>5, <1>6, <1>7, <1>8 DEF FrameHolds

LEMMA LeaveHolds ==
    ASSUME FrameType, FrameHolds, Leave
    PROVE  FrameHolds'
<1>1. PICK T, S, l, nv : /\ S = Cpu /\ l = loc /\ nv = num_va_regs
                         /\ T = RunFrom(S, Epilogue(l, nv)) /\ reg' = T.reg
                         /\ entry' = entry /\ phase' = "returned"
  BY DEF Leave, Run
<1>2. PICK a, fp, v, x, y : /\ a = entry[sp] /\ fp = Minus(64, a, Bits(nv * 8))
                            /\ v = FrameSize(l, nv) /\ x = entry[ra] /\ y = entry[s0]
  OBVIOUS
<1>3. /\ S \in CpuStates /\ IsFrame(l, nv) /\ T = RunFrom(S, Epilogue(l, nv))
      /\ v = FrameSize(l, nv) /\ a \in WordsOf(64) /\ fp = Minus(64, a, Bits(nv * 8))
  BY <1>1, <1>2, CpuIs, FrameIs, FrameIsWord
<1>4. S.reg[sp] = Plus(64, a, W(-v)) /\ Holds(S.mem, RaSlot(fp), x) /\ Holds(S.mem, S0Slot(fp), y)
  <2>1. S.reg = reg /\ S.mem = mem /\ fp = FramePointer
    BY <1>1, <1>2, CpuIs DEF FramePointer
  <2>2. phase = "body"
    BY DEF Leave
  <2> QED
    BY <1>1, <1>2, <2>1, <2>2 DEF FrameHolds, Saved
<1>5. T.reg[ra] = x /\ T.reg[s0] = y /\ T.reg[sp] = a
  <2>1. GivesBack(S, T, v, a, fp, x, y)
    BY <1>3, EpilogueDoes
  <2> QED
    BY <1>4, <2>1 DEF GivesBack
<1> QED
  BY <1>1, <1>2, <1>5 DEF FrameHolds

\* The stack pointer stays a multiple of 16.
LEMMA PointerAligned ==
    ASSUME FrameType, entry[sp] = EntrySp
    PROVE  Plus(64, entry[sp], W(-FrameSize(loc, num_va_regs))) \cap 0..3 = {}
<1>1. PICK l, nv, v, e, n : /\ l = loc /\ nv = num_va_regs /\ v = FrameSize(l, nv) /\ e = d(l, nv)
                            /\ n = -v
  OBVIOUS
<1>2. IsFrame(l, nv)
  BY <1>1, FrameIs
<1>3. v \in Nat /\ v % 16 = 0 /\ v \in Offsets
  BY <1>1, <1>2, FrameNumbers
<1>4. n \in Offsets /\ n % 16 = 0
  BY <1>1, <1>3, SMT DEF Offsets
<1>5. PICK a, b, w : a = entry[sp] /\ b = W(n) /\ w = 64
  OBVIOUS
<1>6. w \in Nat /\ w >= 32 /\ 4 \in 0..w
  BY <1>5
<1>7. b \cap 0..4 - 1 = {}
  <2>1. Word(w, n) \cap 0..4 - 1 = {}
    BY <1>4, <1>6, WordAligned
  <2> QED
    BY <1>5, <2>1 DEF W
<1>8. a \cap 0..4 - 1 = {}
  BY <1>5, FunctionAssumption
<1>9. a \in WordsOf(w) /\ b \in WordsOf(w)
  <2>1. Word(w, n) \in WordsOf(w)
    <3>1. n \in Int
      BY <1>4, OffsetsAre
    <3> QED
      BY <1>6, <3>1, WordIs
  <2> QED
    BY <1>5, <2>1, FrameIsWord DEF W
<1>10. Plus(4, a \cap 0..4 - 1, b \cap 0..4 - 1) = Plus(w, a, b) \cap 0..4 - 1
  BY <1>6, <1>9, PlusNarrow
<1>11. Plus(4, {}, {}) = {}
  BY PlusNone
<1>12. 0..4 - 1 = 0..3
  OBVIOUS
<1> QED
  BY <1>1, <1>5, <1>7, <1>8, <1>10, <1>11, <1>12

\* No local lies below the stack pointer.
LEMMA LocalsAbove ==
    ASSUME FrameType, NEW off \in Locals,
           NEW p, p = Plus(64, entry[sp], W(-FrameSize(loc, num_va_regs)))
    PROVE  63 \notin Minus(64, LocalAt(off), p)
<1>1. PICK l, nv, v, e, s, m, n, x, i :
         /\ l = loc /\ nv = num_va_regs /\ v = FrameSize(l, nv) /\ e = d(l, nv) /\ s = entry[sp]
         /\ m = -v /\ n = -(nv * 8) /\ x = off - nv * 8 + v /\ i = -(nv * 8) + off
  OBVIOUS
<1>2. IsFrame(l, nv)
  BY <1>1, FrameIs
<1>3. v \in Nat /\ v \in Offsets /\ nv * 8 - l <= v /\ v <= nv * 8 - l + 15
  BY <1>1, <1>2, FrameNumbers
<1>4. off \in Int /\ l <= off /\ off <= -24 /\ l \in Int /\ -LargestFrame < l /\ nv \in 0..8
  BY <1>1, OffsetsLie
<1>5. /\ m \in Offsets /\ n \in Offsets /\ x \in Offsets /\ x >= 0 /\ off \in Offsets
      /\ i \in Offsets /\ i = m + x /\ i = n + off
  BY <1>1, <1>3, <1>4, SMT DEF Offsets, LargestFrame
<1>6. s \in WordsOf(64) /\ FramePointer = Plus(64, s, W(n))
  BY <1>1, FrameIsWord
<1>7. Plus(64, Plus(64, s, W(n)), W(off)) = Plus(64, s, W(i))
  BY <1>5, <1>6, Sums
<1>8. Plus(64, Plus(64, s, W(m)), W(x)) = Plus(64, s, W(i))
  BY <1>5, <1>6, Sums
<1>9. p = Plus(64, s, W(m))
  BY <1>1
<1>10. PICK a, b, w : a = LocalAt(off) /\ b = W(x) /\ w = 64
  OBVIOUS
<1>11. w \in Nat /\ w >= 32
  BY <1>10
<1>12. a = Plus(w, p, b)
  BY <1>6, <1>7, <1>8, <1>9, <1>10 DEF LocalAt
<1>13. b \in WordsOf(w) /\ p \in WordsOf(w)
  <2>1. Word(w, x) \in WordsOf(w) /\ Word(w, m) \in WordsOf(w)
    <3>1. x \in Int /\ m \in Int
      BY <1>5, OffsetsAre
    <3> QED
      BY <1>11, <3>1, WordIs
  <2>2. Plus(w, s, Word(w, m)) \in WordsOf(w)
    BY <1>6, <1>10, <1>11, <2>1, PlusIs
  <2> QED
    BY <1>9, <1>10, <2>1, <2>2 DEF W
<1>14. Minus(w, a, p) = b
  <2>1. a \in WordsOf(w)
    BY <1>11, <1>12, <1>13, PlusIs
  <2>2. PICK c : c = Minus(w, a, p)
    OBVIOUS
  <2>3. c \in WordsOf(w) /\ Plus(w, p, c) = a
    BY <1>11, <1>13, <2>1, <2>2, MinusIs
  <2>4. Plus(w, c, p) = Plus(w, b, p)
    BY <1>12, <2>3, PlusCommutes
  <2>5. c = b
    BY <1>11, <1>13, <2>3, <2>4, PlusCancels
  <2> QED
    BY <2>2, <2>5
<1>15. 63 \notin b
  <2>1. PICK k : k = 30
    OBVIOUS
  <2>2. \A j \in Word(w, x) : j \in 0..k - 1
    BY <1>5, <1>11, <2>1, WordSigned
  <2> QED
    BY <1>10, <2>1, <2>2 DEF W
<1> QED
  BY <1>10, <1>14, <1>15

LEMMA FrameIsKept ==
    ASSUME FrameInvariant, FrameHolds
    PROVE  FrameKept
<1>1. FrameType /\ BaseRight
  BY DEF FrameInvariant
<1>2. phase = "body" /\ ~AbsStores[kind] => reg[s0] = FramePointer
  BY <1>1 DEF BaseRight
<1>3. phase \in {"body", "returned"} => reg[sp] \cap 0..3 = {}
  <2>1. phase = "body" => reg[sp] \cap 0..3 = {}
    BY <1>1, PointerAligned DEF FrameHolds
  <2>2. phase = "returned" => reg[sp] = EntrySp
    BY DEF FrameHolds
  <2>3. EntrySp \cap 0..3 = {}
    BY FunctionAssumption
  <2> QED
    BY <2>1, <2>2, <2>3
<1>4. phase = "body" =>
          \A off \in Locals : 63 \notin Minus(64, LocalAt(off), reg[sp]) /\ off <= -24
  <2> SUFFICES ASSUME phase = "body", NEW off \in Locals
               PROVE  63 \notin Minus(64, LocalAt(off), reg[sp]) /\ off <= -24
    OBVIOUS
  <2>1. off <= -24
    BY <1>1, OffsetsLie
  <2>2. PICK p : p = reg[sp]
    OBVIOUS
  <2>3. p = Plus(64, entry[sp], W(-FrameSize(loc, num_va_regs)))
    BY <2>2 DEF FrameHolds
  <2> QED
    BY <1>1, <2>1, <2>2, <2>3, LocalsAbove
<1>5. phase = "returned" => \A r \in {ra, sp, s0} : reg[r] = entry[r]
  BY DEF FrameHolds
<1> QED
  BY <1>2, <1>3, <1>4, <1>5 DEF FrameKept

LEMMA InvariantKept ==
    ASSUME RightConstants, FrameInvariant, [FrameNext]_frameVars
    PROVE  FrameInvariant'
<1>1. CASE UNCHANGED frameVars
  BY <1>1 DEF FrameInvariant, FrameType, EntryRight, BaseRight, MeansWhatItSays, FramePointer,
     frameVars
<1>2. CASE Enter
  BY <1>2, EnterMeans
<1>3. CASE Leave
  BY <1>3, LeaveMeans
<1>4. CASE LoadConst \/ LoadLocal \/ AddressOfLocal \/ LoadSpilled \/ LoadByRegister
               \/ LoadAbsolute \/ StoreLocal \/ StoreByRegister \/ StoreAbsolute
  BY <1>4, AccessesMean
<1> QED
  BY <1>1, <1>2, <1>3, <1>4 DEF FrameNext

\* A function's code of constants, locals and pointers accesses the address that the program
\* means and leaves the value it means, and every immediate fits its instruction, where the
\* constants are none of those that tcc loads wrongly (load, store, load_symofs,
\* load_large_constant, gfunc_prolog and gfunc_epilog).
THEOREM CodeMeansIt ==
    ASSUME RightConstants
    PROVE  FrameSpec => []MeansWhatItSays
<1>1. FrameInit => FrameInvariant
  BY EntryIs DEF FrameInit, FrameInvariant, EntryRight, BaseRight, MeansWhatItSays, Unknown
<1>2. FrameInvariant /\ [FrameNext]_frameVars => FrameInvariant'
  BY InvariantKept
<1>3. FrameInvariant => MeansWhatItSays
  BY DEF FrameInvariant
<1> QED
  BY <1>1, <1>2, <1>3, PTL DEF FrameSpec

\* The frame holds from the prologue to the return, whatever its size, the registers that a
\* variadic function spills and what the function loads and stores, as long as it stores
\* neither by a pointer nor to a constant address where its caller's registers are saved
\* (gfunc_prolog, gfunc_epilog, load_symofs and the locals that tccgen.c allocates).
THEOREM FrameStays ==
    ASSUME RightConstants
    PROVE  FrameSpec /\ [][StoresApart]_frameVars => []FrameKept
<1> DEFINE Inv == FrameInvariant /\ FrameHolds
<1>1. FrameInit => Inv
  <2> SUFFICES ASSUME FrameInit
               PROVE  Inv
    OBVIOUS
  <2>1. FrameInvariant
    BY EntryIs DEF FrameInit, FrameInvariant, EntryRight, BaseRight, MeansWhatItSays, Unknown
  <2>2. entry[sp] = EntrySp
    <3> DEFINE f(r) == CASE r = 0 -> {} [] r = sp -> EntrySp [] OTHER -> {r, 40}
    <3>1. f(sp) = EntrySp /\ sp \in Regs
      BY DEF sp, Regs
    <3>2. entry = [r \in Regs |-> f(r)]
      BY DEF FrameInit
    <3> HIDE DEF f
    <3> QED
      BY <3>1, <3>2
  <2> QED
    BY <2>1, <2>2 DEF FrameHolds, FrameInit
<1>2. Inv /\ [FrameNext]_frameVars /\ [StoresApart]_frameVars => Inv'
  <2> SUFFICES ASSUME Inv, [FrameNext]_frameVars, [StoresApart]_frameVars
               PROVE  Inv'
    OBVIOUS
  <2>1. FrameInvariant'
    BY InvariantKept
  <2>2. FrameHolds'
    <3>1. CASE UNCHANGED frameVars
      BY <3>1 DEF FrameHolds, Saved, FramePointer, frameVars
    <3>2. CASE Enter
      BY <3>2, EnterHolds DEF FrameInvariant
    <3>3. CASE Leave
      BY <3>3, LeaveHolds DEF FrameInvariant
    <3>4. CASE ~UNCHANGED frameVars /\ (LoadConst \/ LoadLocal \/ AddressOfLocal \/ LoadSpilled
                   \/ LoadByRegister \/ LoadAbsolute \/ StoreLocal \/ StoreByRegister \/ StoreAbsolute)
      BY <3>4, AccessesSave
    <3> QED
      BY <3>1, <3>2, <3>3, <3>4 DEF FrameNext
  <2> QED
    BY <2>1, <2>2
<1>3. Inv => FrameKept
  BY FrameIsKept
<1> QED
  BY <1>1, <1>2, <1>3, PTL DEF FrameSpec
=============================================================================
