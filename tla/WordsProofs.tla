---------------------------- MODULE WordsProofs -----------------------------
(* Sums and differences of machine words, and their signed parts, whatever   *)
(* their width.                                                              *)
EXTENDS Words, NaturalsInduction, WellFoundedInduction, TLAPS

\* The words of w bits.
WordsOf(w) == SUBSET (0..w - 1)

\* A set of natural numbers has a least element.
LEMMA LeastIn ==
    ASSUME NEW S, S \subseteq Nat, S # {}
    PROVE  Least(S) \in S /\ \A j \in S : Least(S) <= j
<1> DEFINE R == OpToRel(<, Nat)
<1>1. \A x, y \in Nat : <<y, x>> \notin R => x <= y
  BY DEF OpToRel
<1>2. IsWellFoundedOn(R, Nat)
  BY NatLessThanWellFounded
<1> HIDE DEF R
<1>3. PICK x \in S : \A y \in S : <<y, x>> \notin R
  BY <1>2, WFMin
<1>4. \A y \in S : x <= y
  BY <1>1, <1>3
<1>5. QED BY <1>4 DEF Least

-----------------------------------------------------------------------------
(* Addition *)

\* A bit has a carry if a lower bit makes one and the bits between pass it on.
LEMMA CarryIs ==
    ASSUME NEW w \in Nat, NEW a \in WordsOf(w), NEW b \in WordsOf(w), NEW i
    PROVE  i \in Carry(w, a, b) <=>
               /\ i \in 0..w - 1
               /\ \E j \in a \cap b : j < i /\ \A m \in j + 1..i - 1 : m \in a \cup b
<1> DEFINE zeros(j) == (j + 1..w - 1) \ (a \cup b)
           last(j) == IF zeros(j) = {} THEN w - 1 ELSE Least(zeros(j))
<1>1. ASSUME NEW j \in a \cap b, zeros(j) # {}
      PROVE  Least(zeros(j)) \in zeros(j) /\ \A m \in zeros(j) : Least(zeros(j)) <= m
  <2>1. j \in 0..w - 1 /\ zeros(j) \subseteq Nat
    BY DEF WordsOf
  <2> QED
    BY <1>1, <2>1, LeastIn
<1>2. Carry(w, a, b) = UNION {j + 1..last(j) : j \in a \cap b}
  BY DEF Carry
<1>3. \A j \in a \cap b : j \in 0..w - 1 /\ j \in Nat
  BY DEF WordsOf
<1>4. ASSUME NEW j \in a \cap b
      PROVE  i \in j + 1..last(j) <=>
                 i \in 0..w - 1 /\ j < i /\ \A m \in j + 1..i - 1 : m \in a \cup b
  <2>1. CASE zeros(j) = {}
    <3>1. last(j) = w - 1
      BY <2>1
    <3>2. \A m \in j + 1..w - 1 : m \in a \cup b
      BY <2>1
    <3> HIDE DEF last, zeros
    <3> QED
      BY <3>1, <3>2, <1>3
  <2>2. CASE zeros(j) # {}
    <3> DEFINE l == Least(zeros(j))
    <3>1. last(j) = l
      BY <2>2
    <3>2. l \in j + 1..w - 1 /\ l \notin a \cup b
      BY <1>1, <2>2
    <3>3. \A m \in j + 1..w - 1 : m < l => m \in a \cup b
      <4>1. \A m \in j + 1..w - 1 : m \notin a \cup b => m \in zeros(j)
        OBVIOUS
      <4>2. \A m \in zeros(j) : l <= m
        BY <1>1, <2>2
      <4> HIDE DEF l, zeros
      <4> QED
        BY <4>1, <4>2, <3>2, <1>3
    <3> HIDE DEF last, zeros, l
    <3>4. ASSUME i \in j + 1..last(j)
          PROVE  i \in 0..w - 1 /\ j < i /\ \A m \in j + 1..i - 1 : m \in a \cup b
      BY <3>4, <3>1, <3>2, <3>3, <1>3
    <3>5. ASSUME i \in 0..w - 1, j < i, \A m \in j + 1..i - 1 : m \in a \cup b
          PROVE  i \in j + 1..last(j)
      BY <3>5, <3>1, <3>2, <1>3
    <3> QED
      BY <3>4, <3>5
  <2> QED
    BY <2>1, <2>2
<1> HIDE DEF last
<1> QED
  BY <1>2, <1>4

\* The carry of a bit is made by the bit below it: a full adder.
LEMMA CarryStep ==
    ASSUME NEW w \in Nat, NEW a \in WordsOf(w), NEW b \in WordsOf(w)
    PROVE  /\ Carry(w, a, b) \in WordsOf(w)
           /\ 0 \notin Carry(w, a, b)
           /\ \A k \in Nat : k + 1 < w =>
                 (k + 1 \in Carry(w, a, b) <=>
                      (k \in a /\ k \in b) \/ (k \in Carry(w, a, b) /\ (k \in a \/ k \in b)))
<1> DEFINE c == Carry(w, a, b)
<1>1. \A j \in a \cap b : j \in 0..w - 1
  BY DEF WordsOf
<1>2. \A i : i \in c <=>
               /\ i \in 0..w - 1
               /\ \E j \in a \cap b : j < i /\ \A m \in j + 1..i - 1 : m \in a \cup b
  BY CarryIs
<1> HIDE DEF c
<1>3. c \in WordsOf(w) /\ 0 \notin c
  BY <1>1, <1>2 DEF WordsOf
<1>4. ASSUME NEW k \in Nat, k + 1 < w
      PROVE  k + 1 \in c <=> (k \in a /\ k \in b) \/ (k \in c /\ (k \in a \/ k \in b))
  <2>1. ASSUME k + 1 \in c, ~(k \in a /\ k \in b) PROVE k \in c /\ (k \in a \/ k \in b)
    <3>1. PICK j \in a \cap b : j < k + 1 /\ \A m \in j + 1..(k + 1) - 1 : m \in a \cup b
      BY <2>1, <1>2
    <3>2. j \in 0..w - 1 /\ j < k /\ k \in 0..w - 1
      BY <3>1, <2>1, <1>1, <1>4
    <3>3. k \in a \cup b /\ \A m \in j + 1..k - 1 : m \in a \cup b
      BY <3>1, <3>2
    <3> QED
      BY <3>2, <3>3, <1>2
  <2>2. ASSUME k \in a, k \in b PROVE k + 1 \in c
    <3>1. k \in a \cap b /\ k < k + 1 /\ k + 1 \in 0..w - 1
      BY <2>2, <1>4
    <3>2. \A m \in k + 1..(k + 1) - 1 : m \in a \cup b
      OBVIOUS
    <3> QED
      BY <3>1, <3>2, <1>2
  <2>3. ASSUME k \in c, k \in a \cup b PROVE k + 1 \in c
    <3>1. PICK j \in a \cap b : j < k /\ \A m \in j + 1..k - 1 : m \in a \cup b
      BY <2>3, <1>2
    <3>2. j \in 0..w - 1 /\ j < k + 1 /\ k + 1 \in 0..w - 1
      BY <3>1, <1>1, <1>4
    <3>3. \A m \in j + 1..(k + 1) - 1 : m \in j + 1..k - 1 \/ m = k
      BY <3>2
    <3>4. \A m \in j + 1..(k + 1) - 1 : m \in a \cup b
      BY <3>1, <3>3, <2>3
    <3> QED
      BY <3>1, <3>2, <3>4, <1>2
  <2> QED
    BY <2>1, <2>2, <2>3
<1> QED
  BY <1>3, <1>4 DEF c

\* Induction over the bits of a word, on the set of those that are as they should be.
LEMMA BitInduction ==
    ASSUME NEW w \in Nat, NEW S, w > 0 => 0 \in S,
           \A k \in Nat : k + 1 < w /\ k \in S => k + 1 \in S
    PROVE  \A k \in 0..w - 1 : k \in S
<1> DEFINE bad == {k \in 0..w - 1 : k \notin S}
<1>1. SUFFICES ASSUME bad # {} PROVE FALSE
  OBVIOUS
<1>2. Least(bad) \in bad /\ \A j \in bad : Least(bad) <= j
  BY <1>1, LeastIn
<1> DEFINE l == Least(bad)
<1>3. l \in 0..w - 1 /\ l \notin S /\ \A j \in 0..w - 1 : j < l => j \in S
  BY <1>2
<1> HIDE DEF l, bad
<1>4. l # 0 /\ l - 1 \in Nat /\ l - 1 \in S /\ (l - 1) + 1 = l
  BY <1>3
<1> QED
  BY <1>3, <1>4

LEMMA PlusIs ==
    ASSUME NEW w \in Nat, NEW a \in WordsOf(w), NEW b \in WordsOf(w)
    PROVE  /\ Plus(w, a, b) \in WordsOf(w)
           /\ \A k : k \in Plus(w, a, b) <=> ((k \in a <=> k \in b) <=> k \in Carry(w, a, b))
<1>1. Carry(w, a, b) \in WordsOf(w)
  BY CarryStep
<1> QED
  BY <1>1 DEF Plus, Xor, WordsOf

LEMMA PlusCommutes ==
    ASSUME NEW w, NEW a, NEW b
    PROVE  Plus(w, a, b) = Plus(w, b, a)
<1>1. Xor(a, b) = Xor(b, a)
  BY DEF Xor
<1>2. a \cap b = b \cap a /\ a \cup b = b \cup a
  OBVIOUS
<1>3. Carry(w, a, b) = Carry(w, b, a)
  BY <1>2 DEF Carry
<1> QED
  BY <1>1, <1>3 DEF Plus

\* Of three words that are added, the carries of the two additions are as many, whichever
\* comes first.
LEMMA PlusAssociates ==
    ASSUME NEW w \in Nat, NEW a \in WordsOf(w), NEW b \in WordsOf(w), NEW c \in WordsOf(w)
    PROVE  Plus(w, Plus(w, a, b), c) = Plus(w, a, Plus(w, b, c))
<1> DEFINE ab == Plus(w, a, b)
           bc == Plus(w, b, c)
           p == Carry(w, a, b)
           q == Carry(w, ab, c)
           r == Carry(w, b, c)
           s == Carry(w, a, bc)
           same == {k \in Nat : /\ (k \in p /\ k \in q) <=> (k \in r /\ k \in s)
                                /\ (k \in p \/ k \in q) <=> (k \in r \/ k \in s)}
<1>1. ab \in WordsOf(w) /\ bc \in WordsOf(w)
  BY PlusIs
<1>2. /\ \A k : k \in ab <=> ((k \in a <=> k \in b) <=> k \in p)
      /\ \A k : k \in bc <=> ((k \in b <=> k \in c) <=> k \in r)
  BY PlusIs
<1>3. /\ 0 \notin p /\ 0 \notin q /\ 0 \notin r /\ 0 \notin s
      /\ p \in WordsOf(w) /\ q \in WordsOf(w) /\ r \in WordsOf(w) /\ s \in WordsOf(w)
  BY <1>1, CarryStep
<1>4. \A k \in Nat : k + 1 < w =>
          /\ k + 1 \in p <=> (k \in a /\ k \in b) \/ (k \in p /\ (k \in a \/ k \in b))
          /\ k + 1 \in q <=> (k \in ab /\ k \in c) \/ (k \in q /\ (k \in ab \/ k \in c))
          /\ k + 1 \in r <=> (k \in b /\ k \in c) \/ (k \in r /\ (k \in b \/ k \in c))
          /\ k + 1 \in s <=> (k \in a /\ k \in bc) \/ (k \in s /\ (k \in a \/ k \in bc))
  BY <1>1, CarryStep
<1> DEFINE x == Plus(w, ab, c)
           y == Plus(w, a, bc)
<1>5. /\ \A k : k \in x <=> ((k \in ab <=> k \in c) <=> k \in q)
      /\ \A k : k \in y <=> ((k \in a <=> k \in bc) <=> k \in s)
      /\ x \in WordsOf(w) /\ y \in WordsOf(w)
  BY <1>1, PlusIs
<1> HIDE DEF ab, bc, p, q, r, s, x, y
<1>6. 0 \in same
  BY <1>3
<1>7. ASSUME NEW k \in Nat, k + 1 < w, k \in same PROVE k + 1 \in same
  <2>1. /\ (k \in p /\ k \in q) <=> (k \in r /\ k \in s)
        /\ (k \in p \/ k \in q) <=> (k \in r \/ k \in s)
    BY <1>7
  <2>2. /\ k \in ab <=> ((k \in a <=> k \in b) <=> k \in p)
        /\ k \in bc <=> ((k \in b <=> k \in c) <=> k \in r)
    BY <1>2
  <2>3. /\ k + 1 \in p <=> (k \in a /\ k \in b) \/ (k \in p /\ (k \in a \/ k \in b))
        /\ k + 1 \in q <=> (k \in ab /\ k \in c) \/ (k \in q /\ (k \in ab \/ k \in c))
        /\ k + 1 \in r <=> (k \in b /\ k \in c) \/ (k \in r /\ (k \in b \/ k \in c))
        /\ k + 1 \in s <=> (k \in a /\ k \in bc) \/ (k \in s /\ (k \in a \/ k \in bc))
    BY <1>4, <1>7
  <2>4. /\ (k + 1 \in p /\ k + 1 \in q) <=> (k + 1 \in r /\ k + 1 \in s)
        /\ (k + 1 \in p \/ k + 1 \in q) <=> (k + 1 \in r \/ k + 1 \in s)
    BY <2>1, <2>2, <2>3
  <2> QED
    BY <2>4
<1>8. \A k \in 0..w - 1 : k \in same
  BY <1>6, <1>7, BitInduction
<1>9. ASSUME NEW k \in 0..w - 1 PROVE k \in x <=> k \in y
  <2>1. k \in same
    BY <1>8
  <2> QED
    BY <2>1, <1>2, <1>5
<1> QED
  BY <1>5, <1>9 DEF x, y, ab, bc, WordsOf

\* Words without a common bit are added by joining them.
LEMMA PlusApart ==
    ASSUME NEW w, NEW a, NEW b, a \cap b = {}
    PROVE  Plus(w, a, b) = a \cup b
<1>1. Carry(w, a, b) = {}
  BY DEF Carry
<1> QED
  BY <1>1 DEF Plus, Xor

-----------------------------------------------------------------------------
(* Subtraction *)

LEMMA NegIs ==
    ASSUME NEW w \in Nat, NEW a \in WordsOf(w)
    PROVE  Neg(w, a) \in WordsOf(w) /\ Plus(w, a, Neg(w, a)) = {}
<1> DEFINE l == Least(a)
           n == Neg(w, a)
<1>1. CASE a = {}
  <2>1. n = {}
    BY <1>1 DEF Neg
  <2> HIDE DEF n
  <2>2. Plus(w, a, n) = a \cup n
    BY <2>1, PlusApart
  <2>3. n \in WordsOf(w) /\ Plus(w, a, n) = {}
    BY <2>1, <2>2, <1>1 DEF WordsOf
  <2>4. n = Neg(w, a)
    BY DEF n
  <2> QED
    BY <2>3, <2>4
<1>2. CASE a # {}
  <2>1. l \in 0..w - 1 /\ l \in a /\ \A j \in a : j \in 0..w - 1 /\ l <= j
    <3>1. \A j \in a : j \in 0..w - 1
      BY DEF WordsOf
    <3>2. a \subseteq Nat
      BY <3>1
    <3>3. l \in a /\ \A j \in a : l <= j
      BY <1>2, <3>2, LeastIn
    <3> QED
      BY <3>1, <3>3
  <2>2. n = {l} \cup ((l + 1..w - 1) \ a)
    BY <1>2 DEF Neg
  <2> HIDE DEF l, n
  <2>3. n \in WordsOf(w)
    BY <2>1, <2>2 DEF WordsOf
  <2>4. a \cap n = {l} /\ \A k \in l + 1..w - 1 : k \in a \cup n
    BY <2>1, <2>2
  <2>5. \A i : i \in Carry(w, a, n) <=> i \in l + 1..w - 1
    <3>1. \A i : i \in Carry(w, a, n) <=>
               /\ i \in 0..w - 1
               /\ \E j \in a \cap n : j < i /\ \A m \in j + 1..i - 1 : m \in a \cup n
      BY <2>3, CarryIs
    <3>2. \A i \in 0..w - 1 : \A m \in l + 1..i - 1 : m \in l + 1..w - 1
      BY <2>1
    <3>3. \A i : i \in Carry(w, a, n) => i \in l + 1..w - 1
      BY <3>1, <2>1, <2>4
    <3>4. \A i \in l + 1..w - 1 : i \in Carry(w, a, n)
      <4> TAKE i \in l + 1..w - 1
      <4>1. i \in 0..w - 1 /\ l < i /\ l \in a \cap n
        BY <2>1, <2>4
      <4>2. \A m \in l + 1..i - 1 : m \in a \cup n
        BY <4>1, <3>2, <2>4
      <4> QED
        BY <4>1, <4>2, <3>1
    <3> QED
      BY <3>3, <3>4
  <2>6. ASSUME NEW k PROVE k \notin Plus(w, a, n)
    <3>1. k \in a \/ k \in n => k \in l..w - 1
      <4>1. k \in a => k \in l..w - 1
        BY <2>1
      <4>2. k \in n => k = l \/ k \in l + 1..w - 1
        BY <2>2
      <4> QED
        BY <4>1, <4>2, <2>1
    <3>0. k \in Plus(w, a, n) <=> ((k \in a <=> k \in n) <=> k \in Carry(w, a, n))
      BY <2>3, PlusIs
    <3>2. CASE k \in l + 1..w - 1
      <4>1. k \in Carry(w, a, n) /\ (k \in a <=> k \notin n)
        BY <3>2, <2>1, <2>2, <2>5
      <4> QED
        BY <4>1, <3>0
    <3>3. CASE k = l
      <4>1. k \notin Carry(w, a, n) /\ k \in a /\ k \in n
        BY <3>3, <2>1, <2>2, <2>5
      <4> QED
        BY <4>1, <3>0
    <3>4. CASE k \notin l..w - 1
      <4>1. k \notin Carry(w, a, n) /\ k \notin a /\ k \notin n
        BY <3>1, <3>4, <2>1, <2>5
      <4> QED
        BY <4>1, <3>0
    <3> QED
      BY <3>2, <3>3, <3>4, <2>1
  <2> QED
    BY <2>3, <2>6 DEF n
<1> QED
  BY <1>1, <1>2

LEMMA PlusNone ==
    ASSUME NEW w, NEW a
    PROVE  Plus(w, a, {}) = a
BY PlusApart

\* What was subtracted can be added again.
LEMMA MinusIs ==
    ASSUME NEW w \in Nat, NEW a \in WordsOf(w), NEW b \in WordsOf(w)
    PROVE  Minus(w, a, b) \in WordsOf(w) /\ Plus(w, b, Minus(w, a, b)) = a
<1> DEFINE n == Neg(w, b)
<1>1. n \in WordsOf(w) /\ Plus(w, b, n) = {}
  BY NegIs
<1>2. Minus(w, a, b) = Plus(w, a, n)
  BY DEF Minus
<1> HIDE DEF n
<1>3. Plus(w, a, n) \in WordsOf(w)
  BY <1>1, PlusIs
<1>4. Plus(w, b, Plus(w, a, n)) = Plus(w, Plus(w, a, n), b)
  BY PlusCommutes
<1>5. Plus(w, Plus(w, a, n), b) = Plus(w, a, Plus(w, n, b))
  BY <1>1, PlusAssociates
<1>6. Plus(w, n, b) = {}
  BY <1>1, PlusCommutes
<1> QED
  BY <1>2, <1>3, <1>4, <1>5, <1>6, PlusNone

LEMMA PlusCancels ==
    ASSUME NEW w \in Nat, NEW a \in WordsOf(w), NEW b \in WordsOf(w), NEW c \in WordsOf(w),
           Plus(w, a, c) = Plus(w, b, c)
    PROVE  a = b
<1> DEFINE n == Neg(w, c)
<1>1. n \in WordsOf(w) /\ Plus(w, c, n) = {}
  BY NegIs
<1> HIDE DEF n
<1>2. Plus(w, Plus(w, a, c), n) = Plus(w, a, Plus(w, c, n))
  BY <1>1, PlusAssociates
<1>3. Plus(w, Plus(w, b, c), n) = Plus(w, b, Plus(w, c, n))
  BY <1>1, PlusAssociates
<1> QED
  BY <1>1, <1>2, <1>3, PlusNone

-----------------------------------------------------------------------------
(* Narrower words *)

\* The low bits of a sum are the sum of the low bits.
LEMMA PlusNarrow ==
    ASSUME NEW w \in Nat, NEW n \in 0..w, NEW a \in WordsOf(w), NEW b \in WordsOf(w)
    PROVE  Plus(n, a \cap 0..n - 1, b \cap 0..n - 1) = Plus(w, a, b) \cap 0..n - 1
<1> DEFINE al == a \cap 0..n - 1
           bl == b \cap 0..n - 1
<1>1. n \in Nat /\ al \in WordsOf(n) /\ bl \in WordsOf(n)
  BY DEF WordsOf
<1>2. \A i : i \in Carry(n, al, bl) <=>
               /\ i \in 0..n - 1
               /\ \E j \in al \cap bl : j < i /\ \A m \in j + 1..i - 1 : m \in al \cup bl
  <2> HIDE DEF al, bl
  <2> QED
    BY <1>1, CarryIs
<1>3. \A i : i \in Carry(w, a, b) <=>
               /\ i \in 0..w - 1
               /\ \E j \in a \cap b : j < i /\ \A m \in j + 1..i - 1 : m \in a \cup b
  BY CarryIs
<1>4. \A k : k \in al <=> k \in a /\ k \in 0..n - 1
  OBVIOUS
<1>5. \A k : k \in bl <=> k \in b /\ k \in 0..n - 1
  OBVIOUS
<1>6. \A j \in a : j \in 0..w - 1
  BY DEF WordsOf
<1>7. Plus(n, al, bl) \in WordsOf(n) /\ Plus(w, a, b) \in WordsOf(w)
  <2> HIDE DEF al, bl
  <2> QED
    BY <1>1, PlusIs
<1>8. \A k : k \in Plus(n, al, bl) <=> ((k \in al <=> k \in bl) <=> k \in Carry(n, al, bl))
  <2> HIDE DEF al, bl
  <2> QED
    BY <1>1, PlusIs
<1>9. \A k : k \in Plus(w, a, b) <=> ((k \in a <=> k \in b) <=> k \in Carry(w, a, b))
  BY PlusIs
<1> HIDE DEF al, bl
<1>10. ASSUME NEW i \in 0..n - 1
       PROVE  i \in Carry(n, al, bl) <=> i \in Carry(w, a, b)
  <2>1. i \in 0..w - 1
    OBVIOUS
  <2>2. ASSUME NEW j \in a \cap b, j < i, \A m \in j + 1..i - 1 : m \in a \cup b
        PROVE  j \in al \cap bl /\ \A m \in j + 1..i - 1 : m \in al \cup bl
    <3>1. j \in 0..n - 1
      BY <2>2, <1>6
    <3>2. \A m \in j + 1..i - 1 : m \in 0..n - 1
      BY <3>1
    <3> QED
      BY <2>2, <3>1, <3>2, <1>4, <1>5
  <2>3. al \cap bl \subseteq a \cap b /\ al \cup bl \subseteq a \cup b
    BY <1>4, <1>5
  <2> QED
    BY <1>2, <1>3, <2>1, <2>2, <2>3
<1>11. ASSUME NEW k PROVE k \in Plus(n, al, bl) <=> k \in Plus(w, a, b) /\ k \in 0..n - 1
  <2>1. CASE k \in 0..n - 1
    BY <2>1, <1>4, <1>5, <1>8, <1>9, <1>10
  <2>2. CASE k \notin 0..n - 1
    BY <2>2, <1>7 DEF WordsOf
  <2> QED
    BY <2>1, <2>2
<1> QED
  BY <1>11 DEF al, bl

LEMMA NegNarrow ==
    ASSUME NEW w \in Nat, NEW n \in 0..w, NEW a \in WordsOf(w)
    PROVE  Neg(n, a \cap 0..n - 1) = Neg(w, a) \cap 0..n - 1
<1> DEFINE al == a \cap 0..n - 1
           x == Neg(w, a)
           y == Neg(n, al)
           xl == x \cap 0..n - 1
<1>1. n \in Nat /\ al \in WordsOf(n) /\ xl \in WordsOf(n)
  BY DEF WordsOf
<1>2. x \in WordsOf(w) /\ Plus(w, a, x) = {}
  BY NegIs
<1> HIDE DEF x
<1>3. Plus(n, al, xl) = {}
  <2>0. x \in WordsOf(w)
    BY <1>2
  <2>1. Plus(n, a \cap 0..n - 1, x \cap 0..n - 1) = Plus(w, a, x) \cap 0..n - 1
    BY <2>0, PlusNarrow
  <2> QED
    BY <2>1, <1>2
<1> HIDE DEF al, xl
<1>4. y \in WordsOf(n) /\ Plus(n, al, y) = {}
  BY <1>1, NegIs
<1> HIDE DEF y
<1>5. Plus(n, xl, al) = Plus(n, y, al)
  BY <1>3, <1>4, PlusCommutes
<1>6. xl = y
  BY <1>1, <1>4, <1>5, PlusCancels
<1> QED
  BY <1>6 DEF xl, y, x, al

LEMMA MinusNarrow ==
    ASSUME NEW w \in Nat, NEW n \in 0..w, NEW a \in WordsOf(w), NEW b \in WordsOf(w)
    PROVE  Minus(n, a \cap 0..n - 1, b \cap 0..n - 1) = Minus(w, a, b) \cap 0..n - 1
<1> DEFINE x == Neg(w, b)
<1>1. x \in WordsOf(w)
  BY NegIs
<1>2. Neg(n, b \cap 0..n - 1) = x \cap 0..n - 1
  BY NegNarrow
<1>3. Minus(w, a, b) = Plus(w, a, x)
  BY DEF Minus
<1> HIDE DEF x
<1>4. Plus(n, a \cap 0..n - 1, x \cap 0..n - 1) = Plus(w, a, x) \cap 0..n - 1
  BY <1>1, PlusNarrow
<1> QED
  BY <1>2, <1>3, <1>4 DEF Minus

-----------------------------------------------------------------------------
(* Signed numbers *)

\* A signed number of n bits with 2^(n-1) added is an unsigned one: its sign is inverted.
LEMMA SignedOffset ==
    ASSUME NEW w \in Nat, NEW n \in 1..w, NEW x \in WordsOf(w), x = Sext(w, x, n)
    PROVE  \A k : k \in Plus(w, x, {n - 1}) <=>
                      (k \in x /\ k \in 0..n - 2) \/ (k = n - 1 /\ k \notin x)
<1> DEFINE s == n - 1
           b == {s}
<1>1. s \in 0..w - 1 /\ b \in WordsOf(w) /\ s \in Nat /\ n = s + 1
  BY DEF WordsOf
<1>2. \A k : k \in x => k \in 0..w - 1
  BY DEF WordsOf
<1>3. \A k \in s..w - 1 : k \in x <=> s \in x
  <2>1. \A k : k \in x <=> k \in Sext(w, x, n)
    OBVIOUS
  <2> QED
    BY <2>1, <1>1 DEF Sext
<1>4. \A k : k \in Plus(w, x, b) <=> ((k \in x <=> k \in b) <=> k \in Carry(w, x, b))
  <2> HIDE DEF b
  <2> QED
    BY <1>1, PlusIs
<1>5. \A i : i \in Carry(w, x, b) <=>
               /\ i \in 0..w - 1
               /\ \E j \in x \cap b : j < i /\ \A m \in j + 1..i - 1 : m \in x \cup b
  <2> HIDE DEF b
  <2> QED
    BY <1>1, CarryIs
<1>6. \A i : i \in Carry(w, x, b) <=> s \in x /\ i \in s + 1..w - 1
  <2>1. ASSUME NEW i \in Carry(w, x, b) PROVE s \in x /\ i \in s + 1..w - 1
    <3>1. i \in 0..w - 1 /\ \E j \in x \cap b : j < i
      BY <1>5
    <3>2. s \in x /\ s < i
      BY <3>1
    <3> HIDE DEF s
    <3> QED
      BY <1>1, <3>1, <3>2
  <2>2. ASSUME NEW i \in s + 1..w - 1, s \in x PROVE i \in Carry(w, x, b)
    <3>1. s \in x \cap b /\ s < i /\ i \in 0..w - 1
      BY <2>2, <1>1
    <3>2. \A m \in s + 1..i - 1 : m \in s..w - 1
      BY <1>1
    <3>3. \A m \in s + 1..i - 1 : m \in x \cup b
      BY <2>2, <3>2, <1>3
    <3> QED
      BY <3>1, <3>3, <1>5
  <2> QED
    BY <2>1, <2>2
<1>7. \A k : k \in b <=> k = s
  OBVIOUS
<1>8. \A k : k \in 0..n - 2 <=> k \in 0..w - 1 /\ k < s
  BY <1>1
<1> HIDE DEF s, b
<1>9. ASSUME NEW k
      PROVE  k \in Plus(w, x, b) <=> (k \in x /\ k \in 0..n - 2) \/ (k = s /\ k \notin x)
  <2>1. CASE k \in 0..w - 1 /\ k < s
    BY <2>1, <1>1, <1>4, <1>6, <1>7, <1>8
  <2>2. CASE k = s
    BY <2>2, <1>1, <1>4, <1>6, <1>7, <1>8
  <2>3. CASE k \in s + 1..w - 1
    <3>1. k \in s..w - 1 /\ k # s /\ ~(k < s)
      BY <2>3, <1>1
    <3> QED
      BY <2>3, <3>1, <1>3, <1>4, <1>6, <1>7, <1>8
  <2>4. CASE k \notin 0..w - 1
    <3>1. k # s /\ k \notin s + 1..w - 1 /\ k \notin x
      BY <2>4, <1>1, <1>2
    <3> QED
      BY <2>4, <3>1, <1>4, <1>6, <1>7, <1>8
  <2> QED
    BY <2>1, <2>2, <2>3, <2>4, <1>1
<1> QED
  BY <1>9 DEF s, b

\* And only a signed number of n bits.
LEMMA OffsetSigned ==
    ASSUME NEW w \in Nat, NEW n \in 1..w, NEW x \in WordsOf(w),
           Plus(w, x, {n - 1}) \subseteq 0..n - 1
    PROVE  x = Sext(w, x, n)
<1> DEFINE s == n - 1
           b == {s}
<1>1. s \in 0..w - 1 /\ b \in WordsOf(w) /\ s \in Nat /\ n = s + 1
  BY DEF WordsOf
<1>2. \A k : k \in x => k \in 0..w - 1
  BY DEF WordsOf
<1>3. \A k : k \in Plus(w, x, b) <=> ((k \in x <=> k \in b) <=> k \in Carry(w, x, b))
  <2> HIDE DEF b
  <2> QED
    BY <1>1, PlusIs
<1>4. \A i : i \in Carry(w, x, b) <=>
               /\ i \in 0..w - 1
               /\ \E j \in x \cap b : j < i /\ \A m \in j + 1..i - 1 : m \in x \cup b
  <2> HIDE DEF b
  <2> QED
    BY <1>1, CarryIs
<1>5. \A k : k \in b <=> k = s
  OBVIOUS
<1>6. \A k \in n..w - 1 : k \notin Plus(w, x, b)
  BY <1>1
<1> HIDE DEF s, b
<1>7. \A k \in n..w - 1 : k \in x <=> k \in Carry(w, x, b)
  BY <1>1, <1>3, <1>5, <1>6
<1>8. CASE s \notin x
  <2>1. \A k \in n..w - 1 : k \notin Carry(w, x, b)
    BY <1>8, <1>4, <1>5
  <2>2. \A k : k \in x => k \in 0..n - 1
    BY <2>1, <1>2, <1>7, <1>1
  <2> QED
    BY <2>2, <1>8, <1>1 DEF Sext
<1>9. CASE s \in x
  <2> DEFINE bad == {k \in n..w - 1 : k \notin x}
  <2>1. bad = {}
    <3>1. SUFFICES ASSUME bad # {} PROVE FALSE
      OBVIOUS
    <3>2. bad \subseteq Nat
      BY <1>1
    <3>3. Least(bad) \in bad /\ \A j \in bad : Least(bad) <= j
      BY <3>1, <3>2, LeastIn
    <3> DEFINE l == Least(bad)
    <3>4. l \in n..w - 1 /\ l \notin x /\ \A j \in n..w - 1 : j < l => j \in x
      BY <3>3
    <3> HIDE DEF l, bad
    <3>5. s \in x \cap b /\ s < l /\ l \in 0..w - 1
      BY <3>4, <1>1, <1>5, <1>9
    <3>6. \A m \in s + 1..l - 1 : m \in x \cup b
      BY <3>4, <1>1
    <3>7. l \in Carry(w, x, b)
      BY <3>5, <3>6, <1>4
    <3> QED
      BY <3>4, <3>7, <1>7
  <2>2. \A k \in n..w - 1 : k \in x
    BY <2>1
  <2> QED
    BY <2>2, <1>2, <1>9, <1>1 DEF Sext
<1> QED
  BY <1>8, <1>9

\* A high and a low half add up to a word if the low half is taken as signed, and what that
\* takes away from the high one is added before: 2^11.
LEMMA HalvesAddUp ==
    ASSUME NEW off \in WordsOf(64)
    PROVE  Plus(64, Plus(64, off, {11}) \ (0..11), Sext(64, off, 12)) = off
<1> DEFINE y == Plus(64, off, {11})
           U == y \ (0..11)
           S == Sext(64, off, 12)
           z == Plus(64, S, {11})
<1>1. S \in WordsOf(64) /\ {11} \in WordsOf(64)
  BY DEF Sext, WordsOf
<1>2. S = Sext(64, S, 12) /\ S \cap 0..11 = off \cap 0..11
  BY DEF Sext
<1>3. y \in WordsOf(64)
  BY <1>1, PlusIs
<1>4. U \in WordsOf(64)
  BY <1>3 DEF WordsOf
<1> HIDE DEF S, y
<1>5. \A k : k \in z <=> (k \in S /\ k \in 0..10) \/ (k = 11 /\ k \notin S)
  <2>1. 12 \in 1..64 /\ 12 - 1 = 11 /\ 12 - 2 = 10 /\ 64 \in Nat
    OBVIOUS
  <2>2. \A k : k \in Plus(64, S, {12 - 1}) <=>
                   (k \in S /\ k \in 0..12 - 2) \/ (k = 12 - 1 /\ k \notin S)
    BY <1>1, <1>2, <2>1, SignedOffset
  <2> QED
    BY <2>1, <2>2
<1>6. y \cap 0..11 = z
  <2> DEFINE n == 12
             w == 64
             b == {11}
  <2>1. n \in 0..w /\ n - 1 = 11 /\ w \in Nat /\ b \in WordsOf(w)
    BY <1>1
  <2>2. off \in WordsOf(w) /\ S \in WordsOf(w)
    BY <1>1
  <2>3. y = Plus(w, off, b) /\ z = Plus(w, S, b)
    BY DEF y
  <2> HIDE DEF n, w, b, z
  <2>4. Plus(n, off \cap 0..n - 1, b \cap 0..n - 1) = Plus(w, off, b) \cap 0..n - 1
    BY <2>1, <2>2, PlusNarrow
  <2>5. Plus(n, S \cap 0..n - 1, b \cap 0..n - 1) = Plus(w, S, b) \cap 0..n - 1
    BY <2>1, <2>2, PlusNarrow
  <2>6. y \cap 0..11 = z \cap 0..11
    BY <1>2, <2>1, <2>3, <2>4, <2>5
  <2>7. z \subseteq 0..11
    BY <1>5
  <2> QED
    BY <2>6, <2>7
<1> HIDE DEF z
<1>7. Plus(64, U, z) = y
  <2>1. U \cap z = {} /\ U \cup z = y
    BY <1>6
  <2> HIDE DEF U
  <2> QED
    BY <2>1, PlusApart
<1> HIDE DEF U
<1>8. Plus(64, Plus(64, U, S), {11}) = Plus(64, off, {11})
  <2>1. Plus(64, Plus(64, U, S), {11}) = Plus(64, U, Plus(64, S, {11}))
    BY <1>1, <1>4, PlusAssociates
  <2> QED
    BY <2>1, <1>7 DEF y, z
<1>9. Plus(64, U, S) \in WordsOf(64)
  BY <1>1, <1>4, PlusIs
<1>10. Plus(64, U, S) = off
  BY <1>1, <1>8, <1>9, PlusCancels
<1> QED
  BY <1>10 DEF U, S, y

-----------------------------------------------------------------------------
(* Numbers *)

LEMMA Half ==
    ASSUME NEW n \in Nat, NEW k \in 0..29
    PROVE  n \div 2^(k + 1) = (n \div 2) \div 2^k
<1>1. CASE k = 0  BY <1>1
<1>2. CASE k = 1  BY <1>2
<1>3. CASE k = 2  BY <1>3
<1>4. CASE k = 3  BY <1>4
<1>5. CASE k = 4  BY <1>5
<1>6. CASE k = 5  BY <1>6
<1>7. CASE k = 6  BY <1>7
<1>8. CASE k = 7  BY <1>8
<1>9. CASE k = 8  BY <1>9
<1>10. CASE k = 9  BY <1>10
<1>11. CASE k = 10  BY <1>11
<1>12. CASE k = 11  BY <1>12
<1>13. CASE k = 12  BY <1>13
<1>14. CASE k = 13  BY <1>14
<1>15. CASE k = 14  BY <1>15
<1>16. CASE k = 15  BY <1>16
<1>17. CASE k = 16  BY <1>17
<1>18. CASE k = 17  BY <1>18
<1>19. CASE k = 18  BY <1>19
<1>20. CASE k = 19  BY <1>20
<1>21. CASE k = 20  BY <1>21
<1>22. CASE k = 21  BY <1>22
<1>23. CASE k = 22  BY <1>23
<1>24. CASE k = 23  BY <1>24
<1>25. CASE k = 24  BY <1>25
<1>26. CASE k = 25  BY <1>26
<1>27. CASE k = 26  BY <1>27
<1>28. CASE k = 27  BY <1>28
<1>29. CASE k = 28  BY <1>29
<1>30. CASE k = 29  BY <1>30
<1> QED
  BY <1>1, <1>2, <1>3, <1>4, <1>5, <1>6, <1>7, <1>8, <1>9, <1>10, <1>11, <1>12,
     <1>13, <1>14, <1>15, <1>16, <1>17, <1>18, <1>19, <1>20, <1>21, <1>22, <1>23, <1>24,
     <1>25, <1>26, <1>27, <1>28, <1>29, <1>30

\* The numbers that Bits is meant for, below 2^31.
Short == {n \in Nat : n \div 2^30 \in {0, 1}}

\* Two numbers with the same bits are the same.
LEMMA BitsDiffer ==
    ASSUME NEW m \in Short, NEW n \in Short, Bits(m) = Bits(n)
    PROVE  m = n
<1> DEFINE bad == {j \in Short : \E i \in Short : i < j /\ Bits(i) = Bits(j)}
<1>1. bad = {}
  <2>1. SUFFICES ASSUME bad # {} PROVE FALSE
    OBVIOUS
  <2>2. bad \subseteq Nat
    BY DEF Short
  <2>3. Least(bad) \in bad /\ \A j \in bad : Least(bad) <= j
    BY <2>1, <2>2, LeastIn
  <2> DEFINE j == Least(bad)
  <2>4. j \in Short /\ \A k \in bad : j <= k
    BY <2>3
  <2>5. PICK i \in Short : i < j /\ Bits(i) = Bits(j)
    BY <2>3
  <2> HIDE DEF j, bad
  <2>6. i \in Nat /\ j \in Nat /\ i < j
    BY <2>4, <2>5 DEF Short
  <2>7. \A k \in 0..30 : (i \div 2^k) % 2 = 1 <=> (j \div 2^k) % 2 = 1
    BY <2>5 DEF Bits
  <2>8. i % 2 = j % 2
    <3>1. (i \div 2^0) % 2 = 1 <=> (j \div 2^0) % 2 = 1
      BY <2>7
    <3> QED
      BY <2>6, <3>1
  <2>9. i \div 2 < j \div 2 /\ i \div 2 \in Nat /\ j \div 2 \in Nat /\ j \div 2 < j
    BY <2>6, <2>8
  <2>10. (i \div 2) \div 2^30 = 0 /\ (j \div 2) \div 2^30 = 0
    BY <2>4, <2>5 DEF Short
  <2>11. \A k \in 0..29 : ((i \div 2) \div 2^k) % 2 = 1 <=> ((j \div 2) \div 2^k) % 2 = 1
    <3> TAKE k \in 0..29
    <3>1. k + 1 \in 0..30
      OBVIOUS
    <3>2. i \div 2^(k + 1) = (i \div 2) \div 2^k /\ j \div 2^(k + 1) = (j \div 2) \div 2^k
      BY <2>6, Half
    <3>3. (i \div 2^(k + 1)) % 2 = 1 <=> (j \div 2^(k + 1)) % 2 = 1
      BY <2>7, <3>1
    <3> QED
      BY <3>2, <3>3
  <2>12. Bits(i \div 2) = Bits(j \div 2)
    <3>1. \A k \in 0..30 : ((i \div 2) \div 2^k) % 2 = 1 <=> ((j \div 2) \div 2^k) % 2 = 1
      <4> TAKE k \in 0..30
      <4>1. k \in 0..29 \/ k = 30
        OBVIOUS
      <4> QED
        BY <4>1, <2>11, <2>10
    <3> QED
      BY <3>1 DEF Bits
  <2>13. j \div 2 \in bad
    BY <2>9, <2>10, <2>12 DEF bad, Short
  <2> QED
    BY <2>4, <2>6, <2>9, <2>13
<1>2. \A i, j \in Short : ~(i < j /\ Bits(i) = Bits(j))
  BY <1>1
<1>3. m \in Nat /\ n \in Nat
  BY DEF Short
<1> HIDE DEF bad
<1> QED
  BY <1>2, <1>3

\* A high and a low part of a word add up to it, whatever the n bits of the low part.
LEMMA PartsAddUp ==
    ASSUME NEW w \in Nat, NEW n \in 1..w, NEW off \in WordsOf(w)
    PROVE  Plus(w, Plus(w, off, {n - 1}) \ (0..n - 1), Sext(w, off, n)) = off
<1> DEFINE b == {n - 1}
           y == Plus(w, off, b)
           U == y \ (0..n - 1)
           S == Sext(w, off, n)
           z == Plus(w, S, b)
<1>1. S \in WordsOf(w) /\ b \in WordsOf(w)
  BY DEF Sext, WordsOf
<1>2. S = Sext(w, S, n) /\ S \cap 0..n - 1 = off \cap 0..n - 1
  BY DEF Sext
<1> HIDE DEF S, b
<1>3. y \in WordsOf(w)
  BY <1>1, PlusIs
<1>4. U \in WordsOf(w)
  BY <1>3 DEF WordsOf
<1> HIDE DEF y
<1>5. \A k : k \in z <=> (k \in S /\ k \in 0..n - 2) \/ (k = n - 1 /\ k \notin S)
  BY <1>1, <1>2, SignedOffset DEF b
<1>6. y \cap 0..n - 1 = z
  <2>1. n \in 0..w
    OBVIOUS
  <2>2. Plus(n, off \cap 0..n - 1, b \cap 0..n - 1) = Plus(w, off, b) \cap 0..n - 1
    BY <1>1, <2>1, PlusNarrow
  <2>3. Plus(n, S \cap 0..n - 1, b \cap 0..n - 1) = Plus(w, S, b) \cap 0..n - 1
    BY <1>1, <2>1, PlusNarrow
  <2>4. y \cap 0..n - 1 = z \cap 0..n - 1
    BY <1>2, <2>2, <2>3 DEF y
  <2>5. z \subseteq 0..n - 1
    BY <1>5
  <2> QED
    BY <2>4, <2>5
<1> HIDE DEF z
<1>7. Plus(w, U, z) = y
  <2>1. U \cap z = {} /\ U \cup z = y
    BY <1>6
  <2> HIDE DEF U
  <2> QED
    BY <2>1, PlusApart
<1> HIDE DEF U
<1>8. Plus(w, Plus(w, U, S), b) = Plus(w, off, b)
  <2>1. Plus(w, Plus(w, U, S), b) = Plus(w, U, Plus(w, S, b))
    BY <1>1, <1>4, PlusAssociates
  <2> QED
    BY <2>1, <1>7 DEF y, z
<1>9. Plus(w, U, S) \in WordsOf(w)
  BY <1>1, <1>4, PlusIs
<1>10. Plus(w, U, S) = off
  BY <1>1, <1>8, <1>9, PlusCancels
<1> QED
  BY <1>10 DEF U, S, y, b

\* Adding 2^k to a signed number of n bits gives one, if its sign does not change from
\* positive to negative; and the low n bits are those of the sum of n bits.
LEMMA SextPlus ==
    ASSUME NEW w \in Nat, NEW n \in 1..w, NEW k \in 0..n - 2, NEW a \in WordsOf(n),
           n - 1 \in a \/ ~(k..n - 2 \subseteq a)
    PROVE  Sext(w, Plus(n, a, {k}), n) = Plus(w, Sext(w, a, n), {k})
<1> DEFINE A == Sext(w, a, n)
           b == {k}
           s == n - 1
           p == Plus(n, a, b)
           P == Plus(w, A, b)
<1>1. /\ A \in WordsOf(w) /\ b \in WordsOf(w) /\ b \in WordsOf(n) /\ s \in 0..w - 1
      /\ n \in 0..w /\ n \in Nat
  BY DEF Sext, WordsOf
<1>2. A \cap 0..n - 1 = a /\ b \cap 0..n - 1 = b
  <2>1. a \subseteq 0..n - 1
    BY DEF WordsOf
  <2>2. ASSUME NEW i PROVE i \in A /\ i \in 0..n - 1 <=> i \in a
    <3>1. i \in 0..n - 1 => i \notin n..w - 1
      OBVIOUS
    <3> QED
      BY <2>1, <3>1 DEF Sext
  <2>3. b \subseteq 0..n - 1
    OBVIOUS
  <2> QED
    BY <2>2, <2>3
<1>3. \A i \in s..w - 1 : i \in A <=> s \in a
  BY DEF Sext, WordsOf
<1>4. \A i : i \in a <=> i \in A /\ i \in 0..s
  BY <1>2
<1> HIDE DEF A, b
<1>5. p = P \cap 0..n - 1
  BY <1>1, <1>2, PlusNarrow
<1>6. P \in WordsOf(w) /\ \A i : i \in P <=> ((i \in A <=> i \in b) <=> i \in Carry(w, A, b))
  BY <1>1, PlusIs
<1>7. \A i : i \in Carry(w, A, b) <=>
               /\ i \in 0..w - 1
               /\ \E j \in A \cap b : j < i /\ \A m \in j + 1..i - 1 : m \in A \cup b
  BY <1>1, CarryIs
<1>8. \A i : i \in b <=> i = k
  BY DEF b
<1>9. \A i : i \in Carry(w, A, b) <=> i \in k + 1..w - 1 /\ \A m \in k..i - 1 : m \in A
  <2>1. ASSUME NEW i, i \in Carry(w, A, b)
        PROVE  i \in k + 1..w - 1 /\ \A m \in k..i - 1 : m \in A
    <3>1. /\ i \in 0..w - 1
          /\ \E j \in A \cap b : j < i /\ \A m \in j + 1..i - 1 : m \in A \cup b
      BY <2>1, <1>7
    <3>2. k \in A /\ k < i /\ \A m \in k + 1..i - 1 : m \in A \cup b
      BY <3>1, <1>8
    <3>3. ASSUME NEW m \in k..i - 1 PROVE m \in A
      <4>1. m = k \/ (m \in k + 1..i - 1 /\ m # k)
        BY <3>1
      <4> QED
        BY <3>2, <4>1, <1>8
    <3> QED
      BY <3>1, <3>2, <3>3
  <2>2. ASSUME NEW i \in k + 1..w - 1, \A m \in k..i - 1 : m \in A
        PROVE  i \in Carry(w, A, b)
    <3>1. k \in A \cap b /\ k < i /\ i \in 0..w - 1
      BY <2>2, <1>8
    <3>2. \A m \in k + 1..i - 1 : m \in A \cup b
      BY <2>2
    <3> QED
      BY <3>1, <3>2, <1>7
  <2> QED
    BY <2>1, <2>2
<1>10. \A i \in n..w - 1 : i \in Carry(w, A, b) <=> s \in A /\ s \in Carry(w, A, b)
  <2> TAKE i \in n..w - 1
  <2>1. ASSUME \A m \in k..i - 1 : m \in A
        PROVE  s \in A /\ \A m \in k..s - 1 : m \in A
    BY <2>1, <1>1
  <2>2. ASSUME s \in A, \A m \in k..s - 1 : m \in A
        PROVE  \A m \in k..i - 1 : m \in A
    <3> TAKE m \in k..i - 1
    <3>1. m \in k..s - 1 \/ m \in s..w - 1
      BY <1>1
    <3> QED
      BY <2>2, <3>1, <1>3, <1>1
  <2>3. i \in k + 1..w - 1 /\ s \in k + 1..w - 1
    BY <1>1
  <2> QED
    BY <2>1, <2>2, <2>3, <1>9
<1>11. s \in Carry(w, A, b) => s \in A
  <2> SUFFICES ASSUME s \in Carry(w, A, b), s \notin a PROVE FALSE
    BY <1>1, <1>3
  <2>1. \A m \in k..n - 2 : m \in A /\ m \in 0..s
    BY <1>9
  <2> QED
    BY <2>1, <1>4
<1>12. \A i \in n..w - 1 : i \in P <=> s \in P
  <2> TAKE i \in n..w - 1
  <2>1. i \in A <=> s \in A
    BY <1>1, <1>3
  <2>2. i \notin b /\ s \notin b
    BY <1>8
  <2>3. i \in Carry(w, A, b) <=> s \in Carry(w, A, b)
    BY <1>10, <1>11
  <2> QED
    BY <2>1, <2>2, <2>3, <1>6
<1>13. s \in p <=> s \in P
  BY <1>1, <1>5
<1> HIDE DEF p, P
<1>14. ASSUME NEW i PROVE i \in Sext(w, p, n) <=> i \in P
  <2>1. CASE i \in 0..n - 1
    BY <2>1, <1>5, <1>1 DEF Sext
  <2>2. CASE i \in n..w - 1
    BY <2>2, <1>5, <1>12, <1>13, <1>1 DEF Sext
  <2>3. CASE i \notin 0..w - 1
    <3>1. i \notin P
      BY <2>3, <1>6 DEF WordsOf
    <3>2. i \notin 0..n - 1 /\ i \notin n..w - 1
      BY <2>3, <1>1
    <3> QED
      BY <3>1, <3>2 DEF Sext
  <2> QED
    BY <2>1, <2>2, <2>3, <1>1
<1> QED
  BY <1>14 DEF A, P, p, b

-----------------------------------------------------------------------------
(* Shifts *)

\* A shifted sum is the sum of the shifted words.
LEMMA ShlPlus ==
    ASSUME NEW w \in Nat, NEW s \in Nat, NEW a \in WordsOf(w), NEW b \in WordsOf(w)
    PROVE  Shl(w, Plus(w, a, b), s) = Plus(w, Shl(w, a, s), Shl(w, b, s))
<1> DEFINE x == Shl(w, a, s)
           y == Shl(w, b, s)
<1>1. x \in WordsOf(w) /\ y \in WordsOf(w)
  BY DEF Shl, WordsOf
<1>2. \A i : i \in x <=> i \in 0..w - 1 /\ i - s \in a
  BY DEF Shl
<1>3. \A i : i \in y <=> i \in 0..w - 1 /\ i - s \in b
  BY DEF Shl
<1> HIDE DEF x, y
<1>4. /\ \A i : i \in Plus(w, a, b) <=> ((i \in a <=> i \in b) <=> i \in Carry(w, a, b))
      /\ \A i : i \in Plus(w, x, y) <=> ((i \in x <=> i \in y) <=> i \in Carry(w, x, y))
      /\ Plus(w, x, y) \in WordsOf(w)
  BY <1>1, PlusIs
<1>5. \A i : i \in Carry(w, a, b) <=>
               /\ i \in 0..w - 1
               /\ \E j \in a \cap b : j < i /\ \A m \in j + 1..i - 1 : m \in a \cup b
  BY CarryIs
<1>6. \A i : i \in Carry(w, x, y) <=>
               /\ i \in 0..w - 1
               /\ \E j \in x \cap y : j < i /\ \A m \in j + 1..i - 1 : m \in x \cup y
  BY <1>1, CarryIs
<1>7. a \subseteq 0..w - 1 /\ b \subseteq 0..w - 1
  BY DEF WordsOf
<1>8. ASSUME NEW i \in 0..w - 1
      PROVE  i \in Carry(w, x, y) <=> i - s \in Carry(w, a, b)
  <2>1. ASSUME NEW j \in x \cap y, j < i, \A m \in j + 1..i - 1 : m \in x \cup y
        PROVE  i - s \in Carry(w, a, b)
    <3>1. j - s \in a \cap b /\ j \in 0..w - 1 /\ j - s \in 0..w - 1
      BY <1>2, <1>3, <1>7
    <3>2. ASSUME NEW m \in (j - s) + 1..(i - s) - 1 PROVE m \in a \cup b
      <4>1. m + s \in j + 1..i - 1 /\ (m + s) - s = m
        BY <3>1
      <4>2. m + s \in x \cup y
        BY <2>1, <4>1
      <4> QED
        BY <4>1, <4>2, <1>2, <1>3
    <3>3. i - s \in 0..w - 1 /\ j - s < i - s
      BY <2>1, <3>1
    <3> QED
      BY <3>1, <3>2, <3>3, <1>5
  <2>2. ASSUME i - s \in 0..w - 1, NEW j \in a \cap b, j < i - s,
               \A m \in j + 1..(i - s) - 1 : m \in a \cup b
        PROVE  i \in Carry(w, x, y)
    <3>1. j \in 0..w - 1 /\ j + s \in 0..w - 1 /\ (j + s) - s = j
      BY <1>7, <2>2
    <3>2. j + s \in x \cap y /\ j + s < i
      BY <2>2, <3>1, <1>2, <1>3
    <3>3. ASSUME NEW m \in (j + s) + 1..i - 1 PROVE m \in x \cup y
      <4>1. m - s \in j + 1..(i - s) - 1 /\ m \in 0..w - 1
        BY <3>1
      <4>2. m - s \in a \cup b
        BY <2>2, <4>1
      <4> QED
        BY <4>1, <4>2, <1>2, <1>3
    <3> QED
      BY <3>2, <3>3, <1>6
  <2>3. i \in Carry(w, x, y) => i - s \in Carry(w, a, b)
    BY <2>1, <1>6
  <2>4. i - s \in Carry(w, a, b) => i \in Carry(w, x, y)
    <3> SUFFICES ASSUME i - s \in Carry(w, a, b) PROVE i \in Carry(w, x, y)
      OBVIOUS
    <3> DEFINE h == i - s
    <3>1. h \in 0..w - 1 /\ \E j \in a \cap b : j < h /\ \A m \in j + 1..h - 1 : m \in a \cup b
      <4> HIDE DEF h
      <4>1. h \in Carry(w, a, b)
        BY DEF h
      <4> QED
        BY <4>1, <1>5
    <3> QED
      BY <3>1, <2>2
  <2> QED
    BY <2>3, <2>4
<1>9. ASSUME NEW i PROVE i \in Shl(w, Plus(w, a, b), s) <=> i \in Plus(w, x, y)
  <2>1. CASE i \in 0..w - 1
    <3>1. i \in Shl(w, Plus(w, a, b), s) <=> i - s \in Plus(w, a, b)
      BY <2>1 DEF Shl
    <3>2. i - s \in Plus(w, a, b) <=> ((i - s \in a <=> i - s \in b) <=> i - s \in Carry(w, a, b))
      <4> DEFINE h == i - s
      <4> HIDE DEF h
      <4>1. h \in Plus(w, a, b) <=> ((h \in a <=> h \in b) <=> h \in Carry(w, a, b))
        BY <1>4
      <4> QED
        BY <4>1 DEF h
    <3>3. i \in Plus(w, x, y) <=> ((i \in x <=> i \in y) <=> i \in Carry(w, x, y))
      BY <1>4
    <3> QED
      BY <2>1, <3>1, <3>2, <3>3, <1>2, <1>3, <1>8
  <2>2. CASE i \notin 0..w - 1
    <3>1. i \notin Plus(w, x, y)
      BY <2>2, <1>4 DEF WordsOf
    <3> QED
      BY <2>2, <3>1 DEF Shl
  <2> QED
    BY <2>1, <2>2
<1> QED
  BY <1>9 DEF x, y

\* Two shifts are one.
LEMMA ShlTwice ==
    ASSUME NEW w \in Nat, NEW s \in Nat, NEW t \in Nat, NEW u \in Nat, u = s + t,
           NEW a \in SUBSET Nat
    PROVE  Shl(w, Shl(w, a, s), t) = Shl(w, a, u)
<1>1. ASSUME NEW k \in 0..w - 1
      PROVE  k - t \in Shl(w, a, s) <=> k - u \in a
  <2>1. (k - t) - s = k - u
    OBVIOUS
  <2>2. k - u \in a => k - u \in Nat
    OBVIOUS
  <2>3. k - u \in Nat => k - t \in 0..w - 1
    OBVIOUS
  <2> QED
    BY <2>1, <2>2, <2>3 DEF Shl
<1> QED
  BY <1>1 DEF Shl


-----------------------------------------------------------------------------
(* Integers *)

\* The numbers that Bits is for.
Numbers == {n \in Nat : n < 2147483648}

LEMMA HalfOfPart ==
    ASSUME NEW n \in Nat, NEW k \in 0..29
    PROVE  n \div 2^(k + 1) = (n \div 2^k) \div 2 /\ n \div 2^k \in Nat
<1>1. CASE k = 0  BY <1>1
<1>2. CASE k = 1  BY <1>2
<1>3. CASE k = 2  BY <1>3
<1>4. CASE k = 3  BY <1>4
<1>5. CASE k = 4  BY <1>5
<1>6. CASE k = 5  BY <1>6
<1>7. CASE k = 6  BY <1>7
<1>8. CASE k = 7  BY <1>8
<1>9. CASE k = 8  BY <1>9
<1>10. CASE k = 9  BY <1>10
<1>11. CASE k = 10  BY <1>11
<1>12. CASE k = 11  BY <1>12
<1>13. CASE k = 12  BY <1>13
<1>14. CASE k = 13  BY <1>14
<1>15. CASE k = 14  BY <1>15
<1>16. CASE k = 15  BY <1>16
<1>17. CASE k = 16  BY <1>17
<1>18. CASE k = 17  BY <1>18
<1>19. CASE k = 18  BY <1>19
<1>20. CASE k = 19  BY <1>20
<1>21. CASE k = 20  BY <1>21
<1>22. CASE k = 21  BY <1>22
<1>23. CASE k = 22  BY <1>23
<1>24. CASE k = 23  BY <1>24
<1>25. CASE k = 24  BY <1>25
<1>26. CASE k = 25  BY <1>26
<1>27. CASE k = 26  BY <1>27
<1>28. CASE k = 27  BY <1>28
<1>29. CASE k = 28  BY <1>29
<1>30. CASE k = 29  BY <1>30
<1> QED
  BY <1>1, <1>2, <1>3, <1>4, <1>5, <1>6, <1>7, <1>8, <1>9, <1>10, <1>11, <1>12,
     <1>13, <1>14, <1>15, <1>16, <1>17, <1>18, <1>19, <1>20, <1>21, <1>22, <1>23, <1>24,
     <1>25, <1>26, <1>27, <1>28, <1>29, <1>30

LEMMA BitsRange ==
    ASSUME NEW w \in Nat, w >= 31, NEW n
    PROVE  Bits(n) \in WordsOf(w)
BY DEF Bits, WordsOf

\* The halves of a number, one for each of its bits.
LEMMA HalvesOf ==
    ASSUME NEW n \in Numbers
    PROVE  \E x : /\ x[0] = n /\ x[30] \in 0..1
                  /\ \A k \in 0..30 : x[k] \in Nat /\ (k \in Bits(n) <=> x[k] % 2 = 1)
                  /\ \A k \in 0..29 : x[k + 1] = x[k] \div 2
<1> DEFINE x == [k \in 0..30 |-> n \div 2^k]
<1>0. n \in Nat
  BY SMT DEF Numbers
<1>1. x[0] = n /\ x[30] \in 0..1
  BY SMT DEF Numbers
<1>2. ASSUME NEW k \in 0..29 PROVE x[k + 1] = x[k] \div 2 /\ x[k] \in Nat
  <2>1. n \div 2^(k + 1) = (n \div 2^k) \div 2 /\ n \div 2^k \in Nat
    BY <1>0, HalfOfPart, Zenon
  <2>2. k \in 0..30 /\ k + 1 \in 0..30
    OBVIOUS
  <2> QED
    BY <2>1, <2>2, SMT
<1>3. ASSUME NEW k \in 0..30 PROVE k \in Bits(n) <=> x[k] % 2 = 1
  BY SMT DEF Bits
<1> HIDE DEF x
<1>4. \A k \in 0..30 : x[k] \in Nat
  <2> TAKE k \in 0..30
  <2>1. k \in 0..29 \/ k = 30
    OBVIOUS
  <2> QED
    BY <1>1, <1>2, <2>1
<1> QED
  BY <1>1, <1>2, <1>3, <1>4

\* The bits of the next number are those of the sum with one.
LEMMA BitsNext ==
    ASSUME NEW w \in Nat, w >= 32, NEW n \in Numbers, n + 1 \in Numbers
    PROVE  Bits(n + 1) = Plus(w, Bits(n), {0})
<1>0. PICK x : /\ x[0] = n /\ x[30] \in 0..1
               /\ \A k \in 0..30 : x[k] \in Nat /\ (k \in Bits(n) <=> x[k] % 2 = 1)
               /\ \A k \in 0..29 : x[k + 1] = x[k] \div 2
  BY HalvesOf, SMT
<1>00. PICK y : /\ y[0] = n + 1 /\ y[30] \in 0..1
                /\ \A k \in 0..30 : y[k] \in Nat /\ (k \in Bits(n + 1) <=> y[k] % 2 = 1)
                /\ \A k \in 0..29 : y[k + 1] = y[k] \div 2
  BY HalvesOf, SMT
<1> DEFINE a == Bits(n)
           b == {0}
           c == Carry(w, a, b)
           right == {k \in 0..30 : y[k] = x[k] + IF k = 0 \/ k \in c THEN 1 ELSE 0}
<1>1. a \in WordsOf(w) /\ b \in WordsOf(w) /\ \A k \in Bits(n + 1) : k \in 0..30
  BY DEF Bits, WordsOf
<1>2. \A k : k \in a <=> k \in 0..30 /\ x[k] % 2 = 1
  BY <1>0 DEF Bits
<1>3. \A k : k \in Bits(n + 1) <=> k \in 0..30 /\ y[k] % 2 = 1
  BY <1>00, <1>1
<1>4. \A k \in 0..29 : x[k + 1] = x[k] \div 2 /\ y[k + 1] = y[k] \div 2 /\ x[k] \in Nat
  BY <1>0, <1>00
<1>5. x[0] = n /\ y[0] = n + 1 /\ x[30] \in Nat /\ y[30] \in 0..1
  BY <1>0, <1>00
<1> HIDE DEF a, b
<1>6. /\ 0 \notin c /\ c \in WordsOf(w)
      /\ \A k \in Nat : k + 1 < w =>
           (k + 1 \in c <=> (k \in a /\ k \in b) \/ (k \in c /\ (k \in a \/ k \in b)))
  BY <1>1, CarryStep
<1>7. \A k : k \in b <=> k = 0
  BY DEF b
<1> HIDE DEF c
<1>8. \A k \in Nat : k + 1 < w => (k + 1 \in c <=> k \in a /\ (k = 0 \/ k \in c))
  BY <1>6, <1>7
<1>9. 0 \in right
  BY <1>5
<1>10. ASSUME NEW k \in Nat, k + 1 < 31, k \in right PROVE k + 1 \in right
  <2>1. k \in 0..29 /\ k + 1 \in 0..30 /\ k \in 0..30 /\ k + 1 # 0 /\ k + 1 < w
    BY <1>10
  <2>2. x[k + 1] = x[k] \div 2 /\ y[k + 1] = y[k] \div 2 /\ x[k] \in Nat
    BY <1>4, <2>1
  <2>3. k + 1 \in c <=> x[k] % 2 = 1 /\ (k = 0 \/ k \in c)
    BY <1>2, <1>8, <2>1
  <2>4. y[k] = x[k] + IF k = 0 \/ k \in c THEN 1 ELSE 0
    BY <1>10
  <2>5. y[k + 1] = x[k + 1] + IF k + 1 \in c THEN 1 ELSE 0
    <3>1. CASE k + 1 \in c
      BY <2>2, <2>3, <2>4, <3>1
    <3>2. CASE k + 1 \notin c
      BY <2>2, <2>3, <2>4, <3>2
    <3> QED
      BY <3>1, <3>2
  <2> QED
    BY <2>1, <2>5
<1>11. \A k \in 0..31 - 1 : k \in right
  <2> HIDE DEF right
  <2> QED
    BY <1>9, <1>10, BitInduction
<1>12. \A k \in 0..30 : y[k] = x[k] + (IF k = 0 \/ k \in c THEN 1 ELSE 0) /\ x[k] \in Nat
  <2> TAKE k \in 0..30
  <2>1. k \in 0..29 \/ k = 30
    OBVIOUS
  <2>2. k \in 0..31 - 1
    OBVIOUS
  <2>3. k \in right
    BY <1>11, <2>2
  <2> QED
    BY <1>4, <1>5, <2>1, <2>3
<1>13. \A k \in c : k \in 1..30
  <2>1. 31 \notin c
    <3>1. 31 \in c <=> 30 \in a /\ 30 \in c
      <4>1. 30 \in Nat /\ 30 + 1 < w /\ 30 + 1 = 31
        OBVIOUS
      <4> QED
        BY <1>8, <4>1
    <3>2. 30 \in a <=> x[30] % 2 = 1
      BY <1>2
    <3> QED
      BY <1>5, <1>12, <3>1, <3>2
  <2> DEFINE high == {k \in Nat : k \in c /\ k > 30}
  <2>2. high = {}
    <3>1. SUFFICES ASSUME high # {} PROVE FALSE
      OBVIOUS
    <3>2. high \subseteq Nat
      OBVIOUS
    <3>3. Least(high) \in high
      BY <3>1, <3>2, LeastIn
    <3>4. PICK l : l \in Nat /\ l \in c /\ l > 31
      BY <2>1, <3>3
    <3>5. l - 1 \in Nat /\ (l - 1) + 1 = l /\ l < w /\ l - 1 \notin 0..30
      BY <3>4, <1>6 DEF WordsOf
    <3>6. l - 1 \in a
      BY <1>8, <3>4, <3>5
    <3> QED
      BY <1>2, <3>5, <3>6
  <2> QED
    BY <2>2, <1>6 DEF WordsOf
<1>14. /\ Plus(w, a, b) \in WordsOf(w)
       /\ \A k : k \in Plus(w, a, b) <=> ((k \in a <=> k \in b) <=> k \in c)
  BY <1>1, PlusIs DEF c
<1>15. ASSUME NEW k PROVE k \in Bits(n + 1) <=> k \in Plus(w, a, b)
  <2>1. CASE k \in 0..30
    <3>1. y[k] = x[k] + (IF k = 0 \/ k \in c THEN 1 ELSE 0) /\ x[k] \in Nat
      BY <2>1, <1>12
    <3>2. k \in a <=> x[k] % 2 = 1
      BY <2>1, <1>2
    <3>3. k \in Bits(n + 1) <=> y[k] % 2 = 1
      BY <2>1, <1>3
    <3>4. k \in Plus(w, a, b) <=> ((k \in a <=> k = 0) <=> k \in c)
      BY <1>7, <1>14
    <3>5. k = 0 => k \notin c
      BY <1>6
    <3> QED
      BY <3>1, <3>2, <3>3, <3>4, <3>5
  <2>2. CASE k \notin 0..30
    <3>1. k \notin a /\ k \notin b /\ k \notin c /\ k \notin Bits(n + 1)
      BY <2>2, <1>2, <1>3, <1>7, <1>13
    <3> QED
      BY <3>1, <1>14
  <2> QED
    BY <2>1, <2>2
<1> QED
  BY <1>15 DEF a, b

LEMMA BitsOfZero == Bits(0) = {}
<1>0. 0 \in Numbers
  BY SMT DEF Numbers
<1>1. PICK x : /\ x[0] = 0
               /\ \A k \in 0..30 : x[k] \in Nat /\ (k \in Bits(0) <=> x[k] % 2 = 1)
               /\ \A k \in 0..29 : x[k + 1] = x[k] \div 2
  BY <1>0, HalvesOf
<1> DEFINE none == {k \in 0..30 : x[k] = 0}
<1>2. 0 \in none
  BY <1>1
<1>3. ASSUME NEW k \in Nat, k + 1 < 31, k \in none PROVE k + 1 \in none
  BY <1>1, <1>3
<1>4. \A k \in 0..31 - 1 : k \in none
  <2> HIDE DEF none
  <2> QED
    BY <1>2, <1>3, BitInduction
<1>5. ASSUME NEW k \in 0..30 PROVE k \notin Bits(0)
  <2>1. k \in 0..31 - 1
    OBVIOUS
  <2>2. x[k] = 0
    BY <1>4, <2>1
  <2> QED
    BY <1>1, <2>2
<1>6. Bits(0) \subseteq 0..30
  BY DEF Bits
<1> QED
  BY <1>5, <1>6

\* The bits of a sum are the sum of the bits.
LEMMA BitsPlus ==
    ASSUME NEW w \in Nat, w >= 32, NEW m \in Nat, NEW n \in Nat, m + n \in Numbers
    PROVE  Bits(m + n) = Plus(w, Bits(m), Bits(n))
<1> DEFINE right == {k \in 0..n : Bits(m + k) = Plus(w, Bits(m), Bits(k))}
<1>0. \A k : Bits(k) \in WordsOf(w)
  BY BitsRange
<1>1. 0 \in right
  <2>1. Plus(w, Bits(m), {}) = Bits(m)
    BY <1>0, PlusNone
  <2>2. m + 0 = m /\ 0 \in 0..n
    OBVIOUS
  <2> QED
    BY <2>1, <2>2, BitsOfZero, SMT
<1>2. ASSUME NEW k \in Nat, k + 1 < n + 1, k \in right PROVE k + 1 \in right
  <2>1. PICK s : s = m + k
    OBVIOUS
  <2>2. /\ k \in 0..n /\ k + 1 \in 0..n /\ s \in Numbers /\ s + 1 \in Numbers
        /\ k \in Numbers /\ k + 1 \in Numbers /\ s + 1 = m + (k + 1)
    BY <1>2, <2>1, SMT DEF Numbers
  <2>3. Bits(s + 1) = Plus(w, Bits(s), {0})
    BY <2>2, BitsNext
  <2>4. Bits(k + 1) = Plus(w, Bits(k), {0})
    BY <2>2, BitsNext
  <2>5. Bits(s) = Plus(w, Bits(m), Bits(k))
    BY <1>2, <2>1
  <2>6. {0} \in WordsOf(w)
    BY DEF WordsOf
  <2>7. Plus(w, Plus(w, Bits(m), Bits(k)), {0}) = Plus(w, Bits(m), Plus(w, Bits(k), {0}))
    BY <1>0, <2>6, PlusAssociates
  <2>8. Bits(m + (k + 1)) = Plus(w, Bits(m), Bits(k + 1))
    BY <2>2, <2>3, <2>4, <2>5, <2>7
  <2> QED
    BY <2>2, <2>8
<1>3. \A k \in 0..(n + 1) - 1 : k \in right
  <2> HIDE DEF right
  <2>1. n + 1 \in Nat /\ (n + 1 > 0 => 0 \in right)
    BY <1>1
  <2> QED
    BY <1>2, <2>1, BitInduction
<1>4. n \in 0..(n + 1) - 1
  OBVIOUS
<1> QED
  BY <1>3, <1>4

-----------------------------------------------------------------------------
(* Words of integers *)

\* The integers whose sums and differences are numbers.
Offsets == {n \in Int : -1073741824 < n /\ n < 1073741824}

LEMMA OffsetsAre ==
    ASSUME NEW i \in Offsets, NEW j \in Offsets
    PROVE  /\ i \in Int /\ -i \in Offsets
           /\ i >= 0 => i \in Numbers
           /\ i + j >= 0 => i + j \in Numbers
           /\ i < 0 => -i \in Numbers
           /\ i + j < 0 => -(i + j) \in Numbers
BY SMT DEF Offsets, Numbers

LEMMA WordIs ==
    ASSUME NEW w \in Nat, w >= 32, NEW n \in Int
    PROVE  Word(w, n) \in WordsOf(w)
<1>1. Bits(n) \in WordsOf(w) /\ Bits(-n) \in WordsOf(w)
  BY BitsRange
<1>2. Neg(w, Bits(-n)) \in WordsOf(w)
  BY <1>1, NegIs
<1> QED
  BY <1>1, <1>2 DEF Word

\* A difference of numbers, as words.
LEMMA WordUp ==
    ASSUME NEW w \in Nat, w >= 32, NEW n \in Int, NEW m \in Numbers,
           n >= 0 => n \in Numbers /\ n + m \in Numbers, n < 0 => -n \in Numbers
    PROVE  Plus(w, Word(w, n), Bits(m)) = Word(w, n + m)
<1>0. m \in Nat
  BY SMT DEF Numbers
<1>1. CASE n >= 0
  <2>1. n \in Nat /\ n + m \in Numbers /\ n + m >= 0
    BY <1>0, <1>1
  <2>2. Bits(n + m) = Plus(w, Bits(n), Bits(m))
    BY <1>0, <2>1, BitsPlus
  <2> QED
    BY <1>1, <2>1, <2>2, SMT DEF Word
<1>2. CASE n < 0 /\ n + m >= 0
  <2>1. PICK a, b : a = -n /\ b = n + m
    OBVIOUS
  <2>2. a \in Nat /\ b \in Nat /\ a + b = m /\ a + b \in Numbers
    BY <1>0, <1>2, <2>1
  <2>3. Bits(m) = Plus(w, Bits(a), Bits(b))
    <3>1. Bits(a + b) = Plus(w, Bits(a), Bits(b))
      BY <2>2, BitsPlus
    <3> QED
      BY <2>2, <3>1
  <2>4. Word(w, n) = Neg(w, Bits(a)) /\ Word(w, n + m) = Bits(b)
    BY <1>2, <2>1, SMT DEF Word
  <2> DEFINE x == Bits(a)
             y == Bits(b)
             z == Neg(w, Bits(a))
  <2>5. x \in WordsOf(w) /\ y \in WordsOf(w)
    BY BitsRange
  <2>6. z \in WordsOf(w) /\ Plus(w, x, z) = {}
    BY <2>5, NegIs
  <2> HIDE DEF x, y, z
  <2>7. Plus(w, z, Plus(w, x, y)) = Plus(w, Plus(w, z, x), y)
    BY <2>5, <2>6, PlusAssociates
  <2>8. Plus(w, z, x) = {} /\ Plus(w, {}, y) = y
    <3>1. Plus(w, z, x) = Plus(w, x, z) /\ Plus(w, {}, y) = Plus(w, y, {})
      BY PlusCommutes
    <3> QED
      BY <2>6, <3>1, PlusNone
  <2>9. Plus(w, z, Plus(w, x, y)) = y
    BY <2>7, <2>8
  <2> QED
    BY <2>3, <2>4, <2>9 DEF x, y, z
<1>3. CASE n < 0 /\ n + m < 0
  <2>1. PICK a, k : a = -n /\ k = -(n + m)
    OBVIOUS
  <2>2. a \in Nat /\ k \in Nat /\ m + k = a /\ m + k \in Numbers
    BY <1>0, <1>3, <2>1
  <2>3. Bits(a) = Plus(w, Bits(m), Bits(k))
    <3>1. Bits(m + k) = Plus(w, Bits(m), Bits(k))
      BY <1>0, <2>2, BitsPlus
    <3> QED
      BY <2>2, <3>1
  <2>4. Word(w, n) = Neg(w, Bits(a)) /\ Word(w, n + m) = Neg(w, Bits(k))
    BY <1>0, <1>3, <2>1, SMT DEF Word
  <2> DEFINE x == Bits(m)
             y == Bits(k)
             z == Bits(a)
             zn == Neg(w, z)
             yn == Neg(w, y)
  <2>5. x \in WordsOf(w) /\ y \in WordsOf(w) /\ z \in WordsOf(w)
    BY BitsRange
  <2> HIDE DEF x, y, z
  <2>6. /\ zn \in WordsOf(w) /\ Plus(w, z, zn) = {}
        /\ yn \in WordsOf(w) /\ Plus(w, y, yn) = {}
    BY <2>5, NegIs
  <2> HIDE DEF zn, yn
  <2>7. Plus(w, zn, x) \in WordsOf(w)
    BY <2>5, <2>6, PlusIs
  <2>8. Plus(w, Plus(w, zn, x), y) = Plus(w, zn, Plus(w, x, y))
    BY <2>5, <2>6, PlusAssociates
  <2>9. Plus(w, zn, z) = {} /\ Plus(w, yn, y) = {}
    BY <2>6, PlusCommutes
  <2>10. Plus(w, Plus(w, zn, x), y) = Plus(w, yn, y)
    BY <2>3, <2>8, <2>9 DEF x, y, z
  <2>11. Plus(w, zn, x) = yn
    BY <2>5, <2>6, <2>7, <2>10, PlusCancels
  <2> QED
    BY <2>4, <2>11 DEF x, y, z, zn, yn
<1> QED
  BY <1>0, <1>1, <1>2, <1>3

\* The word of a sum is the sum of the words.
LEMMA WordPlus ==
    ASSUME NEW w \in Nat, w >= 32, NEW i \in Offsets, NEW j \in Offsets
    PROVE  Word(w, i + j) = Plus(w, Word(w, i), Word(w, j))
<1>1. i \in Int /\ j \in Int /\ -j \in Int
  BY OffsetsAre
<1>2. CASE j >= 0
  <2>1. j \in Numbers
    BY <1>2, OffsetsAre
  <2>2. (i >= 0 => i \in Numbers /\ i + j \in Numbers) /\ (i < 0 => -i \in Numbers)
    BY <1>1, <1>2, OffsetsAre
  <2>3. Plus(w, Word(w, i), Bits(j)) = Word(w, i + j)
    BY <1>1, <2>1, <2>2, WordUp
  <2> QED
    BY <1>2, <2>3, Zenon DEF Word
<1>3. CASE j < 0
  <2>1. PICK n, m : n = i + j /\ m = -j
    OBVIOUS
  <2>2. n \in Int /\ m \in Numbers /\ n + m = i
    BY <1>1, <1>3, <2>1, OffsetsAre
  <2>3. (n >= 0 => n \in Numbers /\ n + m \in Numbers) /\ (n < 0 => -n \in Numbers)
    <3>1. n >= 0 => i >= 0
      BY <1>1, <1>3, <2>1
    <3>2. n >= 0 => n \in Numbers
      BY <2>1, OffsetsAre
    <3>3. n < 0 => -n \in Numbers
      BY <2>1, OffsetsAre
    <3>4. i >= 0 => i \in Numbers
      BY OffsetsAre
    <3> QED
      BY <2>2, <3>1, <3>2, <3>3, <3>4
  <2> DEFINE a == Word(w, n)
             b == Bits(m)
             c == Neg(w, b)
  <2>4. Plus(w, a, b) = Word(w, i)
    <3>1. Plus(w, Word(w, n), Bits(m)) = Word(w, n + m)
      BY <2>2, <2>3, WordUp
    <3> QED
      BY <2>2, <3>1
  <2>5. Word(w, j) = c
    BY <1>1, <1>3, <2>1, SMT DEF Word
  <2>6. a \in WordsOf(w) /\ b \in WordsOf(w)
    BY <2>2, WordIs, BitsRange
  <2> HIDE DEF a, b
  <2>7. c \in WordsOf(w) /\ Plus(w, b, c) = {}
    BY <2>6, NegIs
  <2> HIDE DEF c
  <2>8. Plus(w, Plus(w, a, b), c) = Plus(w, a, Plus(w, b, c))
    BY <2>6, <2>7, PlusAssociates
  <2>9. Plus(w, a, {}) = a
    BY PlusNone
  <2> QED
    BY <2>1, <2>4, <2>5, <2>7, <2>8, <2>9 DEF a
<1> QED
  BY <1>1, <1>2, <1>3

\* To take a number away is to add its opposite.
LEMMA MinusBits ==
    ASSUME NEW w, NEW a, NEW n \in Nat
    PROVE  Minus(w, a, Bits(n)) = Plus(w, a, Word(w, -n))
<1>1. CASE n = 0
  <2>1. Neg(w, Bits(0)) = {} /\ Word(w, -0) = {}
    BY BitsOfZero DEF Neg, Word
  <2> QED
    BY <1>1, <2>1, BitsOfZero DEF Minus
<1>2. CASE n > 0
  <2>1. ~(-n >= 0) /\ -(-n) = n
    BY <1>2
  <2>2. Word(w, -n) = Neg(w, Bits(n))
    BY <2>1 DEF Word
  <2> QED
    BY <2>2 DEF Minus
<1> QED
  BY <1>1, <1>2

\* A number below the power of two that a half stands for has no bits from there on.
LEMMA BitsBelow ==
    ASSUME NEW m \in 0..30, NEW n, NEW x, x[m] = 0,
           \A k \in 0..30 : x[k] \in Nat /\ (k \in Bits(n) <=> x[k] % 2 = 1),
           \A k \in 0..29 : x[k + 1] = x[k] \div 2
    PROVE  Bits(n) \subseteq 0..m - 1
<1> DEFINE S == {k \in 0..30 : k >= m => x[k] = 0}
<1>1. \A k \in Nat : k + 1 < 31 /\ k \in S => k + 1 \in S
  <2> TAKE k \in Nat
  <2>1. HAVE k + 1 < 31 /\ k \in S
  <2>2. k \in 0..29 /\ k + 1 \in 0..30
    BY <2>1
  <2>3. x[k + 1] = x[k] \div 2 /\ (k >= m => x[k] = 0)
    BY <2>1, <2>2
  <2>4. k + 1 >= m => k >= m \/ k + 1 = m
    OBVIOUS
  <2> QED
    BY <2>2, <2>3, <2>4
<1>2. 0 \in S
  OBVIOUS
<1> HIDE DEF S
<1>3. \A k \in 0..31 - 1 : k \in S
  <2>1. PICK w \in Nat : w = 31
    OBVIOUS
  <2>2. \A k \in 0..w - 1 : k \in S
    BY <1>1, <1>2, <2>1, BitInduction
  <2> QED
    BY <2>1, <2>2
<1>4. \A k \in 0..30 : k >= m => x[k] = 0
  BY <1>3 DEF S
<1>5. ASSUME NEW k \in Bits(n) PROVE k \in 0..m - 1
  <2>1. k \in 0..30
    BY DEF Bits
  <2>2. x[k] % 2 = 1
    BY <2>1
  <2> QED
    BY <1>4, <2>1, <2>2
<1> QED
  BY <1>5

\* Of an offset, and of one that an instruction holds.
LEMMA BitsOfOffset ==
    ASSUME NEW n \in Offsets, n >= 0
    PROVE  Bits(n) \subseteq 0..30 - 1 /\ (n < 2048 => Bits(n) \subseteq 0..11 - 1)
<1>0. n \in Numbers
  BY OffsetsAre
<1>1. PICK x : /\ x[0] = n /\ x[30] \in 0..1
               /\ \A k \in 0..30 : x[k] \in Nat /\ (k \in Bits(n) <=> x[k] % 2 = 1)
               /\ \A k \in 0..29 : x[k + 1] = x[k] \div 2
  BY <1>0, HalvesOf, SMT
<1>2. ASSUME NEW k \in 0..29 PROVE x[k] \in Nat /\ x[k + 1] \in Nat /\ 2 * x[k + 1] <= x[k]
  <2>1. x[k] \in Nat /\ x[k + 1] \in Nat /\ x[k + 1] = x[k] \div 2
    BY <1>1
  <2> QED
    BY <2>1
<1>3. ASSUME NEW k \in 0..25 PROVE x[k] \in Nat /\ x[k + 5] \in Nat /\ 32 * x[k + 5] <= x[k]
  <2>1. PICK a, b, c, d, e, f : /\ a = x[k] /\ b = x[k + 1] /\ c = x[k + 2] /\ d = x[k + 3]
                                /\ e = x[k + 4] /\ f = x[k + 5]
    OBVIOUS
  <2>2. a \in Nat /\ b \in Nat /\ 2 * b <= a
    BY <1>2, <2>1
  <2>3. c \in Nat /\ 2 * c <= b
    <3>1. k + 1 \in 0..29 /\ k + 1 + 1 = k + 2
      OBVIOUS
    <3> QED
      BY <1>2, <2>1, <3>1
  <2>4. d \in Nat /\ 2 * d <= c
    <3>1. k + 2 \in 0..29 /\ k + 2 + 1 = k + 3
      OBVIOUS
    <3> QED
      BY <1>2, <2>1, <3>1
  <2>5. e \in Nat /\ 2 * e <= d
    <3>1. k + 3 \in 0..29 /\ k + 3 + 1 = k + 4
      OBVIOUS
    <3> QED
      BY <1>2, <2>1, <3>1
  <2>6. f \in Nat /\ 2 * f <= e
    <3>1. k + 4 \in 0..29 /\ k + 4 + 1 = k + 5
      OBVIOUS
    <3> QED
      BY <1>2, <2>1, <3>1
  <2>7. 32 * f <= a
    BY <2>2, <2>3, <2>4, <2>5, <2>6
  <2> QED
    BY <2>1, <2>2, <2>6, <2>7
<1>4. /\ x[0] \in Nat /\ x[5] \in Nat /\ x[10] \in Nat /\ x[15] \in Nat /\ x[20] \in Nat
      /\ x[25] \in Nat /\ x[30] \in Nat
  BY <1>1
<1>5. 32 * x[5] <= x[0] /\ 32 * x[10] <= x[5] /\ 32 * x[15] <= x[10]
  BY <1>3
<1>6. 32 * x[20] <= x[15] /\ 32 * x[25] <= x[20] /\ 32 * x[30] <= x[25]
  BY <1>3
<1>70. 1024 * x[10] <= x[0]
  BY <1>4, <1>5
<1>7. 1073741824 * x[30] <= x[0]
  <2>1. PICK a, b, c, e, f, g, h : /\ a = x[0] /\ b = x[5] /\ c = x[10] /\ e = x[15]
                                   /\ f = x[20] /\ g = x[25] /\ h = x[30]
    OBVIOUS
  <2>2. /\ a \in Nat /\ b \in Nat /\ c \in Nat /\ e \in Nat /\ f \in Nat /\ g \in Nat /\ h \in Nat
        /\ 32 * b <= a /\ 32 * c <= b /\ 32 * e <= c /\ 32 * f <= e /\ 32 * g <= f /\ 32 * h <= g
    BY <1>4, <1>5, <1>6, <2>1
  <2>3. 1073741824 * h <= a
    BY <2>2, SMT
  <2> QED
    BY <2>1, <2>3, SMT
<1>8. x[30] = 0 /\ (n < 2048 => x[11] = 0)
  <2>1. x[0] < 1073741824
    BY <1>1, SMT DEF Offsets
  <2>2. x[30] = 0
    BY <1>4, <1>7, <2>1, SMT
  <2>3. n < 2048 => x[10] \in 0..1
    <3>1. x[0] = n /\ x[10] \in Nat /\ x[0] \in Nat /\ 1024 * x[10] <= x[0]
      BY <1>1, <1>4, <1>70
    <3> QED
      BY <3>1
  <2>4. x[11] = x[10] \div 2
    BY <1>1
  <2> QED
    BY <2>2, <2>3, <2>4
<1>9. \A m \in 0..30 : x[m] = 0 => Bits(n) \subseteq 0..m - 1
  BY <1>1, BitsBelow
<1> QED
  BY <1>8, <1>9, SMT

\* The bits of zero alone are none.
LEMMA BitsNone ==
    ASSUME NEW n \in Numbers, Bits(n) = {}
    PROVE  n = 0
<1>1. n \in Short /\ 0 \in Short
  BY SMT DEF Short, Numbers
<1> QED
  BY <1>1, BitsOfZero, BitsDiffer

\* The opposite of a word of m bits has all bits from m on.
LEMMA NegSigned ==
    ASSUME NEW w \in Nat, NEW m \in 0..w, NEW a \in SUBSET (0..m - 1), a # {}
    PROVE  \A k \in m..w - 1 : k \in Neg(w, a)
<1>1. a \subseteq Nat
  OBVIOUS
<1>2. Least(a) \in a
  BY <1>1, LeastIn
<1> DEFINE l == Least(a)
<1>3. l \in 0..m - 1
  BY <1>2
<1>4. Neg(w, a) = {l} \cup ((l + 1..w - 1) \ a)
  BY DEF Neg
<1> HIDE DEF l
<1>5. \A k \in m..w - 1 : k \notin a /\ k \in l + 1..w - 1
  BY <1>3
<1> QED
  BY <1>4, <1>5

\* A signed number of m + 1 bits is the extension of its low bits.
LEMMA WordSigned ==
    ASSUME NEW w \in Nat, w >= 32, NEW m \in {11, 30}, NEW n \in Offsets,
           m = 11 => -2048 < n /\ n < 2048
    PROVE  /\ n < 0 => \A k \in m..w - 1 : k \in Word(w, n)
           /\ n >= 0 => \A k \in Word(w, n) : k \in 0..m - 1
<1>3. n \in Int
  BY OffsetsAre
<1>1. CASE n >= 0
  <2>1. Word(w, n) = Bits(n)
    BY <1>1 DEF Word
  <2>2. Bits(n) \subseteq 0..m - 1
    BY <1>1, BitsOfOffset
  <2> QED
    BY <1>1, <2>1, <2>2, <1>3
<1>2. CASE n < 0
  <2>1. PICK a : a = -n
    OBVIOUS
  <2>2. n \in Int /\ a \in Offsets /\ a >= 0 /\ a \in Numbers /\ a # 0
    BY <1>2, <2>1, OffsetsAre
  <2>3. Bits(a) \subseteq 0..m - 1
    <3>1. m = 11 => a < 2048
      BY <2>1, <2>2
    <3> QED
      BY <2>2, <3>1, BitsOfOffset
  <2>4. Bits(a) # {}
    <3>1. Bits(a) = {} => a = 0
      BY <2>2, BitsNone
    <3> QED
      BY <2>2, <3>1
  <2>5. Word(w, n) = Neg(w, Bits(a))
    BY <1>2, <2>1, <2>2, SMT DEF Word
  <2>6. m \in 0..w
    OBVIOUS
  <2> QED
    BY <1>2, <2>2, <2>3, <2>4, <2>5, <2>6, NegSigned
<1> QED
  BY <1>1, <1>2, <1>3

\* Words of an integer differ in their length alone.
LEMMA WordNarrow ==
    ASSUME NEW w \in Nat, NEW v \in Nat, v >= 32, v <= w, NEW n \in Int
    PROVE  Word(w, n) \cap 0..v - 1 = Word(v, n)
<1>1. Bits(n) \cap 0..v - 1 = Bits(n) /\ Bits(-n) \cap 0..v - 1 = Bits(-n)
  BY DEF Bits
<1>2. Bits(-n) \in WordsOf(w) /\ v \in 0..w
  BY BitsRange
<1>3. Neg(v, Bits(-n) \cap 0..v - 1) = Neg(w, Bits(-n)) \cap 0..v - 1
  BY <1>2, NegNarrow
<1> QED
  BY <1>1, <1>3 DEF Word
\* A word is the extension of its low bits from where they give its sign.
LEMMA SextOfWord ==
    ASSUME NEW w \in Nat, NEW v \in Nat, v >= 32, v <= w, NEW n \in Offsets
    PROVE  /\ Sext(w, Word(v, n), v) = Word(w, n)
           /\ -2048 < n /\ n < 2048 => Sext(w, Word(v, n), 12) = Word(w, n)
           /\ 31 \in Word(v, n) <=> n < 0
           /\ 30 \in Word(v, n) <=> n < 0
<1>0. n \in Int /\ v - 1 >= 31
  BY OffsetsAre
<1>1. Word(w, n) \cap 0..v - 1 = Word(v, n) /\ Word(w, n) \in WordsOf(w)
  BY <1>0, WordNarrow, WordIs
<1>2. /\ n < 0 => \A k \in 30..w - 1 : k \in Word(w, n)
      /\ n >= 0 => \A k \in Word(w, n) : k \in 0..30 - 1
  <2>1. PICK m : m = 30
    OBVIOUS
  <2>2. m \in {11, 30} /\ (m = 11 => -2048 < n /\ n < 2048)
    BY <2>1
  <2> QED
    BY <2>1, <2>2, WordSigned
<1>3. ASSUME -2048 < n, n < 2048
      PROVE  /\ n < 0 => \A k \in 11..w - 1 : k \in Word(w, n)
             /\ n >= 0 => \A k \in Word(w, n) : k \in 0..11 - 1
  <2>1. PICK m : m = 11
    OBVIOUS
  <2>2. m \in {11, 30} /\ (m = 11 => -2048 < n /\ n < 2048)
    BY <1>3, <2>1
  <2> QED
    BY <2>1, <2>2, WordSigned
<1> DEFINE a == Word(w, n)
           b == Word(v, n)
<1>4. \A k \in a : k \in 0..w - 1
  BY <1>1 DEF WordsOf
<1>5. \A k : k \in b <=> k \in a /\ k \in 0..v - 1
  BY <1>1
<1>6. ASSUME NEW m \in {12, v}, n < 0 => \A k \in m - 1..w - 1 : k \in a,
             n >= 0 => \A k \in a : k \in 0..m - 2
      PROVE  Sext(w, b, m) = a
  <2> HIDE DEF a, b
  <2>1. m - 1 \in b <=> n < 0
    BY <1>0, <1>5, <1>6
  <2>2. m \in Nat /\ m >= 12 /\ m <= v
    OBVIOUS
  <2>3. \A k : k \in (b \cap 0..m - 1) \cup (IF m - 1 \in b THEN m..w - 1 ELSE {}) <=> k \in a
    <3>1. CASE n < 0
      BY <1>4, <1>5, <1>6, <2>1, <2>2, <3>1
    <3>2. CASE n >= 0
      BY <1>0, <1>4, <1>5, <1>6, <2>1, <2>2, <3>2
    <3> QED
      BY <1>0, <3>1, <3>2
  <2> QED
    BY <2>3 DEF Sext
<1>7. Sext(w, b, v) = a
  <2>1. n < 0 => \A k \in v - 1..w - 1 : k \in a
    BY <1>0, <1>2
  <2>2. n >= 0 => \A k \in a : k \in 0..v - 2
    BY <1>0, <1>2
  <2> QED
    BY <1>6, <2>1, <2>2
<1>8. -2048 < n /\ n < 2048 => Sext(w, b, 12) = a
  <2>1. PICK m : m = 12
    OBVIOUS
  <2>2. SUFFICES ASSUME -2048 < n, n < 2048 PROVE Sext(w, b, m) = a
    BY <2>1
  <2>3. n < 0 => \A k \in m - 1..w - 1 : k \in a
    BY <1>3, <2>1, <2>2
  <2>4. n >= 0 => \A k \in a : k \in 0..m - 2
    BY <1>3, <2>1, <2>2
  <2> QED
    BY <1>6, <2>1, <2>3, <2>4
<1>9. (31 \in b <=> n < 0) /\ (30 \in b <=> n < 0)
  <2> HIDE DEF a, b
  <2>1. n < 0 => 31 \in a /\ 30 \in a
    BY <1>0, <1>2 DEF a
  <2>2. n >= 0 => 31 \notin a /\ 30 \notin a
    BY <1>2 DEF a
  <2> QED
    BY <1>0, <1>5, <2>1, <2>2
<1> QED
  BY <1>7, <1>8, <1>9

\* Multiples of sixteen have four zeros.
LEMMA WordAligned ==
    ASSUME NEW w \in Nat, w >= 32, NEW n \in Offsets, n % 16 = 0
    PROVE  Word(w, n) \cap 0..4 - 1 = {}
<1>1. ASSUME NEW a \in Numbers, a % 16 = 0 PROVE \A k \in Bits(a) : k \notin 0..3
  <2>1. PICK x : /\ x[0] = a /\ x[30] \in 0..1
                 /\ \A k \in 0..30 : x[k] \in Nat /\ (k \in Bits(a) <=> x[k] % 2 = 1)
                 /\ \A k \in 0..29 : x[k + 1] = x[k] \div 2
    BY HalvesOf, SMT
  <2>2. PICK b, c, d, e : b = x[0] /\ c = x[1] /\ d = x[2] /\ e = x[3]
    OBVIOUS
  <2>3. /\ b \in Nat /\ c \in Nat /\ d \in Nat /\ e \in Nat
        /\ c = b \div 2 /\ d = c \div 2 /\ e = d \div 2 /\ b = a
    BY <2>1, <2>2
  <2>4. b % 2 = 0 /\ c % 2 = 0 /\ d % 2 = 0 /\ e % 2 = 0
    BY <1>1, <2>3
  <2>5. 0 \notin Bits(a) /\ 1 \notin Bits(a) /\ 2 \notin Bits(a) /\ 3 \notin Bits(a)
    BY <2>1, <2>2, <2>4
  <2> QED
    BY <2>5
<1>2. n \in Int
  BY OffsetsAre
<1>3. CASE n >= 0
  <2>1. n \in Numbers
    BY <1>3, OffsetsAre
  <2> QED
    BY <1>1, <1>3, <2>1 DEF Word
<1>4. CASE n < 0
  <2>1. PICK a : a = -n
    OBVIOUS
  <2>2. a \in Numbers /\ a % 16 = 0
    <3>1. a \in Numbers
      BY <1>2, <1>4, <2>1, OffsetsAre
    <3> QED
      BY <1>2, <2>1, <3>1
  <2>3. \A k \in Bits(a) : k \notin 0..3
    BY <1>1, <2>2
  <2>4. Bits(a) \subseteq Nat
    BY DEF Bits
  <2>5. CASE Bits(a) = {}
    BY <1>2, <1>4, <2>1, <2>5, SMT DEF Word, Neg
  <2>6. CASE Bits(a) # {}
    <3>1. Least(Bits(a)) \in Bits(a)
      BY <2>4, <2>6, LeastIn
    <3> DEFINE l == Least(Bits(a))
    <3>2. l \in Nat /\ l >= 4
      BY <2>3, <2>4, <3>1
    <3>3. Word(w, n) = {l} \cup ((l + 1..w - 1) \ Bits(a))
      BY <1>2, <1>4, <2>1, <2>6, SMT DEF Word, Neg
    <3> HIDE DEF l
    <3> QED
      BY <3>2, <3>3
  <2> QED
    BY <2>5, <2>6
<1> QED
  BY <1>2, <1>3, <1>4

\* Offsets differ in their words.
LEMMA WordsDiffer ==
    ASSUME NEW w \in Nat, w >= 32, NEW i \in Offsets, NEW j \in Offsets, Word(w, i) = Word(w, j)
    PROVE  i = j
<1>1. PICK k, m : k = -j /\ m = i + k
  OBVIOUS
<1>2. k \in Offsets /\ i \in Int /\ j \in Int
  BY <1>1, OffsetsAre
<1>3. Word(w, i + k) = Plus(w, Word(w, i), Word(w, k))
  BY <1>2, WordPlus
<1>4. Word(w, j + k) = Plus(w, Word(w, j), Word(w, k))
  BY <1>2, WordPlus
<1>5. Word(w, j + k) = {}
  <2>1. j + k = 0
    BY <1>1, <1>2
  <2> QED
    BY <2>1, BitsOfZero DEF Word
<1>6. Word(w, m) = {} /\ m \in Int
  BY <1>1, <1>2, <1>3, <1>4, <1>5
<1>7. CASE m >= 0
  <2>1. m \in Numbers
    BY <1>1, <1>2, <1>7, OffsetsAre
  <2>2. Bits(m) = {}
    BY <1>6, <1>7 DEF Word
  <2>3. m = 0
    BY <2>1, <2>2, BitsNone
  <2> QED
    BY <1>1, <1>2, <2>3
<1>8. CASE m < 0
  <2>1. PICK a : a = -m
    OBVIOUS
  <2>2. a \in Numbers
    BY <1>1, <1>2, <1>8, <2>1, OffsetsAre
  <2>3. Neg(w, Bits(a)) = {}
    BY <1>6, <1>8, <2>1, SMT DEF Word
  <2>4. Bits(a) = {}
    BY <2>3 DEF Neg
  <2>5. a = 0
    BY <2>2, <2>4, BitsNone
  <2> QED
    BY <1>6, <1>8, <2>1, <2>5
<1> QED
  BY <1>6, <1>7, <1>8
=============================================================================
