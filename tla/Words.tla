------------------------------- MODULE Words --------------------------------
(***************************************************************************)
(* Machine words: an unsigned word of w bits is the set of its bits that   *)
(* are one, a subset of 0..w-1.  So 64-bit arithmetic is exact, and a mask *)
(* is an intersection.                                                     *)
(***************************************************************************)
EXTENDS Integers

\* The bits of a natural number below 2^31.
Bits(n) == {k \in 0..30 : (n \div 2^k) % 2 = 1}

\* a << s in w bits, a >> s of an unsigned word, and the low n bits of a as a signed
\* number in w bits.
Shl(w, a, s) == {k \in 0..w - 1 : k - s \in a}
Shr(a, s) == {k - s : k \in {j \in a : j >= s}}
Sext(w, a, n) == (a \cap 0..n - 1) \cup (IF n - 1 \in a THEN n..w - 1 ELSE {})

Least(S) == CHOOSE k \in S : \A j \in S : k <= j

\* An adder with carry lookahead: a carry that bit j makes is passed on by the bits above
\* it, and taken by the first of them that is zero in both words.
Carry(w, a, b) ==
    UNION {LET zeros == (j + 1..w - 1) \ (a \cup b)
           IN  j + 1..IF zeros = {} THEN w - 1 ELSE Least(zeros) : j \in a \cap b}

Xor(a, b) == (a \ b) \cup (b \ a)
Plus(w, a, b) == Xor(Xor(a, b), Carry(w, a, b))

\* The two's complement: the bits above the lowest one are inverted.
Neg(w, a) == IF a = {} THEN {} ELSE {Least(a)} \cup ((Least(a) + 1..w - 1) \ a)
Minus(w, a, b) == Plus(w, a, Neg(w, b))

\* The integer n, up to 2^31 - 1 in size, in w bits.
Word(w, n) == IF n >= 0 THEN Bits(n) ELSE Neg(w, Bits(-n))
=============================================================================
