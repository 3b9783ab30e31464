------------------------------- MODULE Sha1Block -------------------------------
(***************************************************************************)
(* SHA1Transform of nt_ptcl.c: what a block of 64 bytes does to the five   *)
(* words of the state.  A word of 32 bits is the set of its bits that are  *)
(* 1, so that & | ^ are operations of sets, and rol moves the bits round.  *)
(***************************************************************************)
EXTENDS Integers, Sequences, FiniteSets

Bit == 0 .. 31
Word == SUBSET Bit
Byte == 0 .. 255

Xor(x, y) == (x \cup y) \ (x \cap y)
rol(w, n) == {(b + n) % 32 : b \in w}

(* Four bytes, the first of them in the lowest bits *)
LittleEndian(b) ==
    {i \in Bit : (b[i \div 8 + 1] \div 2 ^ (i % 8)) % 2 = 1}

(* A word as hexadecimal writes it, from its four bytes *)
Hex(b) == LittleEndian(<<b[4], b[3], b[2], b[1]>>)

(* The sum of a sequence of words, modulo 2 ^ 32: column by column *)
AddWords(words) ==
    LET upTo[i \in 0 .. 32] ==
            IF i = 0 THEN [bits |-> {}, carry |-> 0]
            ELSE LET below == upTo[i - 1]
                     column == below.carry + Cardinality({k \in DOMAIN words : i - 1 \in words[k]})
                 IN  [bits |-> IF column % 2 = 1 THEN below.bits \cup {i - 1} ELSE below.bits,
                      carry |-> column \div 2]
    IN  IF words = <<>> THEN {} ELSE upTo[32].bits

-----------------------------------------------------------------------------
(* Mutant: the expansion of SHA-0, which has no rotation. *)
ExpandUnrotated(l, i) ==
    Xor(Xor(l[(i + 13) % 16], l[(i + 8) % 16]), Xor(l[(i + 2) % 16], l[i % 16]))

(* blk: word i of the schedule, from the sixteen before it *)
Expand(l, i) ==
    rol(Xor(Xor(l[(i + 13) % 16], l[(i + 8) % 16]),
            Xor(l[(i + 2) % 16], l[i % 16])), 1)

(* blk0: on a little-endian machine the bytes of the word are reversed. *)
Swapped(w) ==
    LET odd == {b \in Bit : (b \div 8) % 2 = 1}   \* 0xFF00FF00
    IN  (rol(w, 24) \cap odd) \cup (rol(w, 8) \ odd)

(* The function of R0 and R1, R2, R3 and R4, and its constant *)
Mix(i, w, x, y) ==
    CASE i < 20 -> Xor(w \cap Xor(x, y), y)
      [] i \in 20 .. 39 \cup 60 .. 79 -> Xor(Xor(w, x), y)
      [] i \in 40 .. 59 -> ((w \cup x) \cap y) \cup (w \cap x)

K(i) ==
    CASE i < 20 -> Hex(<<90, 130, 121, 153>>)
      [] i \in 20 .. 39 -> Hex(<<110, 217, 235, 161>>)
      [] i \in 40 .. 59 -> Hex(<<143, 27, 188, 220>>)
      [] i >= 60 -> Hex(<<202, 98, 193, 214>>)

(* Round i changes one variable of a .. e, h[0] .. h[4], and rotates       *)
(* another; which ones they are moves back by one each round.  The sixteen *)
(* words l are overwritten as the schedule goes on.                        *)
Round(i, s) ==
    LET at(k) == (k + 4 * i) % 5    \* v, w, x, y, z are at(0) .. at(4)
        blk == IF i < 16 THEN Swapped(s.l[i]) ELSE Expand(s.l, i)
        z == AddWords(<<s.h[at(4)], Mix(i, s.h[at(1)], s.h[at(2)], s.h[at(3)]),
                   blk, K(i), rol(s.h[at(0)], 5)>>)
    IN  [l |-> [s.l EXCEPT ![i % 16] = blk],
         h |-> [s.h EXCEPT ![at(4)] = z, ![at(1)] = rol(s.h[at(1)], 30)]]

(* Twenty rounds from s, the n-th twenty of the four *)
Twenty(n, s) ==
    LET after[i \in 0 .. 20] ==
            IF i = 0 THEN s ELSE Round(20 * n + i - 1, after[i - 1])
    IN  after[20]

(* state is a function of 0 .. 4, block one of 0 .. 63.  (The twenties are *)
(* the only elements of sets so that each is evaluated before the next.)   *)
SHA1Transform(state, block) ==
    LET l == [k \in 0 .. 15 |-> LittleEndian([b \in 1 .. 4 |-> block[4 * k + b - 1]])]
        half == {Twenty(1, s) : s \in {Twenty(0, [h |-> state, l |-> l])}}
        h == (CHOOSE s \in {Twenty(3, t) : t \in {Twenty(2, s) : s \in half}} : TRUE).h
    IN  [k \in 0 .. 4 |-> AddWords(<<state[k], h[k]>>)]

=============================================================================
