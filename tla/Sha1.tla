--------------------------------- MODULE Sha1 ---------------------------------
(***************************************************************************)
(* SHA1Init, SHA1Update and SHA1Final of nt_ptcl.c: a stream of bytes cut  *)
(* into blocks of 64, with a count of its bits in two words and a padding. *)
(*                                                                         *)
(* stream and blocks are history: the bytes that SHA1Update was given, and *)
(* the blocks that SHA1Transform was.                                      *)
(***************************************************************************)
EXTENDS Sha1Block, SequencesExt

CONSTANTS
    WordModulus,   \* 2 ^ 32: a word of the count
    Junk           \* bytes an uninitialized buffer may have

ASSUME Sha1Assumption ==
    /\ WordModulus \in Nat \ {0} /\ WordModulus % 512 = 0
    /\ Junk \subseteq Byte /\ Junk # {}

VARIABLES
    pc,
    message,       \* what is to be hashed
    ctx,           \* the context: state, count[0], count[1], buffer
    finalcount,    \* of SHA1Final
    digest,        \* twenty bytes
    stream, blocks

sha1 == <<pc, message, ctx, finalcount, digest, stream, blocks>>

InitialState ==
    [k \in 0 .. 4 |->
        Hex(<< <<103, 69, 35, 1>>, <<239, 205, 171, 137>>, <<152, 186, 220, 254>>,
               <<16, 50, 84, 118>>, <<195, 210, 225, 240>> >>[k + 1])]

NoDigest == [k \in 0 .. 19 |-> 0]

(* SHA1Init does not touch the buffer. *)
SHA1Init(b) ==
    [state |-> InitialState, low |-> 0, high |-> 0, buffer |-> [k \in 0 .. 63 |-> b]]

(* The context of zeroes that SHA1Final leaves *)
Wiped == [state |-> [k \in 0 .. 4 |-> {}], low |-> 0, high |-> 0,
          buffer |-> [k \in 0 .. 63 |-> 0]]

-----------------------------------------------------------------------------
(* SHA1Update *)

(* Mutant: a block that is just full is left in the buffer. *)
CompletesLate(j, len) == j + len > 64

(* The bytes fill the buffer. *)
Completes(j, len) == j + len > 63

(* The bytes in the buffer *)
Held(c) == (c.low \div 8) % 64

(* The buffer, with bytes d .. of data written at position j *)
Written(buffer, j, data, d) ==
    [b \in 0 .. 63 |-> IF b \in j .. j + Len(data) - d THEN data[b - j + d] ELSE buffer[b]]

(* The loop for (; i + 63 < len; i += 64) *)
WholeBlocks(data, i) ==
    [t \in 1 .. (Len(data) - i) \div 64 |-> [b \in 0 .. 63 |-> data[i + 64 * (t - 1) + b + 1]]]

(* The blocks that are transformed when data comes: the buffer that has    *)
(* been filled up, then those that are whole in data *)
BlocksOf(c, data) ==
    LET j == Held(c)
    IN  IF Completes(j, Len(data))
        THEN <<Written(c.buffer, j, data, 1)>> \o WholeBlocks(data, 64 - j)
        ELSE <<>>

(* The carry of count[0] is seen from its having become smaller. *)
SHA1Update(c, data) ==
    LET len == Len(data)
        j == Held(c)
        low == (c.low + ((8 * len) % WordModulus)) % WordModulus
        carry == IF low < c.low THEN 1 ELSE 0
        i == 64 - j + 64 * ((len - (64 - j)) \div 64)   \* where the loop ends
    IN  [state |-> FoldLeft(SHA1Transform, c.state, BlocksOf(c, data)),
         low |-> low,
         high |-> (c.high + carry + (8 * len) \div WordModulus) % WordModulus,
         buffer |-> IF Completes(j, len)
                    THEN Written(Written(c.buffer, j, data, 1), 0, data, i + 1)
                    ELSE Written(c.buffer, j, data, 1)]

Put(data) ==
    /\ ctx' = SHA1Update(ctx, data)
    /\ stream' = stream \o data
    /\ blocks' = blocks \o BlocksOf(ctx, data)

-----------------------------------------------------------------------------
Start(m) ==
    /\ pc' = "update"
    /\ message' = m
    /\ \E b \in Junk : ctx' = SHA1Init(b)
    /\ stream' = <<>>
    /\ blocks' = <<>>
    /\ UNCHANGED <<finalcount, digest>>

(* The caller gives the next n bytes of its message; SHA1 gives one at a   *)
(* time.                                                                   *)
Update(n) ==
    /\ pc = "update"
    /\ n \in 1 .. Len(message) - Len(stream)
    /\ Put(SubSeq(message, Len(stream) + 1, Len(stream) + n))
    /\ UNCHANGED <<pc, message, finalcount, digest>>

(* The bytes of a word of the count *)
Bytes(w) == <<(w \div 16777216) % 256, (w \div 65536) % 256, (w \div 256) % 256, w % 256>>

(* SHA1Final takes the count, and pads: a byte 0200, *)
Final ==
    /\ pc = "update" /\ Len(stream) = Len(message)
    /\ pc' = "pad"
    /\ finalcount' = Bytes(ctx.high) \o Bytes(ctx.low)
    /\ Put(<<128>>)
    /\ UNCHANGED <<message, digest>>

(* zeroes until eight bytes are missing, *)
Pad ==
    /\ pc = "pad" /\ Held(ctx) # 56
    /\ Put(<<0>>)
    /\ UNCHANGED <<pc, message, finalcount, digest>>

(* Byte k of the digest *)
DigestByte(state, k) ==
    LET bit(b) == IF (3 - (k % 4)) * 8 + b \in state[k \div 4] THEN 1 ELSE 0
    IN  bit(0) + 2 * bit(1) + 4 * bit(2) + 8 * bit(3)
        + 16 * bit(4) + 32 * bit(5) + 64 * bit(6) + 128 * bit(7)

(* and the count, which completes the last block. *)
Digest ==
    /\ pc = "pad" /\ Held(ctx) = 56
    /\ pc' = "done"
    /\ LET last == SHA1Update(ctx, finalcount)
       IN  digest' = [k \in 0 .. 19 |-> DigestByte(last.state, k)]
    /\ stream' = stream \o finalcount
    /\ blocks' = blocks \o BlocksOf(ctx, finalcount)
    /\ ctx' = Wiped
    /\ UNCHANGED <<message, finalcount>>

-----------------------------------------------------------------------------
(* What FIPS 180 calls the padded message, with the words of the length    *)
(* modulo WordModulus *)
Padded(m) ==
    LET bits == 8 * Len(m)
        zeroes == (119 - (Len(m) % 64)) % 64
    IN  m \o <<128>> \o [k \in 1 .. zeroes |-> 0]
          \o Bytes((bits \div WordModulus) % WordModulus) \o Bytes(bits % WordModulus)

TypeOK ==
    /\ pc \in {"idle", "update", "pad", "done"}
    /\ message \in Seq(Byte) /\ stream \in Seq(Byte) /\ finalcount \in Seq(Byte)
    /\ digest \in [0 .. 19 -> Byte]
    /\ ctx.low \in 0 .. WordModulus - 1 /\ ctx.high \in 0 .. WordModulus - 1
    /\ ctx.buffer \in [0 .. 63 -> Byte]
    /\ blocks \in Seq([0 .. 63 -> Byte])

(* The count is that of the bits so far, the blocks are those of the       *)
(* stream, and the buffer holds the rest of it.                            *)
CountExact ==
    /\ ctx.low = (8 * Len(stream)) % WordModulus
    /\ ctx.high = ((8 * Len(stream)) \div WordModulus) % WordModulus

BufferExact ==
    \A b \in 0 .. (Len(stream) % 64) - 1 :
        ctx.buffer[b] = stream[Len(stream) - (Len(stream) % 64) + b + 1]

BlocksExact ==
    /\ Len(blocks) = Len(stream) \div 64
    /\ \A k \in 1 .. Len(blocks) : \A b \in 0 .. 63 :
         blocks[k][b] = stream[64 * (k - 1) + b + 1]

(* However the message is cut into calls of SHA1Update, and whatever the   *)
(* buffer held before, the blocks transformed are the message, each byte   *)
(* in its place, and at the end the message padded as the standard says;   *)
(* the count in two words has the carry that becoming smaller tells.       *)
HashedExact ==
    /\ TypeOK
    /\ pc \in {"update", "pad"} => CountExact /\ BufferExact
    /\ pc # "idle" => BlocksExact
    /\ pc = "update" => stream = SubSeq(message, 1, Len(stream))
    /\ pc = "done" => stream = Padded(message)

=============================================================================
