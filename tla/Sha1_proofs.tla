------------------------------ MODULE Sha1_proofs ------------------------------
(***************************************************************************)
(* Proofs about Sha1 and Ptcl: what is hashed is the message, for messages *)
(* of every length and words of every size.                                *)
(***************************************************************************)
EXTENDS Ptcl, TLAPS

-----------------------------------------------------------------------------
(* Division by a number that is not a literal *)

LEMMA DivMod ==
  ASSUME NEW m \in Nat \ {0}, NEW x \in Nat
  PROVE  \E d \in Nat, r \in 0 .. m - 1 : d = x \div m /\ r = x % m /\ x = m * d + r
  <1>1. PICK d \in Nat : d = x \div m
    OBVIOUS
  <1>2. PICK r \in 0 .. m - 1 : r = x % m
    OBVIOUS
  <1>3. r = x - m * d
    BY <1>1, <1>2
  <1>4. x = m * d + r
    BY <1>3
  <1> QED
    BY <1>1, <1>2, <1>4

LEMMA Monotonic ==
  ASSUME NEW m \in Nat \ {0}, NEW p \in Nat, NEW q \in Nat, p < q
  PROVE  m * p + m <= m * q
  <1>1. PICK d \in Nat : q = p + 1 + d
    <2>1. q - p - 1 \in Nat /\ q = p + 1 + (q - p - 1)
      OBVIOUS
    <2> QED
      BY <2>1
  <1>2. m * q = m * p + m + m * d
    BY <1>1
  <1>3. m * d \in Nat
    OBVIOUS
  <1> QED
    BY <1>2, <1>3

LEMMA Unique ==
  ASSUME NEW m \in Nat \ {0}, NEW p \in Nat, NEW q \in Nat,
         NEW r \in 0 .. m - 1, NEW s \in 0 .. m - 1, m * p + r = m * q + s
  PROVE  p = q /\ r = s
  <1>1. m * p \in Nat /\ m * q \in Nat
    OBVIOUS
  <1>2. CASE p < q
    BY <1>1, <1>2, Monotonic
  <1>3. CASE q < p
    BY <1>1, <1>3, Monotonic
  <1> QED
    BY <1>1, <1>2, <1>3

LEMMA DivModIs ==
  ASSUME NEW m \in Nat \ {0}, NEW q \in Nat, NEW r \in 0 .. m - 1, NEW x \in Nat, x = m * q + r
  PROVE  x \div m = q /\ x % m = r
  <1>1. PICK d \in Nat, s \in 0 .. m - 1 : d = x \div m /\ s = x % m /\ x = m * d + s
    BY DivMod
  <1>2. d = q /\ s = r
    BY <1>1, Unique
  <1> QED
    BY <1>1, <1>2

LEMMA ModOfSum ==
  ASSUME NEW m \in Nat \ {0}, NEW x \in Nat, NEW y \in Nat
  PROVE  ((x % m) + y) % m = (x + y) % m
  <1>1. PICK p \in Nat, r \in 0 .. m - 1 : p = x \div m /\ r = x % m /\ x = m * p + r
    BY DivMod
  <1>2. PICK q \in Nat, s \in 0 .. m - 1 : q = (r + y) \div m /\ s = (r + y) % m /\ r + y = m * q + s
    <2>1. r + y \in Nat
      OBVIOUS
    <2> QED
      BY <2>1, DivMod
  <1>3. x + y = m * (p + q) + s
    <2>1. m * (p + q) = m * p + m * q
      OBVIOUS
    <2>2. x = m * p + r /\ r + y = m * q + s
      BY <1>1, <1>2
    <2>3. m * p \in Int /\ m * q \in Int
      OBVIOUS
    <2> QED
      BY <2>1, <2>2, <2>3
  <1>4. (x + y) % m = s
    <2>1. PICK z \in Nat, d \in Nat : z = x + y /\ d = p + q
      OBVIOUS
    <2>2. z = m * d + s
      BY <1>3, <2>1
    <2>3. z % m = s
      BY <2>2, DivModIs
    <2> QED
      BY <2>1, <2>3
  <1> QED
    BY <1>1, <1>2, <1>4

-----------------------------------------------------------------------------
LEMMA Words == WordModulus \in Nat \ {0} /\ WordModulus % 512 = 0
  BY Sha1Assumption

(* The count of SHA1Update: the carry is found by comparing. *)
LEMMA CountStep ==
  ASSUME NEW n \in Nat, NEW len \in Nat, NEW low, NEW high, NEW sum, NEW carry,
         low = (8 * n) % WordModulus, high = ((8 * n) \div WordModulus) % WordModulus,
         sum = (low + ((8 * len) % WordModulus)) % WordModulus,
         carry = IF sum < low THEN 1 ELSE 0
  PROVE  /\ sum = (8 * (n + len)) % WordModulus
         /\ (high + carry + (8 * len) \div WordModulus) % WordModulus
              = ((8 * (n + len)) \div WordModulus) % WordModulus
  <1> DEFINE W == WordModulus
  <1>1. W \in Nat \ {0}
    BY Words
  <1> HIDE DEF W
  <1>2. PICK q \in Nat, l \in 0 .. W - 1 : q = (8 * n) \div W /\ l = (8 * n) % W /\ 8 * n = W * q + l
    <2>1. PICK z \in Nat : z = 8 * n
      OBVIOUS
    <2>2. \E q \in Nat, l \in 0 .. W - 1 : q = z \div W /\ l = z % W /\ z = W * q + l
      BY <1>1, DivMod
    <2> QED
      BY <2>1, <2>2
  <1>3. PICK a \in Nat, b \in 0 .. W - 1 : a = (8 * len) \div W /\ b = (8 * len) % W /\ 8 * len = W * a + b
    <2>1. PICK z \in Nat : z = 8 * len
      OBVIOUS
    <2>2. \E a \in Nat, b \in 0 .. W - 1 : a = z \div W /\ b = z % W /\ z = W * a + b
      BY <1>1, DivMod
    <2> QED
      BY <2>1, <2>2
  <1>4. low = l /\ high = q % W /\ sum = (l + b) % W
    BY <1>2, <1>3 DEF W
  <1>5. /\ carry \in {0, 1} /\ sum \in 0 .. W - 1
        /\ l + b = W * carry + sum
    <2>1. CASE l + b < W
      <3>1. PICK z \in Nat : z = l + b
        OBVIOUS
      <3>2. z = W * 0 + z /\ z \in 0 .. W - 1
        BY <1>1, <2>1, <3>1
      <3>3. z % W = z
        BY <1>1, <3>2, DivModIs
      <3>4. sum = l + b
        BY <1>4, <3>1, <3>3
      <3>5. carry = 0
        BY <1>4, <3>4
      <3> QED
        BY <1>1, <2>1, <3>4, <3>5
    <2>2. CASE l + b >= W
      <3>1. PICK z \in Nat, r \in 0 .. W - 1 : z = l + b /\ r = l + b - W
        BY <1>1, <2>2
      <3>2. z = W * 1 + r
        BY <1>1, <3>1
      <3>3. z % W = r
        BY <1>1, <3>2, DivModIs
      <3>4. sum = l + b - W
        BY <1>4, <3>1, <3>3
      <3>5. carry = 1
        BY <1>1, <1>4, <3>4
      <3> QED
        BY <1>1, <2>2, <3>1, <3>4, <3>5
    <2> QED
      BY <1>1, <2>1, <2>2
  <1>6. PICK x \in Nat, p \in Nat : x = 8 * (n + len) /\ p = q + a + carry
    BY <1>5
  <1>7. x = W * p + sum
    <2>1. W * p = W * q + W * a + W * carry
      BY <1>1, <1>5, <1>6
    <2>2. x = 8 * n + 8 * len
      BY <1>6
    <2>3. 8 * n = W * q + l /\ 8 * len = W * a + b
      BY <1>2, <1>3
    <2>4. PICK u \in Int, v \in Int, w \in Int : u = W * q /\ v = W * a /\ w = W * carry
      BY <1>1, <1>5
    <2>5. W * p = u + v + w
      BY <2>1, <2>4
    <2>6. 8 * n = u + l /\ 8 * len = v + b /\ l + b = w + sum
      BY <1>5, <2>3, <2>4
    <2>7. x = u + v + w + sum
      BY <1>5, <2>2, <2>6
    <2> QED
      BY <2>5, <2>7
  <1>8. x \div W = p /\ x % W = sum
    BY <1>1, <1>5, <1>7, DivModIs
  <1>9. (high + carry + a) % W = p % W
    <2>1. PICK y \in Nat : y = carry + a
      BY <1>5
    <2>2. ((q % W) + y) % W = (q + y) % W
      BY <1>1, ModOfSum
    <2>3. PICK d \in Nat, h \in 0 .. W - 1 : d = q \div W /\ h = q % W /\ q = W * d + h
      BY <1>1, DivMod
    <2>4. high + carry + a = h + y /\ q + y = p
      BY <1>4, <1>5, <1>6, <2>1, <2>3
    <2> QED
      BY <2>2, <2>3, <2>4
  <1> QED
    BY <1>3, <1>6, <1>8, <1>9 DEF W

(* The bytes in the buffer are those after the last whole block, however   *)
(* often the count has gone round.                                         *)
LEMMA HeldIs ==
  ASSUME NEW n \in Nat, NEW c, c.low = (8 * n) % WordModulus
  PROVE  Held(c) = n % 64
  <1>1. PICK h \in Nat : WordModulus = 512 * h
    <2>1. WordModulus = 512 * (WordModulus \div 512) /\ WordModulus \div 512 \in Nat
      BY Words
    <2> QED
      BY <2>1
  <1>2. PICK k \in Nat, l \in 0 .. WordModulus - 1 :
            k = (8 * n) \div WordModulus /\ l = (8 * n) % WordModulus /\ 8 * n = WordModulus * k + l
    <2>1. PICK z \in Nat : z = 8 * n
      OBVIOUS
    <2>2. \E k \in Nat, l \in 0 .. WordModulus - 1 :
            k = z \div WordModulus /\ l = z % WordModulus /\ z = WordModulus * k + l
      BY Words, DivMod
    <2> QED
      BY <2>1, <2>2
  <1>3. PICK t \in Nat : t = h * k
    BY <1>1
  <1>4. WordModulus * k = 512 * t
    BY <1>1, <1>3
  <1>5. c.low = l /\ l = 8 * n - 512 * t
    BY <1>2, <1>4
  <1>6. c.low \div 8 = n - 64 * t
    BY <1>5
  <1>7. (n - 64 * t) % 64 = n % 64
    OBVIOUS
  <1> QED
    BY <1>6, <1>7 DEF Held

-----------------------------------------------------------------------------
(* The blocks and the buffer *)

Blocks == [0 .. 63 -> Byte]

LEMMA Div64 ==
  ASSUME NEW n \in Nat
  PROVE  \E q \in Nat, j \in 0 .. 63 : q = n \div 64 /\ j = n % 64 /\ n = 64 * q + j /\ j <= n
  <1>1. PICK q \in Nat, j \in 0 .. 63 : q = n \div 64 /\ j = n % 64 /\ n = 64 * q + j
    BY DivMod
  <1>2. j <= n
    BY <1>1
  <1> QED
    BY <1>1, <1>2

LEMMA ConcatAt ==
  ASSUME NEW S, NEW s \in Seq(S), NEW t \in Seq(S), NEW n, n = Len(s), NEW k \in 1 .. Len(t)
  PROVE  (s \o t)[n + k] = t[k]
  OBVIOUS

LEMMA AppendAt ==
  ASSUME NEW S, NEW s \in Seq(S), NEW x \in S
  PROVE  (s \o <<x>>)[Len(s) + 1] = <<x>>[1]
  OBVIOUS

LEMMA SequenceOf ==
  ASSUME NEW S, NEW w \in Nat, NEW f \in [1 .. w -> S]
  PROVE  f \in Seq(S) /\ Len(f) = w
  OBVIOUS

LEMMA WrittenTyped ==
  ASSUME NEW buffer \in Blocks, NEW j \in Nat, NEW d \in Nat \ {0}, NEW data \in Seq(Byte)
  PROVE  Written(buffer, j, data, d) \in Blocks
  <1>1. ASSUME NEW b \in 0 .. 63 PROVE (IF b \in j .. j + Len(data) - d THEN data[b - j + d] ELSE buffer[b]) \in Byte
    <2>1. CASE b \in j .. j + Len(data) - d
      <3>1. b - j + d \in 1 .. Len(data)
        BY <2>1
      <3> QED
        BY <2>1, <3>1
    <2>2. CASE b \notin j .. j + Len(data) - d
      BY <2>2 DEF Blocks
    <2> QED
      BY <2>1, <2>2
  <1> QED
    BY <1>1 DEF Written, Blocks

LEMMA WholeBlocksTyped ==
  ASSUME NEW data \in Seq(Byte), NEW i \in Nat, i <= Len(data)
  PROVE  /\ WholeBlocks(data, i) \in Seq(Blocks)
         /\ Len(WholeBlocks(data, i)) = (Len(data) - i) \div 64
         /\ \A t \in 1 .. (Len(data) - i) \div 64 : \A b \in 0 .. 63 :
              WholeBlocks(data, i)[t][b] = data[i + 64 * (t - 1) + b + 1]
  <1> DEFINE w == (Len(data) - i) \div 64
  <1>1. w \in Nat /\ 64 * w <= Len(data) - i
    OBVIOUS
  <1> HIDE DEF w
  <1>2. ASSUME NEW t \in 1 .. w, NEW b \in 0 .. 63 PROVE data[i + 64 * (t - 1) + b + 1] \in Byte
    <2>1. i + 64 * (t - 1) + b + 1 \in 1 .. Len(data)
      BY <1>1
    <2> QED
      BY <2>1
  <1>3. ASSUME NEW t \in 1 .. w PROVE [b \in 0 .. 63 |-> data[i + 64 * (t - 1) + b + 1]] \in Blocks
    BY <1>2 DEF Blocks
  <1>4. WholeBlocks(data, i) = [t \in 1 .. w |-> [b \in 0 .. 63 |-> data[i + 64 * (t - 1) + b + 1]]]
    BY DEF WholeBlocks, w
  <1>5. WholeBlocks(data, i) \in Seq(Blocks) /\ Len(WholeBlocks(data, i)) = w
    <2>1. WholeBlocks(data, i) \in [1 .. w -> Blocks]
      BY <1>3, <1>4
    <2> QED
      BY <1>1, <2>1, SequenceOf
  <1>6. \A t \in 1 .. w : \A b \in 0 .. 63 :
          WholeBlocks(data, i)[t][b] = data[i + 64 * (t - 1) + b + 1]
    BY <1>4
  <1> QED
    BY <1>5, <1>6 DEF w

Exact == TypeOK /\ CountExact /\ BufferExact /\ BlocksExact

(* The buffer with the bytes of data that fit into it *)
LEMMA WrittenIs ==
  ASSUME Exact, NEW data \in Seq(Byte), NEW b \in 0 .. 63, NEW n \in Nat, n = Len(stream),
         b < (n % 64) + Len(data)
  PROVE  Written(ctx.buffer, n % 64, data, 1)[b] = (stream \o data)[n - (n % 64) + b + 1]
  <1>1. PICK j \in 0 .. 63 : j = n % 64 /\ j <= n
    BY Div64
  <1>2. Written(ctx.buffer, j, data, 1)[b]
          = IF b \in j .. j + Len(data) - 1 THEN data[b - j + 1] ELSE ctx.buffer[b]
    BY DEF Written
  <1>3. stream \in Seq(Byte)
    BY DEF Exact, TypeOK
  <1>4. CASE b < j
    <2>1. ctx.buffer[b] = stream[n - j + b + 1]
      BY <1>1, <1>4 DEF Exact, BufferExact
    <2>2. n - j + b + 1 \in 1 .. Len(stream)
      BY <1>1, <1>4
    <2>3. (stream \o data)[n - j + b + 1] = stream[n - j + b + 1]
      BY <1>3, <2>2
    <2> QED
      BY <1>1, <1>2, <1>4, <2>1, <2>3
  <1>5. CASE b >= j
    <2>1. b - j + 1 \in 1 .. Len(data)
      BY <1>1, <1>5
    <2>2. n - j + b + 1 = Len(stream) + (b - j + 1)
      BY <1>1
    <2>3. (stream \o data)[n - j + b + 1] = data[b - j + 1]
      BY <1>3, <2>1, <2>2
    <2> QED
      BY <1>1, <1>2, <1>5, <2>1, <2>3
  <1> QED
    BY <1>4, <1>5

LEMMA PutTyped ==
  ASSUME Exact, NEW data \in Seq(Byte)
  PROVE  /\ stream \o data \in Seq(Byte) /\ Len(stream \o data) = Len(stream) + Len(data)
         /\ Held(ctx) = Len(stream) % 64 /\ Held(ctx) \in 0 .. 63
         /\ Written(ctx.buffer, Held(ctx), data, 1) \in Blocks
         /\ BlocksOf(ctx, data) \in Seq(Blocks)
  <1>1. stream \in Seq(Byte) /\ ctx.buffer \in Blocks
    BY DEF Exact, TypeOK, Blocks
  <1>2. stream \o data \in Seq(Byte) /\ Len(stream \o data) = Len(stream) + Len(data)
    BY <1>1
  <1>3. Held(ctx) = Len(stream) % 64
    <2>1. PICK n \in Nat : n = Len(stream)
      BY <1>1
    <2> QED
      BY <2>1, HeldIs DEF Exact, CountExact
  <1>4. Held(ctx) \in 0 .. 63
    <2>1. PICK n \in Nat : n = Len(stream)
      BY <1>1
    <2>2. n % 64 \in 0 .. 63
      BY Div64
    <2> QED
      BY <1>3, <2>1, <2>2
  <1>5. Written(ctx.buffer, Held(ctx), data, 1) \in Blocks
    <2>1. PICK j \in Nat : j = Held(ctx)
      BY <1>4
    <2> QED
      BY <1>1, <2>1, WrittenTyped
  <1>6. BlocksOf(ctx, data) \in Seq(Blocks)
    <2>1. CASE Completes(Held(ctx), Len(data))
      <3>1. PICK i \in Nat : i = 64 - Held(ctx) /\ i <= Len(data)
        <4>1. PICK j \in 0 .. 63 : j = Held(ctx)
          BY <1>4
        <4>2. j + Len(data) > 63 /\ Len(data) \in Nat
          BY <2>1, <4>1 DEF Completes
        <4>3. 64 - j \in Nat /\ 64 - j <= Len(data)
          BY <4>2
        <4> QED
          BY <4>1, <4>3
      <3>2. WholeBlocks(data, i) \in Seq(Blocks)
        BY <3>1, WholeBlocksTyped
      <3>3. BlocksOf(ctx, data) = <<Written(ctx.buffer, Held(ctx), data, 1)>> \o WholeBlocks(data, i)
        BY <2>1, <3>1 DEF BlocksOf
      <3> QED
        BY <1>5, <3>2, <3>3
    <2>2. CASE ~Completes(Held(ctx), Len(data))
      BY <2>2 DEF BlocksOf
    <2> QED
      BY <2>1, <2>2
  <1> QED
    BY <1>2, <1>3, <1>4, <1>5, <1>6

(* What SHA1Update does to the stream and the blocks keeps them exact. *)
LEMMA PutBlocks ==
  ASSUME Exact, NEW data \in Seq(Byte),
         stream' = stream \o data, blocks' = blocks \o BlocksOf(ctx, data)
  PROVE  BlocksExact' /\ stream' \in Seq(Byte) /\ blocks' \in Seq(Blocks)
  <1>1. stream \in Seq(Byte) /\ blocks \in Seq(Blocks)
    BY DEF Exact, TypeOK, Blocks
  <1>2. PICK n \in Nat, len \in Nat : n = Len(stream) /\ len = Len(data)
    BY <1>1
  <1>3. PICK q \in Nat, j \in 0 .. 63 : q = n \div 64 /\ j = n % 64 /\ n = 64 * q + j
    BY Div64
  <1>4. /\ stream' \in Seq(Byte) /\ Len(stream') = n + len /\ Held(ctx) = j
        /\ BlocksOf(ctx, data) \in Seq(Blocks)
        /\ Written(ctx.buffer, j, data, 1) \in Blocks
    BY <1>2, <1>3, PutTyped
  <1>5. blocks' \in Seq(Blocks) /\ Len(blocks') = q + Len(BlocksOf(ctx, data))
    <2>1. Len(blocks) = q
      BY <1>2, <1>3 DEF Exact, BlocksExact
    <2> QED
      BY <1>1, <1>4, <2>1
  <1>6. ASSUME NEW k \in 1 .. q, NEW b \in 0 .. 63
        PROVE  blocks'[k][b] = stream'[64 * (k - 1) + b + 1]
    <2>1. Len(blocks) = q /\ blocks[k][b] = stream[64 * (k - 1) + b + 1]
      BY <1>2, <1>3 DEF Exact, BlocksExact
    <2>2. 64 * (k - 1) + b + 1 \in 1 .. Len(stream)
      BY <1>2, <1>3
    <2>3. stream'[64 * (k - 1) + b + 1] = stream[64 * (k - 1) + b + 1]
      BY <1>1, <2>2
    <2>4. blocks'[k] = blocks[k]
      BY <1>1, <1>4, <2>1
    <2> QED
      BY <2>1, <2>3, <2>4
  <1>7. CASE ~(j + len > 63)
    <2>1. BlocksOf(ctx, data) = <<>>
      BY <1>2, <1>4, <1>7 DEF BlocksOf, Completes
    <2>2. (n + len) \div 64 = q
      BY <1>3, <1>7
    <2>3. Len(blocks') = q
      BY <1>5, <2>1
    <2> QED
      BY <1>4, <1>5, <1>6, <2>2, <2>3 DEF BlocksExact
  <1>8. CASE j + len > 63
    <2>1. PICK i \in Nat, w \in Nat : i = 64 - j /\ i <= len /\ w = (len - i) \div 64
      BY <1>8
    <2>2. /\ WholeBlocks(data, i) \in Seq(Blocks) /\ Len(WholeBlocks(data, i)) = w
          /\ \A t \in 1 .. w : \A b \in 0 .. 63 :
               WholeBlocks(data, i)[t][b] = data[i + 64 * (t - 1) + b + 1]
      BY <1>2, <2>1, WholeBlocksTyped
    <2>3. BlocksOf(ctx, data) = <<Written(ctx.buffer, j, data, 1)>> \o WholeBlocks(data, i)
      BY <1>2, <1>4, <1>8, <2>1 DEF BlocksOf, Completes
    <2>4. (n + len) \div 64 = q + 1 + w /\ 64 * w <= len - i
      BY <1>3, <2>1
    <2>5. Len(BlocksOf(ctx, data)) = w + 1
      BY <1>4, <2>2, <2>3
    <2>6. Len(blocks') = q + 1 + w
      BY <1>5, <2>5
    <2>7. ASSUME NEW b \in 0 .. 63 PROVE blocks'[q + 1][b] = stream'[64 * q + b + 1]
      <3>1. blocks'[q + 1] = Written(ctx.buffer, j, data, 1)
        <4>1. Len(blocks) = q
          BY <1>2, <1>3 DEF Exact, BlocksExact
        <4>2. BlocksOf(ctx, data)[1] = Written(ctx.buffer, j, data, 1)
          BY <1>4, <2>2, <2>3
        <4> QED
          BY <1>1, <1>4, <2>5, <4>1, <4>2
      <3>2. b < j + len
        BY <1>8
      <3>3. Written(ctx.buffer, j, data, 1)[b] = stream'[n - j + b + 1]
        BY <1>2, <1>3, <3>2, WrittenIs
      <3>4. n - j + b + 1 = 64 * q + b + 1
        BY <1>3
      <3> QED
        BY <3>1, <3>3, <3>4
    <2>8. ASSUME NEW t \in 1 .. w, NEW b \in 0 .. 63
          PROVE  blocks'[q + 1 + t][b] = stream'[64 * (q + t) + b + 1]
      <3>1. blocks'[q + 1 + t] = WholeBlocks(data, i)[t]
        <4>1. Len(blocks) = q
          BY <1>2, <1>3 DEF Exact, BlocksExact
        <4>2. BlocksOf(ctx, data)[1 + t] = WholeBlocks(data, i)[t]
          <5>1. /\ <<Written(ctx.buffer, j, data, 1)>> \in Seq(Blocks)
                /\ Len(<<Written(ctx.buffer, j, data, 1)>>) = 1
            BY <1>4
          <5> QED
            BY <2>2, <2>3, <5>1, ConcatAt
        <4>3. PICK k \in 1 .. w + 1 : k = 1 + t
          OBVIOUS
        <4>4. blocks'[q + k] = BlocksOf(ctx, data)[k]
          BY <1>1, <1>4, <2>5, <4>1, <4>3, ConcatAt
        <4>5. q + 1 + t = q + k
          BY <4>3
        <4> QED
          BY <4>2, <4>3, <4>4, <4>5
      <3>2. i + 64 * (t - 1) + b + 1 \in 1 .. len
        BY <2>4
      <3>3. stream'[n + (i + 64 * (t - 1) + b + 1)] = data[i + 64 * (t - 1) + b + 1]
        <4>1. PICK k \in 1 .. len : k = i + 64 * (t - 1) + b + 1
          BY <3>2
        <4>2. stream'[n + k] = data[k]
          BY <1>1, <1>2, ConcatAt
        <4> QED
          BY <4>1, <4>2
      <3>4. n + (i + 64 * (t - 1) + b + 1) = 64 * (q + t) + b + 1
        BY <1>3, <2>1
      <3> QED
        BY <2>2, <3>1, <3>3, <3>4
    <2>9. ASSUME NEW k \in 1 .. q + 1 + w, NEW b \in 0 .. 63
          PROVE  blocks'[k][b] = stream'[64 * (k - 1) + b + 1]
      <3>1. CASE k \in 1 .. q
        BY <1>6, <3>1
      <3>2. CASE k = q + 1
        <4>1. 64 * (k - 1) + b + 1 = 64 * q + b + 1
          BY <3>2
        <4> QED
          BY <2>7, <3>2, <4>1
      <3>3. CASE k > q + 1
        <4>1. PICK t \in 1 .. w : k = q + 1 + t
          <5>1. k - q - 1 \in 1 .. w /\ k = q + 1 + (k - q - 1)
            BY <3>3
          <5> QED
            BY <5>1
        <4>2. 64 * (k - 1) + b + 1 = 64 * (q + t) + b + 1
          BY <4>1
        <4> QED
          BY <2>8, <4>1, <4>2
      <3>4. k \in 1 .. q \/ k = q + 1 \/ k > q + 1
        OBVIOUS
      <3> QED
        BY <3>1, <3>2, <3>3, <3>4
    <2> QED
      BY <1>4, <1>5, <2>4, <2>6, <2>9 DEF BlocksExact
  <1> QED
    BY <1>4, <1>5, <1>7, <1>8

(* And what it does to the context *)
LEMMA PutContext ==
  ASSUME Exact, NEW data \in Seq(Byte),
         stream' = stream \o data, ctx' = SHA1Update(ctx, data)
  PROVE  /\ CountExact' /\ BufferExact' /\ ctx'.buffer \in Blocks
         /\ ctx'.low \in 0 .. WordModulus - 1 /\ ctx'.high \in 0 .. WordModulus - 1
  <1>1. stream \in Seq(Byte)
    BY DEF Exact, TypeOK
  <1>2. PICK n \in Nat, len \in Nat : n = Len(stream) /\ len = Len(data)
    BY <1>1
  <1>3. PICK q \in Nat, j \in 0 .. 63 : q = n \div 64 /\ j = n % 64 /\ n = 64 * q + j
    BY Div64
  <1>4. /\ stream' \in Seq(Byte) /\ Len(stream') = n + len /\ Held(ctx) = j
        /\ Written(ctx.buffer, j, data, 1) \in Blocks
    BY <1>2, <1>3, PutTyped
  <1> DEFINE low == (ctx.low + ((8 * len) % WordModulus)) % WordModulus
             carry == IF low < ctx.low THEN 1 ELSE 0
  <1>5. /\ ctx'.low = low
        /\ ctx'.high = (ctx.high + carry + (8 * len) \div WordModulus) % WordModulus
    BY <1>2 DEF SHA1Update
  <1>6. CountExact'
    <2>1. PICK l, h, c : l = low /\ c = carry /\ h = ctx.high
      OBVIOUS
    <2>2. ctx.low = (8 * n) % WordModulus /\ ctx.high = ((8 * n) \div WordModulus) % WordModulus
      BY <1>2 DEF Exact, CountExact
    <2>3. /\ low = (8 * (n + len)) % WordModulus
          /\ (ctx.high + carry + (8 * len) \div WordModulus) % WordModulus
              = ((8 * (n + len)) \div WordModulus) % WordModulus
      BY <2>2, CountStep
    <2> HIDE DEF low, carry
    <2> QED
      BY <1>4, <1>5, <2>3 DEF CountExact
  <1>7. ctx'.low \in 0 .. WordModulus - 1 /\ ctx'.high \in 0 .. WordModulus - 1
    <2>1. PICK x \in Nat : x = 8 * Len(stream')
      BY <1>4
    <2>2. PICK d \in Nat, r \in 0 .. WordModulus - 1 :
            d = x \div WordModulus /\ r = x % WordModulus /\ x = WordModulus * d + r
      BY Words, DivMod
    <2>3. PICK e \in Nat, s \in 0 .. WordModulus - 1 :
            e = d \div WordModulus /\ s = d % WordModulus /\ d = WordModulus * e + s
      BY Words, DivMod
    <2> QED
      BY <1>6, <2>1, <2>2, <2>3 DEF CountExact
  <1> HIDE DEF low, carry
  <1>8. CASE ~(j + len > 63)
    <2>1. ctx'.buffer = Written(ctx.buffer, j, data, 1)
      BY <1>2, <1>4, <1>8 DEF SHA1Update, Completes
    <2>2. (n + len) % 64 = j + len
      BY <1>3, <1>8
    <2>3. ASSUME NEW b \in 0 .. (j + len) - 1 PROVE ctx'.buffer[b] = stream'[(n + len) - (j + len) + b + 1]
      <3>1. b \in 0 .. 63 /\ b < j + len
        BY <1>8
      <3>2. ctx'.buffer[b] = stream'[n - j + b + 1]
        <4>1. Written(ctx.buffer, j, data, 1)[b] = stream'[n - j + b + 1]
          BY <1>2, <1>3, <3>1, WrittenIs
        <4> QED
          BY <2>1, <4>1
      <3>3. (n + len) - (j + len) + b + 1 = n - j + b + 1
        OBVIOUS
      <3> QED
        BY <3>2, <3>3
    <2>4. BufferExact'
      BY <1>4, <2>2, <2>3 DEF BufferExact
    <2> QED
      BY <1>4, <1>6, <1>7, <2>1, <2>4
  <1>9. CASE j + len > 63
    <2>1. PICK f \in Nat, w \in Nat, i \in Nat :
            f = 64 - j /\ f <= len /\ w = (len - f) \div 64 /\ i = f + 64 * w
      BY <1>9
    <2>2. i <= len /\ len - i < 64
      BY <2>1
    <2> DEFINE W == Written(ctx.buffer, j, data, 1)
    <2>3. ctx'.buffer = Written(W, 0, data, i + 1)
      BY <1>2, <1>4, <1>9, <2>1 DEF SHA1Update, Completes
    <2> HIDE DEF W
    <2>4. ctx'.buffer \in Blocks
      <3>1. W \in Blocks /\ i + 1 \in Nat \ {0}
        BY <1>4 DEF W
      <3> QED
        BY <2>3, <3>1, WrittenTyped
    <2>5. (n + len) % 64 = len - i
      BY <1>3, <2>1, <2>2
    <2>6. ASSUME NEW b \in 0 .. (len - i) - 1
          PROVE  ctx'.buffer[b] = stream'[(n + len) - (len - i) + b + 1]
      <3>1. b \in 0 .. 63 /\ b \in 0 .. 0 + len - (i + 1)
        BY <2>2
      <3>2. ctx'.buffer[b] = data[b + i + 1]
        <4>1. ctx'.buffer[b] = data[b - 0 + (i + 1)]
          BY <1>2, <2>3, <3>1 DEF Written
        <4>2. b - 0 + (i + 1) = b + i + 1
          OBVIOUS
        <4> QED
          BY <4>1, <4>2
      <3>3. b + i + 1 \in 1 .. len
        OBVIOUS
      <3>4. stream'[n + (b + i + 1)] = data[b + i + 1]
        BY <1>1, <1>2, <3>3
      <3>5. (n + len) - (len - i) + b + 1 = n + (b + i + 1)
        OBVIOUS
      <3> QED
        BY <3>2, <3>4, <3>5
    <2>7. BufferExact'
      BY <1>4, <2>5, <2>6 DEF BufferExact
    <2> QED
      BY <1>6, <1>7, <2>4, <2>7
  <1> QED
    BY <1>8, <1>9

-----------------------------------------------------------------------------
(* The message, the padding and the count *)

Zeroed(z) == [k \in 1 .. z |-> 0]
Padding(m) == (119 - (Len(m) % 64)) % 64

(* What there is to know of the frame for Handle: where its data are *)
FrameOk ==
    phase = "wire" =>
        /\ frame \in Seq(Byte)
        /\ Len(frame) >= DataAt + Len(sent.data)
        /\ IntAt(frame, LenAt) = Len(sent.data)

HashInv ==
    /\ TypeOK
    /\ pc \in {"update", "pad"} => CountExact /\ BufferExact
    /\ pc # "idle" => BlocksExact
    /\ pc = "update" => Len(stream) <= Len(message) /\ stream = SubSeq(message, 1, Len(stream))
    /\ pc = "pad" =>
         /\ \E z \in 0 .. Padding(message) : stream = message \o <<128>> \o Zeroed(z)
         /\ finalcount = Bytes(((8 * Len(message)) \div WordModulus) % WordModulus)
                            \o Bytes((8 * Len(message)) % WordModulus)
    /\ pc = "done" => stream = Padded(message)

SentOk ==
    phase \in {"send", "wire"} => sent.data \in Payload /\ sent.type \in Type

LEMMA BytesTyped ==
  ASSUME NEW w \in Nat
  PROVE  Bytes(w) \in Seq(Byte) /\ Len(Bytes(w)) = 4
  <1>1. \A x \in Nat : x % 256 \in Byte
    BY DEF Byte
  <1>2. w \div 16777216 \in Nat /\ w \div 65536 \in Nat /\ w \div 256 \in Nat
    OBVIOUS
  <1> QED
    BY <1>1, <1>2 DEF Bytes

LEMMA DigestTyped ==
  ASSUME NEW h, NEW k
  PROVE  DigestByte(h, k) \in Byte
  BY DEF DigestByte, Byte

(* When zeroes have been put until eight bytes are missing, there are as   *)
(* many as the standard asks for.                                          *)
LEMMA PaddingEnds ==
  ASSUME NEW n \in Nat, NEW z \in 0 .. (119 - (n % 64)) % 64
  PROVE  (n + 1 + z) % 64 = 56 <=> z = (119 - (n % 64)) % 64
  <1>1. PICK j \in 0 .. 63, q \in Nat : j = n % 64 /\ n = 64 * q + j
    BY Div64
  <1>2. (n + 1 + z) % 64 = (j + 1 + z) % 64
    BY <1>1
  <1>3. CASE j <= 55
    <2>1. (119 - j) % 64 = 55 - j
      BY <1>3
    <2> QED
      BY <1>1, <1>2, <1>3, <2>1
  <1>4. CASE j > 55
    <2>1. (119 - j) % 64 = 119 - j
      BY <1>4
    <2> QED
      BY <1>1, <1>2, <1>4, <2>1
  <1> QED
    BY <1>3, <1>4

LEMMA ZeroedTyped ==
  ASSUME NEW z \in Nat
  PROVE  Zeroed(z) \in Seq(Byte) /\ Len(Zeroed(z)) = z
  <1>1. Zeroed(z) \in [1 .. z -> Byte]
    BY DEF Zeroed, Byte
  <1> QED
    BY <1>1, SequenceOf

LEMMA OneMoreZero ==
  ASSUME NEW s \in Seq(Byte), NEW z \in Nat
  PROVE  (s \o Zeroed(z)) \o <<0>> = s \o Zeroed(z + 1)
  <1>1. Zeroed(z) \in Seq(Byte) /\ Len(Zeroed(z)) = z
    BY ZeroedTyped
  <1>2. Zeroed(z + 1) \in Seq(Byte) /\ Len(Zeroed(z + 1)) = z + 1
    BY ZeroedTyped
  <1>3. <<0>> \in Seq(Byte) /\ Len(<<0>>) = 1
    BY DEF Byte
  <1> DEFINE l == (s \o Zeroed(z)) \o <<0>>
             r == s \o Zeroed(z + 1)
  <1>4. l \in Seq(Byte) /\ r \in Seq(Byte) /\ Len(l) = Len(s) + z + 1 /\ Len(r) = Len(s) + z + 1
    BY <1>1, <1>2, <1>3
  <1>5. ASSUME NEW k \in 1 .. Len(s) + z + 1 PROVE l[k] = r[k]
    <2>1. CASE k <= Len(s)
      BY <1>1, <1>2, <1>3, <2>1
    <2>2. CASE k > Len(s) /\ k <= Len(s) + z
      <3>1. l[k] = Zeroed(z)[k - Len(s)] /\ r[k] = Zeroed(z + 1)[k - Len(s)]
        BY <1>1, <1>2, <1>3, <2>2
      <3> QED
        BY <2>2, <3>1 DEF Zeroed
    <2>3. CASE k = Len(s) + z + 1
      <3>1. s \o Zeroed(z) \in Seq(Byte) /\ Len(s \o Zeroed(z)) = Len(s) + z
        BY <1>1
      <3>2. 1 \in 1 .. Len(<<0>>) /\ z + 1 \in 1 .. Len(Zeroed(z + 1))
        BY <1>2, <1>3
      <3>3. l[(Len(s) + z) + 1] = <<0>>[1]
        <4>1. l[Len(s \o Zeroed(z)) + 1] = <<0>>[1]
          BY <1>3, <3>1, AppendAt DEF Byte
        <4> QED
          BY <3>1, <4>1
      <3>4. r[Len(s) + (z + 1)] = Zeroed(z + 1)[z + 1]
        BY <1>2, <3>2, ConcatAt
      <3>5. Len(s) \in Nat /\ <<0>>[1] = 0 /\ Zeroed(z + 1)[z + 1] = 0
        BY DEF Zeroed
      <3>6. k = (Len(s) + z) + 1 /\ k = Len(s) + (z + 1)
        BY <2>3, <3>5
      <3> QED
        BY <3>3, <3>4, <3>5, <3>6
    <2>4. k <= Len(s) \/ (k > Len(s) /\ k <= Len(s) + z) \/ k = Len(s) + z + 1
      <3>1. PICK n \in Nat : n = Len(s)
        OBVIOUS
      <3>2. k \in 1 .. n + z + 1
        BY <3>1
      <3>3. k <= n \/ (k > n /\ k <= n + z) \/ k = n + z + 1
        BY <3>2
      <3> QED
        BY <3>1, <3>3
    <2> HIDE DEF l, r
    <2> QED
      BY <2>1, <2>2, <2>3, <2>4
  <1> HIDE DEF l, r
  <1>6. l = r
    BY <1>4, <1>5
  <1> QED
    BY <1>6 DEF l, r

LEMMA Associative ==
  ASSUME NEW S, NEW s \in Seq(S), NEW t \in Seq(S), NEW u \in Seq(S)
  PROVE  (s \o t) \o u = s \o (t \o u)
  OBVIOUS

-----------------------------------------------------------------------------
(* The steps of the hash keep HashInv. *)

LEMMA ExactWhenHashing ==
  ASSUME HashInv, pc \in {"update", "pad"}
  PROVE  Exact
  BY DEF HashInv, Exact

LEMMA StartKeeps ==
  ASSUME HashInv, NEW m \in Seq(Byte), Start(m)
  PROVE  HashInv'
  <1>1. PICK v \in Junk : ctx' = SHA1Init(v)
    BY DEF Start
  <1>2. v \in Byte
    BY <1>1, Sha1Assumption
  <1>3. pc' = "update" /\ message' = m /\ stream' = <<>> /\ blocks' = <<>>
    BY DEF Start
  <1>4. finalcount' = finalcount /\ digest' = digest
    BY DEF Start
  <1>5. ctx'.low = 0 /\ ctx'.high = 0 /\ ctx'.buffer \in [0 .. 63 -> Byte]
    BY <1>1, <1>2 DEF SHA1Init
  <1>6. 0 \in 0 .. WordModulus - 1
    BY Words
  <1>7. TypeOK'
    BY <1>3, <1>4, <1>5, <1>6 DEF HashInv, TypeOK
  <1>8. CountExact'
    <2>1. 0 \div WordModulus = 0 /\ 0 % WordModulus = 0
      <3>1. 0 = WordModulus * 0 + 0
        BY Words
      <3> QED
        BY Words, <1>6, <3>1, DivModIs
    <2>2. 8 * Len(stream') = 0
      BY <1>3
    <2> QED
      BY <1>5, <2>1, <2>2 DEF CountExact
  <1>9. Len(stream') = 0 /\ Len(blocks') = 0
    BY <1>3
  <1>10. BufferExact' /\ BlocksExact'
    BY <1>9 DEF BufferExact, BlocksExact
  <1>11. stream' = SubSeq(message', 1, Len(stream')) /\ Len(stream') <= Len(message')
    BY <1>3, <1>9
  <1> QED
    BY <1>3, <1>7, <1>8, <1>10, <1>11 DEF HashInv

(* What the calls of SHA1Update have in common *)
LEMMA PutKeeps ==
  ASSUME HashInv, pc \in {"update", "pad"}, NEW data \in Seq(Byte), Put(data),
         pc' \in {"update", "pad"}, message' = message, digest' = digest,
         finalcount' \in Seq(Byte)
  PROVE  TypeOK' /\ CountExact' /\ BufferExact' /\ BlocksExact'
  <1>1. Exact
    BY ExactWhenHashing
  <1>2. /\ stream' = stream \o data /\ ctx' = SHA1Update(ctx, data)
        /\ blocks' = blocks \o BlocksOf(ctx, data)
    BY DEF Put
  <1>3. BlocksExact' /\ stream' \in Seq(Byte) /\ blocks' \in Seq(Blocks)
    BY <1>1, <1>2, PutBlocks
  <1>4. /\ CountExact' /\ BufferExact' /\ ctx'.buffer \in Blocks
        /\ ctx'.low \in 0 .. WordModulus - 1 /\ ctx'.high \in 0 .. WordModulus - 1
    BY <1>1, <1>2, PutContext
  <1>5. TypeOK'
    BY <1>3, <1>4 DEF HashInv, TypeOK, Blocks
  <1> QED
    BY <1>3, <1>4, <1>5

LEMMA UpdateKeeps ==
  ASSUME HashInv, NEW n, Update(n)
  PROVE  HashInv'
  <1>1. /\ message \in Seq(Byte) /\ stream \in Seq(Byte) /\ finalcount \in Seq(Byte)
        /\ pc = "update" /\ Len(stream) <= Len(message) /\ stream = SubSeq(message, 1, Len(stream))
    BY DEF HashInv, TypeOK, Update
  <1>2. n \in 1 .. Len(message) - Len(stream) /\ UNCHANGED <<pc, message, finalcount, digest>>
    BY DEF Update
  <1>3. PICK h \in Nat, l \in Nat : h = Len(stream) /\ l = Len(message)
    <2>1. Len(stream) \in Nat /\ Len(message) \in Nat
      <3>1. message \in Seq(Byte) /\ stream \in Seq(Byte)
        BY <1>1
      <3> QED
        BY <3>1
    <2> QED
      BY <2>1
  <1> DEFINE data == SubSeq(message, h + 1, h + n)
  <1>4. data \in Seq(Byte) /\ Len(data) = n
    BY <1>1, <1>2, <1>3
  <1>5. Put(data)
    BY <1>3 DEF Update
  <1>6. \A k \in 1 .. n : data[k] = message[h + k]
    BY <1>1, <1>2, <1>3
  <1>7. stream' = stream \o data
    BY <1>5 DEF Put
  <1> HIDE DEF data
  <1>8. TypeOK' /\ CountExact' /\ BufferExact' /\ BlocksExact'
    BY <1>1, <1>2, <1>4, <1>5, PutKeeps
  <1>9. stream' \in Seq(Byte) /\ Len(stream') = h + n
    BY <1>1, <1>3, <1>4, <1>7
  <1>10. stream' = SubSeq(message, 1, h + n)
    <2> DEFINE r == SubSeq(message, 1, h + n)
    <2>1. r \in Seq(Byte) /\ Len(r) = h + n /\ \A k \in 1 .. h + n : r[k] = message[k]
      BY <1>1, <1>2, <1>3
    <2>2. \A k \in 1 .. h : stream[k] = message[k]
      BY <1>1, <1>3
    <2> HIDE DEF r
    <2>3. ASSUME NEW k \in 1 .. h + n PROVE stream'[k] = r[k]
      <3>1. CASE k \in 1 .. h
        BY <1>1, <1>3, <1>4, <1>7, <2>1, <2>2, <3>1
      <3>2. CASE k > h
        <4>1. PICK i \in 1 .. n : k = h + i
          <5>1. k - h \in 1 .. n /\ k = h + (k - h)
            BY <1>2, <1>3, <3>2
          <5> QED
            BY <5>1
        <4>2. stream'[h + i] = data[i]
          BY <1>1, <1>3, <1>4, <1>7, ConcatAt
        <4> QED
          BY <1>6, <2>1, <4>1, <4>2
      <3> QED
        BY <3>1, <3>2
    <2>4. stream' = r
      BY <1>9, <2>1, <2>3
    <2> QED
      BY <2>4 DEF r
  <1>11. h + n <= l
    BY <1>2, <1>3
  <1> QED
    BY <1>1, <1>2, <1>3, <1>8, <1>9, <1>10, <1>11 DEF HashInv

LEMMA FinalKeeps ==
  ASSUME HashInv, Final
  PROVE  HashInv'
  <1>1. /\ pc = "update" /\ pc' = "pad" /\ Put(<<128>>) /\ UNCHANGED <<message, digest>>
        /\ Len(stream) = Len(message) /\ finalcount' = Bytes(ctx.high) \o Bytes(ctx.low)
    BY DEF Final
  <1>2. /\ message \in Seq(Byte) /\ stream = SubSeq(message, 1, Len(stream))
        /\ ctx.low \in 0 .. WordModulus - 1 /\ ctx.high \in 0 .. WordModulus - 1 /\ CountExact
    BY <1>1 DEF HashInv, TypeOK
  <1>3. stream = message
    BY <1>1, <1>2
  <1>4. /\ ctx.low = (8 * Len(message)) % WordModulus
        /\ ctx.high = ((8 * Len(message)) \div WordModulus) % WordModulus
    BY <1>1, <1>2 DEF CountExact
  <1>5. finalcount' \in Seq(Byte)
    <2>1. ctx.low \in Nat /\ ctx.high \in Nat
      BY <1>2, Words
    <2> QED
      BY <1>1, <2>1, BytesTyped
  <1>6. <<128>> \in Seq(Byte)
    BY DEF Byte
  <1>7. TypeOK' /\ CountExact' /\ BufferExact' /\ BlocksExact'
    BY <1>1, <1>5, <1>6, PutKeeps
  <1>8. stream' = message \o <<128>> \o Zeroed(0)
    <2>1. stream' = message \o <<128>> /\ message \o <<128>> \in Seq(Byte)
      BY <1>1, <1>2, <1>3, <1>6 DEF Put
    <2>2. Zeroed(0) \in Seq(Byte) /\ Len(Zeroed(0)) = 0
      BY ZeroedTyped
    <2>3. \A t \in Seq(Byte) : t \o Zeroed(0) = t
      BY <2>2
    <2> QED
      BY <2>1, <2>3
  <1>9. 0 \in 0 .. Padding(message)
    <2>1. PICK n \in Nat : n = Len(message)
      BY <1>2
    <2>2. (119 - (n % 64)) % 64 \in Nat
      OBVIOUS
    <2> QED
      BY <2>1, <2>2 DEF Padding
  <1> QED
    BY <1>1, <1>4, <1>7, <1>8, <1>9 DEF HashInv

LEMMA PaddedStream ==
  ASSUME HashInv, pc = "pad"
  PROVE  \E n \in Nat, z \in Nat :
           /\ n = Len(message) /\ z <= (119 - (n % 64)) % 64
           /\ stream = message \o <<128>> \o Zeroed(z)
           /\ Held(ctx) = (n + 1 + z) % 64
  <1>1. message \in Seq(Byte)
    BY DEF HashInv, TypeOK
  <1>2. PICK z \in 0 .. Padding(message) : stream = message \o <<128>> \o Zeroed(z)
    BY DEF HashInv
  <1>3. PICK n \in Nat : n = Len(message)
    BY <1>1
  <1>4. (119 - (n % 64)) % 64 \in Nat
    OBVIOUS
  <1>5. z \in Nat /\ z <= (119 - (n % 64)) % 64
    BY <1>3, <1>4 DEF Padding
  <1>6. Len(stream) = n + 1 + z
    <2>1. <<128>> \in Seq(Byte) /\ Len(<<128>>) = 1
      BY DEF Byte
    <2>2. Zeroed(z) \in Seq(Byte) /\ Len(Zeroed(z)) = z
      BY <1>5, ZeroedTyped
    <2> QED
      BY <1>1, <1>2, <1>3, <2>1, <2>2
  <1>7. Exact
    BY ExactWhenHashing
  <1>8. Held(ctx) = Len(stream) % 64
    <2>1. <<>> \in Seq(Byte)
      OBVIOUS
    <2> QED
      BY <1>7, <2>1, PutTyped
  <1> QED
    BY <1>2, <1>3, <1>5, <1>6, <1>8

LEMMA PadKeeps ==
  ASSUME HashInv, Pad
  PROVE  HashInv'
  <1>1. /\ pc = "pad" /\ pc' = "pad" /\ Put(<<0>>) /\ UNCHANGED <<message, finalcount, digest>>
        /\ Held(ctx) # 56
    BY DEF Pad
  <1>2. message \in Seq(Byte) /\ finalcount \in Seq(Byte)
    BY DEF HashInv, TypeOK
  <1>3. <<0>> \in Seq(Byte) /\ <<128>> \in Seq(Byte)
    BY DEF Byte
  <1>4. TypeOK' /\ CountExact' /\ BufferExact' /\ BlocksExact'
    BY <1>1, <1>2, <1>3, PutKeeps
  <1>5. PICK n \in Nat, z \in Nat :
           /\ n = Len(message) /\ z <= (119 - (n % 64)) % 64
           /\ stream = message \o <<128>> \o Zeroed(z)
           /\ Held(ctx) = (n + 1 + z) % 64
    BY <1>1, PaddedStream
  <1>6. PICK p \in Nat : p = (119 - (n % 64)) % 64
    OBVIOUS
  <1>7. z # p
    <2>1. n \in Nat /\ z \in 0 .. (119 - (n % 64)) % 64
      BY <1>5, <1>6
    <2>2. (n + 1 + z) % 64 # 56
      BY <1>1, <1>5
    <2> QED
      BY <1>6, <2>1, <2>2, PaddingEnds
  <1>8. z + 1 \in 0 .. Padding(message)
    BY <1>5, <1>6, <1>7 DEF Padding
  <1>9. stream' = message \o <<128>> \o Zeroed(z + 1)
    <2>1. stream' = (message \o <<128>> \o Zeroed(z)) \o <<0>>
      BY <1>1, <1>5 DEF Put
    <2>2. message \o <<128>> \in Seq(Byte)
      BY <1>2, <1>3
    <2> QED
      BY <2>1, <2>2, OneMoreZero
  <1>10. /\ finalcount' = Bytes(((8 * Len(message')) \div WordModulus) % WordModulus)
                            \o Bytes((8 * Len(message')) % WordModulus)
    BY <1>1 DEF HashInv
  <1> QED
    BY <1>1, <1>4, <1>8, <1>9, <1>10 DEF HashInv

LEMMA DigestKeeps ==
  ASSUME HashInv, Digest
  PROVE  HashInv'
  <1>1. /\ pc = "pad" /\ pc' = "done" /\ Held(ctx) = 56 /\ UNCHANGED <<message, finalcount>>
        /\ stream' = stream \o finalcount /\ blocks' = blocks \o BlocksOf(ctx, finalcount)
        /\ ctx' = Wiped
    BY DEF Digest
  <1>2. message \in Seq(Byte) /\ finalcount \in Seq(Byte)
    BY DEF HashInv, TypeOK
  <1>3. BlocksExact' /\ stream' \in Seq(Byte) /\ blocks' \in Seq(Blocks)
    BY <1>1, <1>2, ExactWhenHashing, PutBlocks
  <1>4. digest' \in [0 .. 19 -> Byte]
    <2>1. PICK h : digest' = [k \in 0 .. 19 |-> DigestByte(h, k)]
      BY DEF Digest
    <2> QED
      BY <2>1, DigestTyped
  <1>5. TypeOK'
    <2>1. /\ ctx'.low \in 0 .. WordModulus - 1 /\ ctx'.high \in 0 .. WordModulus - 1
          /\ ctx'.buffer \in [0 .. 63 -> Byte]
      BY <1>1, Words DEF Wiped, Byte
    <2> QED
      BY <1>1, <1>2, <1>3, <1>4, <2>1 DEF TypeOK, Blocks
  <1>6. PICK n \in Nat, z \in Nat :
           /\ n = Len(message) /\ z <= (119 - (n % 64)) % 64
           /\ stream = message \o <<128>> \o Zeroed(z)
           /\ Held(ctx) = (n + 1 + z) % 64
    BY <1>1, PaddedStream
  <1>7. z = (119 - (n % 64)) % 64
    <2>1. PICK p \in Nat : p = (119 - (n % 64)) % 64
      OBVIOUS
    <2>2. n \in Nat /\ z \in 0 .. (119 - (n % 64)) % 64
      BY <1>6, <2>1
    <2>3. (n + 1 + z) % 64 = 56
      BY <1>1, <1>6
    <2> QED
      BY <2>2, <2>3, PaddingEnds
  <1> DEFINE hi == ((8 * n) \div WordModulus) % WordModulus
             lo == (8 * n) % WordModulus
             s == message \o <<128>> \o Zeroed(z)
  <1>8. hi \in Nat /\ lo \in Nat
    <2>1. PICK x \in Nat : x = 8 * n
      OBVIOUS
    <2>2. PICK d \in Nat, r \in 0 .. WordModulus - 1 :
            d = x \div WordModulus /\ r = x % WordModulus /\ x = WordModulus * d + r
      BY Words, DivMod
    <2>3. PICK e \in Nat, u \in 0 .. WordModulus - 1 :
            e = d \div WordModulus /\ u = d % WordModulus /\ d = WordModulus * e + u
      BY Words, DivMod
    <2> QED
      BY <2>1, <2>2, <2>3
  <1>9. finalcount = Bytes(hi) \o Bytes(lo)
    BY <1>1, <1>6 DEF HashInv
  <1> HIDE DEF hi, lo
  <1>10. Bytes(hi) \in Seq(Byte) /\ Bytes(lo) \in Seq(Byte)
    BY <1>8, BytesTyped
  <1>11. s \in Seq(Byte)
    <2>1. <<128>> \in Seq(Byte)
      BY DEF Byte
    <2>2. Zeroed(z) \in Seq(Byte)
      BY ZeroedTyped
    <2> QED
      BY <1>2, <2>1, <2>2
  <1>12. stream' = s \o (Bytes(hi) \o Bytes(lo))
    BY <1>1, <1>6, <1>9
  <1> HIDE DEF s
  <1>13. stream' = s \o Bytes(hi) \o Bytes(lo)
    BY <1>10, <1>11, <1>12, Associative
  <1>14. stream' = Padded(message)
    BY <1>6, <1>7, <1>13 DEF Padded, Zeroed, s, hi, lo
  <1> QED
    BY <1>1, <1>3, <1>5, <1>14 DEF HashInv

-----------------------------------------------------------------------------
(* The frame *)

LEMMA Concat ==
  ASSUME NEW s \in Seq(Byte), NEW t \in Seq(Byte), NEW m \in Nat, NEW w \in Nat,
         m = Len(s), w = Len(t)
  PROVE  s \o t \in Seq(Byte) /\ Len(s \o t) = m + w
  OBVIOUS

LEMMA IntBytes ==
  ASSUME NEW n \in Nat, n <= IntMax
  PROVE  (n % 256) + 256 * ((n \div 256) % 256) + 65536 * ((n \div 65536) % 256)
           + 16777216 * ((n \div 16777216) % 256) = n
  <1>0. \A x \in Nat : \E d \in Nat, r \in 0 .. 255 :
          d = x \div 256 /\ r = x % 256 /\ x = 256 * d + r
    <2>1. PICK m \in Nat \ {0} : m = 256
      OBVIOUS
    <2>2. \A x \in Nat : \E d \in Nat, r \in 0 .. m - 1 :
            d = x \div m /\ r = x % m /\ x = m * d + r
      BY DivMod
    <2> QED
      BY <2>1, <2>2
  <1>1. PICK a \in Nat, r \in 0 .. 255 : a = n \div 256 /\ r = n % 256 /\ n = 256 * a + r
    BY <1>0
  <1>2. PICK b \in Nat, s \in 0 .. 255 : b = a \div 256 /\ s = a % 256 /\ a = 256 * b + s
    BY <1>0
  <1>3. PICK c \in Nat, t \in 0 .. 255 : c = b \div 256 /\ t = b % 256 /\ b = 256 * c + t
    BY <1>0
  <1>4. n \div 65536 = b
    BY <1>1, <1>2
  <1>5. n \div 16777216 = c
    BY <1>1, <1>2, <1>3, SMT
  <1>6. c <= 127
    BY <1>1, <1>2, <1>3, SMT DEF IntMax
  <1>7. c % 256 = c
    BY <1>6
  <1> QED
    BY <1>1, <1>2, <1>3, <1>4, <1>5, <1>7, SMT

LEMMA Int4Is ==
  ASSUME NEW n \in Nat, n <= IntMax
  PROVE  /\ Int4(n) \in Seq(Byte) /\ Len(Int4(n)) = 4
         /\ IntAt(Int4(n), 0) = n
  <1>1. Bytes(n) \in Seq(Byte) /\ Len(Bytes(n)) = 4
    BY BytesTyped
  <1>2. /\ Int4(n) \in Seq(Byte) /\ Len(Int4(n)) = 4
        /\ \A k \in 1 .. 4 : Int4(n)[k] = Bytes(n)[5 - k]
    <2>1. Int4(n) = [k \in 1 .. 4 |-> Bytes(n)[(4 - k) + 1]]
      BY <1>1 DEF Int4, Reverse
    <2>2. \A k \in 1 .. 4 : (4 - k) + 1 = 5 - k /\ 5 - k \in 1 .. 4
      OBVIOUS
    <2>3. [k \in 1 .. 4 |-> Bytes(n)[(4 - k) + 1]] \in [1 .. 4 -> Byte]
      BY <1>1, <2>2
    <2> QED
      BY <2>1, <2>2, <2>3, SequenceOf
  <1>3. /\ Int4(n)[1] = n % 256 /\ Int4(n)[2] = (n \div 256) % 256
        /\ Int4(n)[3] = (n \div 65536) % 256 /\ Int4(n)[4] = (n \div 16777216) % 256
    BY <1>2, SMT DEF Bytes
  <1>4. PICK i : i = Int4(n) /\ Len(i) = 4
    BY <1>2
  <1>5. IntAt(i, 0) = i[1] + 256 * i[2] + 65536 * i[3] + 16777216 * i[4]
    BY SMT DEF IntAt
  <1>6. IntAt(i, 0) = (n % 256) + 256 * ((n \div 256) % 256) + 65536 * ((n \div 65536) % 256)
                        + 16777216 * ((n \div 16777216) % 256)
    BY <1>3, <1>4, <1>5, SMT
  <1> QED
    BY <1>2, <1>4, <1>6, IntBytes, SMT

LEMMA LengthKept ==
  ASSUME NEW s \in Seq(Byte), NEW t \in Seq(Byte), NEW m \in Nat, NEW w \in Nat,
         m = Len(s), w = Len(t), m >= 20
  PROVE  /\ s \o t \in Seq(Byte) /\ Len(s \o t) = m + w
         /\ IntAt(s \o t, LenAt) = IntAt(s, LenAt)
  <1>1. \A k \in 17 .. 20 : (s \o t)[k] = s[k]
    OBVIOUS
  <1>2. IntAt(s \o t, LenAt) = IntAt(s, LenAt)
    BY <1>1, SMT DEF IntAt, LenAt
  <1> QED
    BY <1>2, Concat

LEMMA HexTyped ==
  ASSUME digest \in [0 .. 19 -> Byte]
  PROVE  hexresult \in Seq(Byte) /\ Len(hexresult) = 41
  <1> DEFINE h == [k \in 1 .. 40 |-> Digit(IF k % 2 = 1 THEN digest[k \div 2] \div 16
                                           ELSE digest[k \div 2 - 1] % 16)]
  <1>1. ASSUME NEW k \in 1 .. 40 PROVE h[k] \in Byte
    <2>1. \A d \in 0 .. 15 : Digit(d) \in Byte
      BY DEF Digit, Byte
    <2>2. CASE k % 2 = 1
      <3>1. k \div 2 \in 0 .. 19
        BY <2>2
      <3>2. PICK b \in 0 .. 255 : b = digest[k \div 2]
        BY <3>1 DEF Byte
      <3>3. b \div 16 \in 0 .. 15
        OBVIOUS
      <3> QED
        BY <2>1, <2>2, <3>2, <3>3
    <2>3. CASE k % 2 # 1
      <3>1. k \div 2 - 1 \in 0 .. 19
        BY <2>3
      <3>2. PICK b \in 0 .. 255 : b = digest[k \div 2 - 1]
        BY <3>1 DEF Byte
      <3>3. b % 16 \in 0 .. 15
        OBVIOUS
      <3> QED
        BY <2>1, <2>3, <3>2, <3>3
    <2> QED
      BY <2>2, <2>3
  <1>2. h \in [1 .. 40 -> Byte]
    BY <1>1
  <1> HIDE DEF h
  <1>3. h \in Seq(Byte) /\ Len(h) = 40
    BY <1>2, SequenceOf
  <1>4. <<0>> \in Seq(Byte) /\ Len(<<0>>) = 1
    BY DEF Byte
  <1>5. hexresult = h \o <<0>>
    BY DEF hexresult, h
  <1>6. PICK m \in Nat, w \in Nat : m = Len(h) /\ w = Len(<<0>>) /\ m + w = 41
    BY <1>3, <1>4
  <1>7. h \o <<0>> \in Seq(Byte) /\ Len(h \o <<0>>) = m + w
    BY <1>3, <1>4, <1>6, Concat
  <1> QED
    BY <1>5, <1>6, <1>7

(* A part of a frame, and the beginning of a frame that has the length n in it *)
Part(t, w) == t \in Seq(Byte) /\ w \in Nat /\ w = Len(t)
HeadPart(s, l, n) == Part(s, l) /\ l >= 20 /\ IntAt(s, LenAt) = n

LEMMA HeadKept ==
  ASSUME NEW s, NEW l, NEW n, NEW t, NEW w, HeadPart(s, l, n), Part(t, w)
  PROVE  HeadPart(s \o t, l + w, n)
  <1>1. s \in Seq(Byte) /\ l \in Nat /\ l = Len(s) /\ l >= 20 /\ IntAt(s, LenAt) = n
    BY DEF HeadPart, Part
  <1>2. t \in Seq(Byte) /\ w \in Nat /\ w = Len(t)
    BY DEF Part
  <1>3. s \o t \in Seq(Byte) /\ Len(s \o t) = l + w /\ IntAt(s \o t, LenAt) = n
    BY <1>1, <1>2, LengthKept
  <1>4. l + w \in Nat /\ l + w >= 20
    BY <1>1, <1>2
  <1> QED
    BY <1>3, <1>4 DEF HeadPart, Part

LEMMA PartAt ==
  ASSUME NEW s \in Seq(Byte), NEW i \in Seq(Byte), NEW l \in Nat, NEW z \in Nat,
         l = Len(s), z = Len(i)
  PROVE  \A k \in 1 .. z : (s \o i)[l + k] = i[k]
  BY ConcatAt

LEMMA HeadMade ==
  ASSUME NEW a, NEW b, NEW i, NEW v, NEW w, NEW z, NEW n,
         Part(a, v), Part(b, w), Part(i, z), v + w = 16, z = 4, IntAt(i, 0) = n
  PROVE  HeadPart(a \o b \o i, 20, n)
  <1>1. PICK s : s = a \o b
    OBVIOUS
  <1>2. PICK l \in Nat : l = v + w
    BY DEF Part
  <1>3. s \in Seq(Byte) /\ l = Len(s)
    <2>1. a \in Seq(Byte) /\ v \in Nat /\ v = Len(a) /\ b \in Seq(Byte) /\ w \in Nat /\ w = Len(b)
      BY DEF Part
    <2> QED
      BY <1>1, <1>2, <2>1, Concat
  <1>4. i \in Seq(Byte) /\ z \in Nat /\ z = Len(i)
    BY DEF Part
  <1>5. s \o i \in Seq(Byte) /\ Len(s \o i) = l + z
    BY <1>3, <1>4, Concat
  <1>6. \A k \in 1 .. z : (s \o i)[l + k] = i[k]
    BY <1>3, <1>4, PartAt
  <1>7. PICK f : f = s \o i
    OBVIOUS
  <1>8. \A k \in 1 .. 4 : f[16 + k] = i[k]
    <2>1. l = 16 /\ z = 4
      BY <1>2
    <2> QED
      BY <1>6, <1>7, <2>1
  <1>9. f[17] = i[1] /\ f[18] = i[2] /\ f[19] = i[3] /\ f[20] = i[4]
    <2>1. f[16 + 1] = i[1] /\ f[16 + 2] = i[2] /\ f[16 + 3] = i[3] /\ f[16 + 4] = i[4]
      BY <1>8
    <2>2. 16 + 1 = 17 /\ 16 + 2 = 18 /\ 16 + 3 = 19 /\ 16 + 4 = 20
      OBVIOUS
    <2> QED
      BY <2>1, <2>2
  <1>10. IntAt(f, LenAt) = IntAt(i, 0)
    <2>1. IntAt(f, 16) = f[17] + 256 * f[18] + 65536 * f[19] + 16777216 * f[20]
      BY SMT DEF IntAt
    <2>2. IntAt(i, 0) = i[1] + 256 * i[2] + 65536 * i[3] + 16777216 * i[4]
      BY SMT DEF IntAt
    <2> QED
      BY <1>9, <2>1, <2>2, SMT DEF LenAt
  <1>11. f \in Seq(Byte) /\ 20 = Len(f)
    <2>1. l + z = 20
      BY <1>2
    <2> QED
      BY <1>5, <1>7, <2>1
  <1> QED
    BY <1>1, <1>7, <1>10, <1>11 DEF HeadPart, Part

FrameOf(n, x, t, d) ==
    HeadText \o Zeroes(LenAt - Len(HeadText)) \o Int4(n)
      \o x \o Zeroes(CliSize - CodeAt - 41) \o Int4(t) \o d \o TailText \o <<0>>

LEMMA FrameIs ==
  ASSUME NEW d, NEW n, n <= IntMax, Part(d, n), NEW x, Part(x, 41), NEW t \in 0 .. 4
  PROVE  /\ FrameOf(n, x, t, d) \in Seq(Byte) /\ Len(FrameOf(n, x, t, d)) >= DataAt + n
         /\ IntAt(FrameOf(n, x, t, d), LenAt) = n
  <1>1. Part(HeadText, 12) /\ Part(TailText, 12) /\ Part(<<0>>, 1)
    BY DEF HeadText, TailText, Byte, Part
  <1>2. LenAt - Len(HeadText) = 4 /\ CliSize - CodeAt - 41 = 3
    BY DEF LenAt, CliSize, CodeAt, HeadText
  <1>3. Part(Zeroes(4), 4) /\ Part(Zeroes(3), 3)
    <2>1. \A k \in Nat : Zeroes(k) \in Seq(Byte) /\ Len(Zeroes(k)) = k
      BY ZeroedTyped DEF Zeroes, Zeroed
    <2> QED
      BY <2>1 DEF Part
  <1>4. n \in Nat
    BY DEF Part
  <1>5. Part(Int4(n), 4) /\ IntAt(Int4(n), 0) = n
    BY <1>4, Int4Is DEF Part
  <1>6. Part(Int4(t), 4)
    <2>1. t \in Nat /\ t <= IntMax
      BY SMT DEF IntMax
    <2> QED
      BY <2>1, Int4Is DEF Part
  <1>7. PICK a : a = HeadText \o Zeroes(4) \o Int4(n) /\ HeadPart(a, 20, n)
    <2>1. 12 + 4 = 16
      OBVIOUS
    <2> QED
      BY <1>1, <1>3, <1>5, <2>1, HeadMade
  <1>8. PICK b : b = a \o x /\ HeadPart(b, 20 + 41, n)
    BY <1>7, HeadKept
  <1>9. PICK c : c = b \o Zeroes(3) /\ HeadPart(c, 20 + 41 + 3, n)
    BY <1>3, <1>8, HeadKept
  <1>10. PICK e : e = c \o Int4(t) /\ HeadPart(e, 20 + 41 + 3 + 4, n)
    BY <1>6, <1>9, HeadKept
  <1>11. PICK g : g = e \o d /\ HeadPart(g, 20 + 41 + 3 + 4 + n, n)
    BY <1>10, HeadKept
  <1>12. PICK h : h = g \o TailText /\ HeadPart(h, 20 + 41 + 3 + 4 + n + 12, n)
    BY <1>1, <1>11, HeadKept
  <1>13. PICK u : u = h \o <<0>> /\ HeadPart(u, 20 + 41 + 3 + 4 + n + 12 + 1, n)
    BY <1>1, <1>12, HeadKept
  <1>14. HeadText \o Zeroes(LenAt - Len(HeadText)) \o Int4(n) \o x
           \o Zeroes(CliSize - CodeAt - 41) \o Int4(t) \o d \o TailText \o <<0>> = u
    BY <1>2, <1>7, <1>8, <1>9, <1>10, <1>11, <1>12, <1>13
  <1>15. u \in Seq(Byte) /\ Len(u) = 20 + 41 + 3 + 4 + n + 12 + 1 /\ IntAt(u, LenAt) = n
    BY <1>13 DEF HeadPart, Part
  <1>16. Len(u) >= DataAt + n
    <2>1. 20 + 41 + 3 + 4 + n + 12 + 1 >= 64 + 4 + n
      BY <1>4
    <2> QED
      BY <1>15, <2>1 DEF DataAt, CliSize
  <1> QED
    BY <1>14, <1>15, <1>16 DEF FrameOf

-----------------------------------------------------------------------------
(* The invariant *)

PtclInv == HashInv /\ SentOk /\ FrameOk

LEMMA InitHolds ==
  PtclInit => PtclInv
  <1> SUFFICES ASSUME PtclInit PROVE PtclInv
    OBVIOUS
  <1>1. pc = "idle" /\ phase = "idle"
    BY DEF PtclInit
  <1>2. message = <<>> /\ stream = <<>> /\ finalcount = <<>> /\ blocks = <<>>
    BY DEF PtclInit
  <1>3. digest \in [0 .. 19 -> Byte]
    BY DEF PtclInit, NoDigest, Byte
  <1>4. /\ ctx.low \in 0 .. WordModulus - 1 /\ ctx.high \in 0 .. WordModulus - 1
        /\ ctx.buffer \in [0 .. 63 -> Byte]
    <2>1. ctx = Wiped
      BY DEF PtclInit
    <2> QED
      BY <2>1, Words DEF Wiped, Byte
  <1>5. TypeOK
    BY <1>1, <1>2, <1>3, <1>4 DEF TypeOK
  <1> QED
    BY <1>1, <1>5 DEF PtclInv, HashInv, SentOk, FrameOk

LEMMA HashingKeeps ==
  ASSUME HashInv, Hashing
  PROVE  HashInv'
  <1>1. CASE \E n \in IF phase = "api" THEN Chunk ELSE {1} : Update(n)
    BY <1>1, UpdateKeeps
  <1>2. CASE Final
    BY <1>2, FinalKeeps
  <1>3. CASE Pad
    BY <1>3, PadKeeps
  <1>4. CASE Digest
    BY <1>4, DigestKeeps
  <1> QED
    BY <1>1, <1>2, <1>3, <1>4 DEF Hashing

(* A step that leaves the hash alone *)
LEMMA HashAlone ==
  ASSUME HashInv, UNCHANGED sha1
  PROVE  HashInv'
  <1>1. UNCHANGED <<pc, message, ctx, finalcount, digest, stream, blocks>>
    BY DEF sha1
  <1>2. TypeOK' /\ (CountExact <=> CountExact') /\ (BufferExact <=> BufferExact')
        /\ (BlocksExact <=> BlocksExact')
    BY <1>1 DEF HashInv, TypeOK, CountExact, BufferExact, BlocksExact
  <1> QED
    BY <1>1, <1>2 DEF HashInv

LEMMA FrameKeeps ==
  ASSUME PtclInv, Frame
  PROVE  PtclInv'
  <1>1. HashInv'
    BY HashAlone DEF PtclInv, Frame
  <1>2. phase = "send" /\ sent' = sent /\ sent.data \in Payload /\ sent.type \in Type
    BY DEF PtclInv, Frame, SentOk
  <1>3. SentOk'
    BY <1>2 DEF SentOk
  <1>4. FrameOk'
    <2>1. CASE sent.type \in {"NT_FILE", "NT_SYNC"}
      <3>1. phase' = "idle"
        BY <2>1 DEF Frame
      <3> QED
        BY <3>1 DEF FrameOk
    <2>2. CASE sent.type \notin {"NT_FILE", "NT_SYNC"}
      <3>1. frame' = HeadText \o Zeroes(LenAt - Len(HeadText)) \o Int4(Len(sent.data))
                        \o hexresult \o Zeroes(CliSize - CodeAt - 41)
                        \o Int4(TypeNumber[sent.type]) \o sent.data \o TailText \o <<0>>
        BY <2>2 DEF Frame
      <3>2. sent.data \in Seq(Byte) /\ Len(sent.data) \in Nat /\ Len(sent.data) <= IntMax
        <4>1. sent.data \in Seq(Byte) /\ Len(sent.data) <= IntMax
          BY <1>2, PtclAssumption
        <4> QED
          BY <4>1
      <3>3. TypeNumber[sent.type] \in 0 .. 4
        BY <1>2 DEF Type, TypeNumber
      <3>4. hexresult \in Seq(Byte) /\ Len(hexresult) = 41
        BY HexTyped DEF PtclInv, HashInv, TypeOK
      <3>5. PICK n \in Nat : n = Len(sent.data) /\ n <= IntMax
        BY <3>2
      <3>6. Part(sent.data, n) /\ Part(hexresult, 41)
        BY <3>2, <3>4, <3>5 DEF Part
      <3>7. PICK d, x, t : d = sent.data /\ x = hexresult /\ t = TypeNumber[sent.type]
        OBVIOUS
      <3>8. frame' = FrameOf(n, x, t, d)
        BY <3>1, <3>5, <3>7 DEF FrameOf
      <3>9. Part(d, n) /\ Part(x, 41) /\ t \in 0 .. 4 /\ n <= IntMax
        BY <3>3, <3>5, <3>6, <3>7
      <3>10. /\ frame' \in Seq(Byte) /\ Len(frame') >= DataAt + n
             /\ IntAt(frame', LenAt) = n
        BY <3>8, <3>9, FrameIs
      <3> QED
        BY <1>2, <3>5, <3>10 DEF FrameOk
    <2> QED
      BY <2>1, <2>2
  <1> QED
    BY <1>1, <1>3, <1>4 DEF PtclInv

(* No byte of the length is among those that may be changed. *)
LEMMA DamageKeeps ==
  ASSUME PtclInv, NEW o, Damage(o)
  PROVE  PtclInv'
  <1>1. HashInv' /\ UNCHANGED <<phase, sent>>
    BY HashAlone DEF PtclInv, Damage
  <1>2. SentOk'
    BY <1>1 DEF PtclInv, SentOk
  <1>3. /\ phase = "wire" /\ frame \in Seq(Byte)
        /\ Len(frame) >= DataAt + Len(sent.data) /\ IntAt(frame, LenAt) = Len(sent.data)
    BY DEF PtclInv, FrameOk, Damage
  <1>4. PICK l \in Nat : l = Len(sent.data)
    <2>1. sent.data \in Seq(Byte)
      BY <1>3, PtclAssumption DEF PtclInv, SentOk
    <2> QED
      BY <2>1
  <1>5. PICK p \in Nat : p = o + 1 /\ p > 20
    <2>1. o \in CodeAt .. CodeAt + 39 \cup CliSize .. DataAt + l - 1
      BY <1>4 DEF Damage
    <2>2. o \in Nat /\ o >= 20
      BY <2>1 DEF CodeAt, CliSize, DataAt
    <2> QED
      BY <2>2
  <1>6. frame' = [frame EXCEPT ![p] = (frame[p] + 1) % 256]
    BY <1>5 DEF Damage
  <1>7. /\ frame' \in Seq(Byte) /\ Len(frame') = Len(frame)
        /\ \A k \in 17 .. 20 : frame'[k] = frame[k]
    <2>1. CASE p \in 1 .. Len(frame)
      <3>1. (frame[p] + 1) % 256 \in Byte
        <4>1. frame[p] \in Byte
          <5>1. frame \in Seq(Byte)
            BY <1>3
          <5> QED
            BY <2>1, <5>1
        <4>2. PICK b \in 0 .. 255 : b = frame[p]
          BY <4>1 DEF Byte
        <4> QED
          BY <4>2 DEF Byte
      <3>2. PICK c \in Byte : c = (frame[p] + 1) % 256
        BY <3>1
      <3> QED
        BY <1>3, <1>5, <1>6, <2>1, <3>2
    <2>2. CASE p \notin 1 .. Len(frame)
      <3>1. frame' = frame
        BY <1>3, <1>6, <2>2
      <3> QED
        BY <1>3, <3>1
    <2> QED
      BY <2>1, <2>2
  <1>8. IntAt(frame', LenAt) = IntAt(frame, LenAt)
    BY <1>7, SMT DEF IntAt, LenAt
  <1>9. FrameOk'
    BY <1>1, <1>3, <1>7, <1>8 DEF FrameOk
  <1> QED
    BY <1>1, <1>2, <1>9 DEF PtclInv

LEMMA HandleKeeps ==
  ASSUME PtclInv, Handle
  PROVE  PtclInv'
  <1>1. /\ phase' = "handle" /\ frame \in Seq(Byte)
        /\ Len(frame) >= DataAt + Len(sent.data) /\ IntAt(frame, LenAt) = Len(sent.data)
    BY DEF PtclInv, FrameOk, Handle
  <1>2. PICK l \in Nat : l = Len(sent.data)
    <2>1. sent.data \in Seq(Byte)
      BY PtclAssumption DEF PtclInv, SentOk, Handle
    <2> QED
      BY <2>1
  <1>3. PICK w \in Nat : w = Len(frame)
    BY <1>1
  <1>4. SubSeq(frame, 68 + 1, 68 + l) \in Seq(Byte)
    BY <1>1, <1>2, <1>3 DEF DataAt, CliSize
  <1>5. Start(SubSeq(frame, 68 + 1, 68 + l))
    BY <1>1, <1>2 DEF Handle, DataAt, CliSize
  <1>6. HashInv'
    BY <1>4, <1>5, StartKeeps DEF PtclInv
  <1> QED
    BY <1>1, <1>6 DEF PtclInv, SentOk, FrameOk

LEMMA StepKeeps ==
  PtclInv /\ [Next]_vars => PtclInv'
  <1> SUFFICES ASSUME PtclInv, [Next]_vars PROVE PtclInv'
    OBVIOUS
  <1>1. ASSUME NEW m \in Message, Hash(m) PROVE PtclInv'
    <2>1. m \in Seq(Byte)
      BY PtclAssumption
    <2>2. HashInv'
      BY <1>1, <2>1, StartKeeps DEF PtclInv, Hash
    <2>3. phase' = "api"
      BY <1>1 DEF Hash
    <2> QED
      BY <2>2, <2>3 DEF PtclInv, SentOk, FrameOk
  <1>2. ASSUME NEW m \in Payload, NEW type \in Type, Send(m, type) PROVE PtclInv'
    <2>1. m \in Seq(Byte)
      BY PtclAssumption
    <2>2. HashInv'
      BY <1>2, <2>1, StartKeeps DEF PtclInv, Send
    <2>3. phase' = "send" /\ sent' = [type |-> type, data |-> m]
      BY <1>2 DEF Send
    <2> QED
      BY <2>2, <2>3 DEF PtclInv, SentOk, FrameOk
  <1>3. CASE Hashing
    <2>1. HashInv'
      BY <1>3, HashingKeeps DEF PtclInv
    <2>2. UNCHANGED <<phase, sent, frame, damage, seen>>
      BY <1>3 DEF Hashing, ptcl
    <2> QED
      BY <2>1, <2>2 DEF PtclInv, SentOk, FrameOk
  <1>4. CASE Frame
    BY <1>4, FrameKeeps
  <1>5. CASE Handle
    BY <1>5, HandleKeeps
  <1>6. CASE Judge
    <2>1. HashInv' /\ phase' = "seen"
      BY <1>6, HashAlone DEF PtclInv, Judge
    <2> QED
      BY <2>1 DEF PtclInv, SentOk, FrameOk
  <1>7. ASSUME NEW o \in Damaged, Damage(o) PROVE PtclInv'
    BY <1>7, DamageKeeps
  <1>8. CASE UNCHANGED vars
    <2>1. HashInv' /\ UNCHANGED <<phase, sent, frame, damage, seen>>
      BY <1>8, HashAlone DEF PtclInv, vars, ptcl
    <2> QED
      BY <2>1 DEF PtclInv, SentOk, FrameOk
  <1> QED
    BY <1>1, <1>2, <1>3, <1>4, <1>5, <1>6, <1>7, <1>8 DEF Next

(* However ntptcl_send, ntptcl_handle and the callers of SHA1Update cut a  *)
(* message, of whatever length, and whatever the buffer held, the blocks   *)
(* given to SHA1Transform are the message in its order, and at the end the *)
(* message padded as the standard says, with a count that has its carry.   *)
THEOREM HashIsExact == Spec => []HashedExact
  <1>1. PtclInv => HashedExact
    BY DEF PtclInv, HashInv, HashedExact
  <1> QED
    BY <1>1, InitHolds, StepKeeps, PTL DEF Spec

=============================================================================
