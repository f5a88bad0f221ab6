-------------------------- MODULE BlockCopyProofs ---------------------------
(***************************************************************************)
(* Proofs about Layout and BlockCopy, for any file, block and symbol sizes *)
(* and any ENCODER_CACHE.  Byte j of the file belongs to block j \div      *)
(* block and to no other; the invariant says that it is right if that      *)
(* block is done, else still a hole.  That an encoder is the one of its    *)
(* block comes from RepairProofs: the sender of BlockCopy is a sender of   *)
(* EncoderCache.                                                           *)
(***************************************************************************)
EXTENDS BlockCopy, RepairProofs

-----------------------------------------------------------------------------
(* Arithmetic.                                                             *)

(* Multiples of a positive number are at least that number apart. *)
LEMMA MulApart ==
  ASSUME NEW m \in Nat \ {0}, NEW p \in Nat, NEW q \in Nat, p < q
  PROVE  p * m + m <= q * m
<1>1. q - p - 1 \in Nat
  OBVIOUS
<1>2. (q - p - 1) * m >= 0
  BY <1>1
<1>3. (q - p - 1) * m = q * m - p * m - m
  OBVIOUS
<1>4. p * m \in Int /\ q * m \in Int
  OBVIOUS
<1> QED
  BY <1>2, <1>3, <1>4

(* div_ceil: enough multiples of b to cover a, and no more. *)
LEMMA Ceiling ==
  ASSUME NEW a \in Nat \ {0}, NEW b \in Nat \ {0}
  PROVE  /\ DivCeil(a, b) \in Nat \ {0}
         /\ (DivCeil(a, b) - 1) * b < a
         /\ a <= DivCeil(a, b) * b
<1> DEFINE n == a + b - 1
           q == n \div b
<1>1. n \in Nat /\ n >= b
  OBVIOUS
<1>2. q \in Nat /\ q * b <= n /\ n < q * b + b
  BY <1>1, Quotient
<1>3. q * b \in Int
  BY <1>2
<1> HIDE DEF q
<1>4. q # 0
  BY <1>1, <1>2
<1>5. (q - 1) * b = q * b - b
  BY <1>2
<1>6. DivCeil(a, b) = q
  BY DEF DivCeil, q
<1> QED
  BY <1>2, <1>3, <1>4, <1>5, <1>6

-----------------------------------------------------------------------------
(* Byte j lies in the range of block i exactly when i is j \div block, and *)
(* that is a block of the file.                                            *)
LEMMA Owner ==
  ASSUME NEW f \in Nat \ {0}, NEW m \in Nat \ {0}, NEW j \in 0 .. f - 1
  PROVE  /\ j \div m \in 0 .. BlockCount(f, m) - 1
         /\ \A i \in Nat : j \in RangeStart(m, i) .. RangeEnd(f, m, i) - 1
                             <=> i = j \div m
<1> DEFINE q == j \div m
           n == BlockCount(f, m)
<1>1. q \in Nat /\ q * m <= j /\ j < q * m + m
  BY Quotient
<1>2. n \in Nat \ {0} /\ f <= n * m
  BY Ceiling DEF BlockCount
<1>3. q * m \in Int /\ n * m \in Int
  BY <1>1, <1>2
<1> HIDE DEF q, n
<1>4. q < n
  <2>1. SUFFICES ASSUME n <= q
                 PROVE  FALSE
    BY <1>1, <1>2
  <2>2. n * m <= q * m
    BY <1>1, <1>2, <1>3, <2>1, MulApart
  <2> QED
    BY <1>1, <1>2, <1>3, <2>2
<1>5. ASSUME NEW i \in Nat
      PROVE  j \in RangeStart(m, i) .. RangeEnd(f, m, i) - 1 <=> i = q
  <2>1. i * m \in Int
    OBVIOUS
  <2>2. j \in RangeStart(m, i) .. RangeEnd(f, m, i) - 1 <=> i * m <= j /\ j < i * m + m
    BY <2>1 DEF RangeStart, RangeEnd
  <2>3. CASE i < q
    BY <1>1, <1>3, <2>1, <2>2, <2>3, MulApart
  <2>4. CASE q < i
    BY <1>1, <1>3, <2>1, <2>2, <2>4, MulApart
  <2>5. CASE i = q
    BY <1>1, <2>2, <2>5
  <2> QED
    BY <1>1, <2>3, <2>4, <2>5
<1> QED
  BY <1>1, <1>2, <1>4, <1>5 DEF q, n

-----------------------------------------------------------------------------
(* What write_all_at of block b touches lies inside the file. *)
LEMMA RangeInFile ==
  ASSUME NEW f \in Nat \ {0}, NEW m \in Nat \ {0},
         NEW i \in 0 .. BlockCount(f, m) - 1
  PROVE  /\ RangeStart(m, i) \in Nat
         /\ BlockLen(f, m, i) \in Nat \ {0}
         /\ RangeStart(m, i) + BlockLen(f, m, i) = RangeEnd(f, m, i)
         /\ RangeEnd(f, m, i) <= f
<1> DEFINE n == BlockCount(f, m)
<1>1. n \in Nat \ {0} /\ (n - 1) * m < f
  BY Ceiling DEF BlockCount
<1>2. i \in Nat /\ i <= n - 1
  BY <1>1
<1>3. i * m \in Nat /\ (n - 1) * m \in Nat
  BY <1>1, <1>2
<1> HIDE DEF n
<1>4. i * m <= (n - 1) * m
  <2>1. CASE i = n - 1
    BY <1>3, <2>1
  <2>2. CASE i < n - 1
    BY <1>1, <1>2, <1>3, <2>2, MulApart
  <2> QED
    BY <1>1, <1>2, <2>1, <2>2
<1>5. i * m < f
  BY <1>1, <1>3, <1>4
<1> QED
  BY <1>3, <1>5 DEF RangeStart, RangeEnd, BlockLen

-----------------------------------------------------------------------------
(* The codec.                                                              *)

(* source_symbols counts what the codec makes of a block if --symbol-size  *)
(* is a multiple of eight: these symbols cover the block, the last one is  *)
(* not wholly padding.  For any other size the codec's symbols are shorter *)
(* and source_symbols never counts too many.                               *)
THEOREM SymbolsCounted ==
  ASSUME NEW f \in Nat \ {0}, NEW m \in Nat \ {0}, NEW s \in Nat, s >= Alignment,
         NEW i \in 0 .. BlockCount(f, m) - 1
  PROVE  LET n == BlockLen(f, m, i)
             k == SourceSymbols(f, m, s, i)
         IN  /\ s % Alignment = 0 => /\ k = CodecSymbols(n, s)
                                    /\ k >= 1 /\ (k - 1) * SymbolLen(s) < n
                                    /\ n <= k * SymbolLen(s)
             /\ k <= CodecSymbols(n, s)
<1> DEFINE n == BlockLen(f, m, i)
           k == DivCeil(n, s)
           t == SymbolLen(s)
           c == DivCeil(n, t)
<1>1. n \in Nat \ {0}
  BY RangeInFile
<1>2. s \in Nat \ {0} /\ t \in Nat \ {0} /\ t <= s /\ (s % Alignment = 0 => t = s)
  <2>1. s \div 8 \in Nat /\ (s \div 8) * 8 <= s /\ s < (s \div 8) * 8 + 8
    BY DEF Alignment
  <2>2. s % 8 = 0 => (s \div 8) * 8 = s
    BY DEF Alignment
  <2> QED
    BY <2>1, <2>2 DEF Alignment, SymbolLen
<1> HIDE DEF n, t
<1>3. k \in Nat \ {0} /\ (k - 1) * s < n /\ n <= k * s
  BY <1>1, <1>2, Ceiling
<1>4. c \in Nat \ {0} /\ (c - 1) * t < n /\ n <= c * t
  BY <1>1, <1>2, Ceiling
<1> HIDE DEF k, c
<1>5. k <= c
  <2> SUFFICES ASSUME c <= k - 1
               PROVE  FALSE
    BY <1>3, <1>4
  <2>1. c * s <= (k - 1) * s
    BY <1>2, <1>3, <1>4, MulOrder
  <2>2. c * t <= c * s
    <3>1. t * c <= s * c
      BY <1>2, <1>4, MulOrder
    <3> QED
      BY <1>2, <1>4, <3>1
  <2>3. c * s \in Nat /\ c * t \in Nat /\ (k - 1) * s \in Nat
    BY <1>2, <1>3, <1>4
  <2> QED
    BY <1>1, <1>3, <1>4, <2>1, <2>2, <2>3
<1>6. SourceSymbols(f, m, s, i) = k /\ CodecSymbols(n, s) = c
  BY DEF SourceSymbols, CodecSymbols, n, k, t, c
<1>7. s % Alignment = 0 => k = c
  BY <1>2 DEF k, c
<1>8. k >= 1
  BY <1>3
<1> QED
  BY <1>2, <1>3, <1>5, <1>6, <1>7, <1>8 DEF n, t

-----------------------------------------------------------------------------
(* BlockCopy.                                                              *)

(* The sender of BlockCopy is one that EncoderCache describes. *)
THEOREM CopySends == CopySpec => CacheSpec
<1>1. CopyInit => CacheInit
  BY DEF CopyInit
<1>2. [CopyNext]_copyVars => [CacheNext]_cacheVars
  BY DEF CopyNext, Send, WriteBlock, copyVars
<1> QED
  BY <1>1, <1>2, PTL DEF CopySpec, CacheSpec

(* Symbols are made of the block they are sent for; a byte of the output   *)
(* file is right if its block is done, else a hole.                        *)
CopyInv ==
  /\ size \in Sizes /\ block \in BlockSizes
  /\ BlockCount(size, block) = NumBlocks
  /\ done \subseteq Blocks
  /\ \A w \in onWire : w[1] = w[2]
  /\ file = [j \in 0 .. size - 1 |-> IF j \div block \in done THEN j ELSE Hole]

(* A write of block b puts exactly the bytes of block b in their place. *)
LEMMA WriteBlockCopies ==
  ASSUME CopyInv, NEW b \in Blocks, WriteBlock(b)
  PROVE  CopyInv'
<1> DEFINE first == RangeStart(block, b)
           len   == BlockLen(size, block, b)
           bytes == first .. first + len - 1
<1>1. size \in Nat \ {0} /\ block \in Nat \ {0}
  BY CopyAssumption DEF CopyInv
<1>2. b \in 0 .. BlockCount(size, block) - 1 /\ b \in Nat
  BY CacheAssumption DEF CopyInv, Blocks
<1>3. /\ first \in Nat /\ len \in Nat
      /\ first + len = RangeEnd(size, block, b) /\ first + len <= size
  BY <1>1, <1>2, RangeInFile
<1>4. /\ UNCHANGED <<size, block, onWire>> /\ done' = done \cup {b}
      /\ b \notin done
  BY DEF WriteBlock
<1>5. file' = [j \in DOMAIN file \cup bytes |-> IF j \in bytes THEN j ELSE file[j]]
  <2>1. PICK e \in Blocks :
           /\ <<b, e>> \in onWire
           /\ file' = [j \in DOMAIN file \cup bytes |->
                         IF j \in bytes THEN RangeStart(block, e) + (j - first) ELSE file[j]]
    BY DEF WriteBlock
  <2>2. e = b
    BY <2>1 DEF CopyInv
  <2>3. \A j \in bytes : RangeStart(block, e) + (j - first) = j
    BY <1>3, <2>2
  <2> QED
    BY <2>1, <2>3
<1>6. DOMAIN file = 0 .. size - 1 /\ DOMAIN file \cup bytes = 0 .. size - 1
  <2>1. DOMAIN file = 0 .. size - 1
    BY DEF CopyInv
  <2> HIDE DEF first, len
  <2>2. bytes \subseteq 0 .. size - 1
    BY <1>1, <1>3
  <2> QED
    BY <2>1, <2>2
<1>7. ASSUME NEW j \in 0 .. size - 1
      PROVE  j \in bytes <=> b = j \div block
  <2>1. bytes = RangeStart(block, b) .. RangeEnd(size, block, b) - 1
    BY <1>3
  <2>2. b = j \div block <=> j \in RangeStart(block, b) .. RangeEnd(size, block, b) - 1
    BY <1>1, <1>2, Owner
  <2> QED
    BY <2>1, <2>2
<1> HIDE DEF bytes
<1>8. ASSUME NEW j \in 0 .. size - 1
      PROVE  file'[j] = IF j \div block \in done' THEN j ELSE Hole
  <2>1. file[j] = IF j \div block \in done THEN j ELSE Hole
    BY DEF CopyInv
  <2>2. file'[j] = IF b = j \div block THEN j ELSE file[j]
    BY <1>5, <1>6, <1>7
  <2> QED
    BY <1>4, <2>1, <2>2
<1>9. file' = [j \in 0 .. size - 1 |-> IF j \div block \in done' THEN j ELSE Hole]
  BY <1>5, <1>6, <1>8
<1> QED
  BY <1>4, <1>9 DEF CopyInv, Blocks

(* The invariant holds in every state of every copy. *)
LEMMA CopyInvariant == CopySpec => []CopyInv
<1>1. CopyInit => CopyInv
  BY DEF CopyInit, CopyInv
<1>2. CopyInv /\ RightEncoder' /\ [CopyNext]_copyVars => CopyInv'
  <2> SUFFICES ASSUME CopyInv, RightEncoder', [CopyNext]_copyVars
               PROVE  CopyInv'
    OBVIOUS
  <2>1. CASE UNCHANGED copyVars
    BY <2>1 DEF CopyInv, copyVars, Blocks
  <2>2. CASE Send
    <3>1. UNCHANGED <<size, block, done, file>>
      BY <2>2 DEF Send
    <3>2. \A w \in onWire' : w[1] = w[2]
      BY <2>2 DEF Send, CopyInv, RightEncoder
    <3> QED
      BY <3>1, <3>2 DEF CopyInv, Blocks
  <2>3. CASE \E b \in Blocks : WriteBlock(b)
    BY <2>3, WriteBlockCopies
  <2> QED
    BY <2>1, <2>2, <2>3 DEF CopyNext
<1> QED
  BY <1>1, <1>2, CopySends, EncoderAlwaysRight, PTL DEF CopySpec

(* What get_encoder slices, caches and evicts and write_all_at puts in     *)
(* place is, block by block, a copy of the file: for every file and block  *)
(* size, every number of blocks and every ENCODER_CACHE.                   *)
THEOREM CopyAlwaysExact == CopySpec => []CopyExact
<1>1. ASSUME CopyInv
      PROVE  CopyExact
  <2>1. /\ DOMAIN file = 0 .. size - 1
        /\ \A j \in 0 .. size - 1 : file[j] = IF j \div block \in done THEN j ELSE Hole
    BY <1>1 DEF CopyInv
  <2>2. \A j \in 0 .. size - 1 : j \div block \in Blocks
    BY <1>1, Owner, CopyAssumption DEF CopyInv, Blocks
  <2> QED
    BY <2>1, <2>2 DEF CopyExact
<1> QED
  BY <1>1, CopyInvariant, PTL

=============================================================================
