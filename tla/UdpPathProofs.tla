--------------------------- MODULE UdpPathProofs ----------------------------
(***************************************************************************)
(* Proofs about UdpSend and UdpPath, for every symbol size, batch limit,   *)
(* sequence of partial sends and way of coalescing.                        *)
(*                                                                         *)
(* UdpSend: the wire carries the bytes of the stream without a gap.  The   *)
(* invariant ties the offset of send_segments to the end of what is on the *)
(* wire, wherever the cuts fall.  With a symbol size that the codec keeps  *)
(* to, the batch is cut at the size of its datagrams (LensAgree), and the  *)
(* cuts fall between them.                                                 *)
(*                                                                         *)
(* UdpPath: the receiver's closure gets the datagrams that arrived, in     *)
(* their order.  recv_batch cuts a message where its datagrams meet        *)
(* (PiecedWhole), and every message not yet handed on holds the next       *)
(* datagrams of the arrival order (Placed).                                *)
(***************************************************************************)
EXTENDS UdpPath, TLAPS

-----------------------------------------------------------------------------
(* Arithmetic.                                                             *)

(* The quotient is the only number of divisors that leaves less than one.  *)
LEMMA Quotient ==
  ASSUME NEW a \in Nat, NEW b \in Nat \ {0}
  PROVE  a \div b \in Nat /\ (a \div b) * b <= a /\ a < (a \div b) * b + b
<1>1. a \div b \in Int /\ a = b * (a \div b) + (a % b) /\ a % b \in 0 .. b - 1
  OBVIOUS
<1>2. a \div b \in Nat
  OBVIOUS
<1>3. b * (a \div b) = (a \div b) * b
  BY <1>1
<1>4. QED
  BY <1>1, <1>2, <1>3

(* Multiplication keeps the order. *)
LEMMA MulOrder ==
  ASSUME NEW w \in Nat, NEW p \in Nat, NEW q \in Nat, p <= q
  PROVE  p * w \in Nat /\ q * w \in Nat /\ p * w <= q * w
<1>1. (q - p) * w >= 0
  OBVIOUS
<1>2. (q - p) * w = q * w - p * w
  OBVIOUS
<1>3. p * w \in Nat /\ q * w \in Nat
  OBVIOUS
<1>4. QED
  BY <1>1, <1>2, <1>3

(* Taking nothing away. *)
LEMMA ZeroLess ==
  ASSUME NEW a \in Nat, NEW b, NEW c \in Nat \ {0}, b = 0
  PROVE  a - b = a /\ b <= a /\ b < c
  OBVIOUS

(* Distinct multiples lie apart. *)
LEMMA MulApart ==
  ASSUME NEW w \in Nat \ {0}, NEW p \in Nat, NEW q \in Nat, p < q
  PROVE  p * w + w <= q * w
<1>1. (p + 1) * w <= q * w
  BY MulOrder
<1>2. (p + 1) * w = p * w + w
  OBVIOUS
<1>3. p * w \in Nat /\ q * w \in Nat
  OBVIOUS
<1>4. QED
  BY <1>1, <1>2, <1>3

(* What ends w before t does not reach it with a last part of at most w. *)
LEMMA ApartLess ==
  ASSUME NEW w \in Nat, NEW s \in Nat, NEW t \in Nat, s + w <= t, NEW l \in 1 .. w
  PROVE  ~(t < s + l)
  OBVIOUS

(* chunks(w) of a buffer of m pieces of w bytes yields m pieces. *)
LEMMA WholeChunks ==
  ASSUME NEW m \in Nat, NEW w \in Nat \ {0}
  PROVE  (m * w + w - 1) \div w = m
<1> DEFINE a == m * w + w - 1
           q == a \div w
<1>1. m * w \in Nat /\ a \in Nat
  OBVIOUS
<1>2. q \in Nat /\ q * w <= a /\ a < q * w + w
  BY <1>1, Quotient
<1> HIDE DEF q
<1>3. q * w \in Nat
  BY <1>2
<1>4. ~(q < m)
  BY <1>1, <1>2, <1>3, MulApart
<1>5. ~(m < q)
  BY <1>1, <1>2, <1>3, MulApart
<1>6. q = m
  BY <1>2, <1>4, <1>5
<1>7. QED
  BY <1>6 DEF q

-----------------------------------------------------------------------------
(* Sizes.                                                                  *)

Typed == sealed \in BOOLEAN /\ symbolSize \in SymbolSizes

(* The codec's symbol is not empty and no longer than asked for. *)
LEMMA SymbolBounds ==
  ASSUME NEW s \in Nat, Alignment <= s
  PROVE  SymbolLen(s) \in Nat \ {0} /\ SymbolLen(s) <= s
<1>1. Alignment \in Nat \ {0}
  BY DEF Alignment
<1>2. /\ s \div Alignment \in Nat /\ (s \div Alignment) * Alignment <= s
      /\ s < (s \div Alignment) * Alignment + Alignment
  BY <1>1, Quotient
<1>3. SymbolLen(s) = (s \div Alignment) * Alignment
  BY DEF SymbolLen
<1> HIDE DEF SymbolLen
<1>4. SymbolLen(s) \in Nat
  BY <1>1, <1>2, <1>3
<1>5. QED
  BY <1>1, <1>2, <1>3, <1>4

(* A datagram is not empty and no longer than the cuts. *)
LEMMA LensOrder ==
  ASSUME Typed
  PROVE  DatagramLen \in Nat \ {0} /\ Seg \in Nat \ {0} /\ DatagramLen <= Seg
<1> DEFINE y == SymbolLen(symbolSize)
<1>1. symbolSize \in Nat /\ y \in Nat \ {0} /\ y <= symbolSize
  BY SymbolBounds, UdpSendAssumption DEF Typed
<1>2. DatagramLen = EncodedLen(4 + y)
  BY DEF DatagramLen
<1> HIDE DEF y
<1>3. QED
  BY <1>1, <1>2 DEF Typed, Seg, EncodedLen, WireLen

(* With a symbol size that the codec keeps to, the batch is cut at exactly *)
(* the size of its datagrams, in both planes.                              *)
LEMMA LensAgree ==
  ASSUME Typed, Aligned
  PROVE  DatagramLen = Seg
<1>1. symbolSize \in Nat
  BY UdpSendAssumption DEF Typed
<1>2. SymbolLen(symbolSize) = symbolSize
  BY <1>1 DEF Aligned, SymbolLen, Alignment
<1>3. QED
  BY <1>1, <1>2 DEF Typed, DatagramLen, Seg, EncodedLen, WireLen

(* A batch holds at least one datagram, and no more than GSO allows. *)
LEMMA MaxSegsBounds ==
  ASSUME Typed
  PROVE  /\ MaxSegs \in Nat \ {0} /\ MaxSegs <= MaxGsoSegments
         /\ Seg <= MaxGsoBytes => MaxSegs * Seg <= MaxGsoBytes
<1> DEFINE q == MaxGsoBytes \div Seg
<1>1. Seg \in Nat \ {0}
  BY LensOrder
<1>2. q \in Nat /\ q * Seg <= MaxGsoBytes /\ MaxGsoBytes < q * Seg + Seg
  BY <1>1, Quotient, UdpSendAssumption
<1>3. MaxSegs = MaxOf(1, MinOf(q, MaxGsoSegments))
  BY DEF MaxSegs
<1> HIDE DEF q
<1>4. MaxSegs \in Nat \ {0} /\ MaxSegs <= MaxGsoSegments
  BY <1>2, <1>3, UdpSendAssumption DEF MaxOf, MinOf
<1>5. ASSUME Seg <= MaxGsoBytes PROVE MaxSegs * Seg <= MaxGsoBytes
  <2>1. q # 0
    <3>1. 0 * Seg = 0
      BY <1>1
    <3>2. QED
      BY <1>1, <1>2, <1>5, <3>1, UdpSendAssumption
  <2>2. MaxSegs <= q
    <3>1. q \in Nat
      BY <1>2
    <3>2. QED
      BY <1>3, <2>1, <3>1, UdpSendAssumption DEF MaxOf, MinOf
  <2>3. MaxSegs * Seg <= q * Seg /\ q * Seg \in Nat /\ MaxSegs * Seg \in Nat
    BY <1>1, <1>2, <1>4, <2>2, MulOrder
  <2>4. QED
    BY <1>2, <2>3, UdpSendAssumption
<1>6. QED
  BY <1>4, <1>5

(* The sizes depend on the configuration only. *)
LEMMA SizesSame ==
  ASSUME UNCHANGED config
  PROVE  Seg' = Seg /\ DatagramLen' = DatagramLen /\ MaxSegs' = MaxSegs
  BY DEF config, Seg, DatagramLen, MaxSegs, WireLen, EncodedLen

(* chunks(w) cuts a buffer of r bytes into pieces none of which is empty. *)
LEMMA ChunkCount ==
  ASSUME NEW r \in Nat \ {0}, NEW w \in Nat \ {0}, NEW c, c = (r + w - 1) \div w
  PROVE  c \in Nat \ {0} /\ (c - 1) * w < r /\ r <= c * w
<1> DEFINE a == r + w - 1
<1>1. a \in Nat
  OBVIOUS
<1>2. c \in Nat /\ c * w <= a /\ a < c * w + w
  BY <1>1, Quotient
<1>3. c * w \in Nat /\ (c - 1) * w = c * w - w
  BY <1>2
<1>4. c # 0
  <2>1. 0 * w = 0
    OBVIOUS
  <2>2. QED
    BY <1>2, <2>1
<1>5. QED
  BY <1>2, <1>3, <1>4

-----------------------------------------------------------------------------
(* The inductive invariant.                                                *)

(* Where the loop stands, from the bytes encoded and those sent. *)
Progress ==
  /\ bytesSent = encoded * Seg
  /\ batchSegs <= encoded
  /\ WireEnd \in Nat
  /\ pc \in {"next", "fill"} =>
       off = 0 /\ batchSegs < MaxSegs /\ WireEnd = BatchStart
  /\ pc = "next" => batchSegs = 0
  /\ pc = "fill" => left > 0
  /\ pc = "send" => off < batch /\ WireEnd = BatchStart + off
  /\ pc \in {"gone", "failed"} =>
       /\ WireEnd <= encoded * DatagramLen
       /\ encoded * DatagramLen <= WireEnd + MaxSegs * DatagramLen

SendInv == TypeOK /\ Unbroken /\ Progress

LEMMA TypedOK == TypeOK => Typed
  BY DEF TypeOK, Typed

(* What the invariant says of the numbers. *)
LEMMA Numbers ==
  ASSUME TypeOK, Progress
  PROVE  /\ DatagramLen \in Nat \ {0} /\ Seg \in Nat \ {0} /\ DatagramLen <= Seg
         /\ MaxSegs \in Nat \ {0}
         /\ encoded \in Nat /\ batchSegs \in Nat /\ left \in Nat /\ off \in Nat
         /\ batchSegs <= MaxSegs /\ batchSegs <= encoded
         /\ batch \in Nat /\ BatchStart \in Nat
         /\ BatchStart + batch = encoded * DatagramLen
         /\ batch <= MaxSegs * DatagramLen
<1> DEFINE D == DatagramLen
<1>1. /\ D \in Nat \ {0} /\ Seg \in Nat \ {0} /\ D <= Seg /\ MaxSegs \in Nat \ {0}
  BY TypedOK, LensOrder, MaxSegsBounds
<1>2. /\ encoded \in Nat /\ batchSegs \in Nat /\ left \in Nat /\ off \in Nat
      /\ batchSegs <= MaxSegs /\ batchSegs <= encoded
  BY <1>1 DEF TypeOK, Progress
<1>3. batch = batchSegs * D /\ BatchStart = D * (encoded - batchSegs)
  BY DEF TypeOK, BatchStart
<1> HIDE DEF D
<1>4. /\ batchSegs * D \in Nat /\ encoded * D \in Nat /\ D * (encoded - batchSegs) \in Nat
      /\ D * (encoded - batchSegs) + batchSegs * D = encoded * D
  BY <1>1, <1>2
<1>5. batchSegs * D <= MaxSegs * D
  BY <1>1, <1>2, MulOrder
<1>6. QED
  BY <1>1, <1>2, <1>3, <1>4, <1>5 DEF D

LEMMA SendInit == Init => SendInv
<1> SUFFICES ASSUME Init PROVE SendInv
  OBVIOUS
<1>1. Typed
  BY DEF Init, Typed
<1>2. DatagramLen \in Nat \ {0} /\ Seg \in Nat \ {0} /\ MaxSegs \in Nat \ {0}
  BY <1>1, LensOrder, MaxSegsBounds
<1>3. 0 * Seg = 0 /\ 0 * DatagramLen = 0 /\ DatagramLen * (0 - 0) = 0
  BY <1>2
<1>4. TypeOK
  BY <1>2, <1>3, UdpSendAssumption DEF Init, TypeOK
<1>5. Unbroken
  BY DEF Init, Unbroken
<1>6. WireEnd = 0 /\ BatchStart = 0
  BY <1>3 DEF Init, WireEnd, BatchStart
<1>7. Progress
  BY <1>2, <1>3, <1>6 DEF Init, Progress
<1>8. QED
  BY <1>4, <1>5, <1>7 DEF SendInv

(* Where the pieces of a cut lie: none is empty, each begins where the one *)
(* before it ends, the first where the wire ended.                         *)
LEMMA PieceBounds ==
  ASSUME TypeOK, Progress, pc = "send", NEW w \in Nat \ {0}, NEW n \in Nat \ {0},
         (n - 1) * w < batch - off
  PROVE  /\ \A k \in 1 .. n : Piece(w, k) \in Nat \X Nat /\ Piece(w, k)[1] < Piece(w, k)[2]
         /\ \A k \in 2 .. n : Piece(w, k)[1] = Piece(w, k - 1)[2]
         /\ Piece(w, 1)[1] = WireEnd
         /\ Piece(w, n)[2] = BatchStart + off + MinOf(n * w, batch - off)
<1> DEFINE S == BatchStart
<1>1. S \in Nat /\ off \in Nat /\ batch \in Nat
  BY Numbers
<1>2. off < batch /\ WireEnd = S + off
  BY DEF Progress
<1>3. ASSUME NEW k \in 1 .. n
      PROVE  /\ Piece(w, k) = <<S + off + (k - 1) * w, S + MinOf(off + k * w, batch)>>
             /\ (k - 1) * w \in Nat /\ k * w \in Nat /\ k * w = (k - 1) * w + w
             /\ (k - 1) * w < batch - off
  <2>1. Piece(w, k) = <<S + off + (k - 1) * w, S + MinOf(off + k * w, batch)>>
    BY DEF Piece
  <2>2. k - 1 \in Nat /\ n - 1 \in Nat /\ k - 1 <= n - 1
    OBVIOUS
  <2>3. (k - 1) * w <= (n - 1) * w /\ (k - 1) * w \in Nat /\ (n - 1) * w \in Nat
    BY <2>2, MulOrder
  <2>4. k * w \in Nat /\ k * w = (k - 1) * w + w
    OBVIOUS
  <2>5. QED
    BY <1>1, <2>1, <2>3, <2>4
<1> HIDE DEF S
<1>4. ASSUME NEW k \in 1 .. n
      PROVE  Piece(w, k) \in Nat \X Nat /\ Piece(w, k)[1] < Piece(w, k)[2]
  <2>1. PICK a \in Nat, b \in Nat : a = (k - 1) * w /\ b = k * w
    BY <1>3
  <2>2. Piece(w, k) = <<S + off + a, S + MinOf(off + b, batch)>> /\ b = a + w /\ a < batch - off
    BY <1>3, <2>1
  <2>3. S + off + a \in Nat /\ S + MinOf(off + b, batch) \in Nat
        /\ S + off + a < S + MinOf(off + b, batch)
    BY <1>1, <2>2 DEF MinOf
  <2>4. QED
    BY <2>2, <2>3
<1>5. ASSUME NEW k \in 2 .. n PROVE Piece(w, k)[1] = Piece(w, k - 1)[2]
  <2>1. k \in 1 .. n /\ k - 1 \in 1 .. n
    OBVIOUS
  <2>2. PICK a \in Nat : a = (k - 1) * w
    BY <1>3, <2>1
  <2>3. a < batch - off /\ Piece(w, k)[1] = S + off + a
        /\ Piece(w, k - 1)[2] = S + MinOf(off + a, batch)
    BY <1>3, <2>1, <2>2
  <2>4. QED
    BY <1>1, <2>3 DEF MinOf
<1>6. Piece(w, 1)[1] = WireEnd
  <2>1. 1 \in 1 .. n /\ (1 - 1) * w = 0
    OBVIOUS
  <2>2. Piece(w, 1)[1] = S + off + 0
    BY <1>3, <2>1
  <2>3. QED
    BY <1>1, <1>2, <2>2
<1>7. Piece(w, n)[2] = S + off + MinOf(n * w, batch - off)
  <2>1. n \in 1 .. n
    OBVIOUS
  <2>2. PICK b \in Nat : b = n * w
    BY <1>3, <2>1
  <2>3. Piece(w, n)[2] = S + MinOf(off + b, batch)
    BY <1>3, <2>1, <2>2
  <2>4. S + MinOf(off + b, batch) = S + off + MinOf(b, batch - off)
    BY <1>1 DEF MinOf
  <2>5. QED
    BY <2>2, <2>3, <2>4
<1>8. QED
  BY <1>4, <1>5, <1>6, <1>7 DEF S

(* Joining two sequences adds their lengths. *)
LEMMA Joined ==
  ASSUME NEW T, NEW s \in Seq(T), NEW t \in Seq(T)
  PROVE  s \o t \in Seq(T) /\ Len(s \o t) = Len(s) + Len(t)
  OBVIOUS

(* The wire grows by pieces that go on from its end. *)
LEMMA Extends ==
  ASSUME TypeOK, Unbroken, NEW n \in Nat \ {0}, NEW P, P \in Seq(Nat \X Nat), Len(P) = n,
         \A k \in 1 .. n : P[k][1] < P[k][2],
         \A k \in 2 .. n : P[k][1] = P[k - 1][2],
         P[1][1] = WireEnd,
         wire' = wire \o P
  PROVE  wire' \in Seq(Nat \X Nat) /\ Unbroken' /\ WireEnd' = P[n][2] /\ WireEnd' \in Nat
<1> DEFINE T == Nat \X Nat
           L == Len(wire)
<1>1. wire \in Seq(T) /\ L \in Nat
  BY DEF TypeOK
<1>1a. P[n] \in T /\ P \in Seq(T)
  OBVIOUS
<1> HIDE DEF T
<1>2. wire' \in Seq(T) /\ Len(wire') = L + n
  <2>1. wire \o P \in Seq(T) /\ Len(wire \o P) = Len(wire) + Len(P)
    BY <1>1, <1>1a, Joined
  <2>2. QED
    BY <2>1
<1>3. ASSUME NEW k \in 1 .. L PROVE wire'[k] = wire[k]
  BY <1>1 DEF T
<1>4. ASSUME NEW j \in 1 .. n PROVE wire'[L + j] = P[j]
  BY <1>1 DEF T
<1>5. Unbroken'
  <2> SUFFICES ASSUME NEW k \in 1 .. Len(wire')
               PROVE  /\ wire'[k][1] = IF k = 1 THEN 0 ELSE wire'[k - 1][2]
                      /\ wire'[k][1] < wire'[k][2]
    BY DEF Unbroken
  <2>1. CASE k <= L
    <3>1. k \in 1 .. L /\ (k # 1 => k - 1 \in 1 .. L)
      BY <1>1, <1>2, <2>1
    <3>2. wire'[k] = wire[k] /\ (k # 1 => wire'[k - 1] = wire[k - 1])
      BY <1>3, <3>1
    <3>3. /\ wire[k][1] = IF k = 1 THEN 0 ELSE wire[k - 1][2]
          /\ wire[k][1] < wire[k][2]
      BY <3>1 DEF Unbroken
    <3>4. QED
      BY <3>2, <3>3
  <2>2. CASE k = L + 1
    <3>1. 1 \in 1 .. n
      OBVIOUS
    <3>2. wire'[k] = P[1] /\ P[1][1] < P[1][2] /\ P[1][1] = WireEnd
      BY <1>4, <2>2, <3>1
    <3>3. CASE k = 1
      <4>1. wire = <<>>
        BY <1>1, <2>2, <3>3
      <4>2. QED
        BY <3>2, <3>3, <4>1 DEF WireEnd
    <3>4. CASE k # 1
      <4>1. L \in 1 .. L /\ k - 1 = L /\ wire # <<>>
        BY <1>1, <2>2, <3>4
      <4>2. WireEnd = wire[L][2] /\ wire'[k - 1] = wire[L]
        BY <1>3, <4>1 DEF WireEnd
      <4>3. QED
        BY <3>2, <3>4, <4>2
    <3>5. QED
      BY <3>3, <3>4
  <2>3. CASE k > L + 1
    <3> DEFINE j == k - L
    <3>1. j \in 2 .. n /\ k = L + j /\ k - 1 = L + (j - 1) /\ k # 1
      BY <1>1, <1>2, <2>3
    <3>2. j \in 1 .. n /\ j - 1 \in 1 .. n
      BY <3>1
    <3>3. wire'[k] = P[j] /\ wire'[k - 1] = P[j - 1]
      BY <1>4, <3>1, <3>2
    <3>4. P[j][1] < P[j][2] /\ P[j][1] = P[j - 1][2]
      BY <3>1, <3>2
    <3>5. QED
      BY <3>1, <3>3, <3>4
  <2>4. k <= L \/ k = L + 1 \/ k > L + 1
    BY <1>1, <1>2
  <2>5. QED
    BY <2>1, <2>2, <2>3, <2>4
<1>6. WireEnd' = P[n][2]
  <2>1. n \in 1 .. n /\ Len(wire') = L + n /\ wire' # <<>>
    BY <1>1, <1>2
  <2>2. wire'[Len(wire')] = P[n]
    BY <1>4, <2>1
  <2>3. QED
    BY <2>1, <2>2 DEF WireEnd
<1>7. WireEnd' \in Nat
  BY <1>1a, <1>6 DEF T
<1>8. QED
  BY <1>2, <1>5, <1>6, <1>7 DEF T

(* The kernel takes n pieces of w bytes, none of them empty. *)
LEMMA SentStep ==
  ASSUME SendInv, pc = "send", NEW w \in Nat \ {0}, NEW n \in Nat \ {0},
         (n - 1) * w < batch - off, NEW bytes, bytes = MinOf(n * w, batch - off),
         Sent(w, n, bytes)
  PROVE  SendInv'
<1> DEFINE D == DatagramLen
           S == BatchStart
           P == Pieces(w, n)
<1>1. TypeOK /\ Unbroken /\ Progress
  BY DEF SendInv
<1>2. Seg' = Seg /\ D' = D /\ MaxSegs' = MaxSegs
  BY SizesSame DEF Sent
<1>3. /\ D \in Nat \ {0} /\ MaxSegs \in Nat \ {0} /\ encoded \in Nat /\ batchSegs \in Nat
      /\ left \in Nat /\ off \in Nat /\ batch \in Nat /\ S \in Nat
      /\ S + batch = encoded * D
  BY <1>1, Numbers
<1>4. /\ wire' = wire \o P
      /\ UNCHANGED <<sealed, gso, symbolSize, blocks, left, encoded, bytesSent>>
      /\ off + bytes < batch => off' = off + bytes /\ UNCHANGED <<batch, batchSegs, pc>>
      /\ ~(off + bytes < batch) =>
           /\ off' = 0 /\ batch' = 0 /\ batchSegs' = 0
           /\ pc' = IF left = 0 THEN "next" ELSE "fill"
  BY DEF Sent, Flushed, config
<1>5. bytes \in Nat /\ off + bytes <= batch
  <2>1. n * w \in Nat
    OBVIOUS
  <2>2. off < batch
    BY <1>1 DEF Progress
  <2>3. QED
    BY <1>3, <2>1, <2>2 DEF MinOf
<1>6. /\ wire' \in Seq(Nat \X Nat) /\ Unbroken' /\ WireEnd' \in Nat
      /\ WireEnd' = S + off + bytes
  <2>1. /\ \A k \in 1 .. n : Piece(w, k) \in Nat \X Nat /\ Piece(w, k)[1] < Piece(w, k)[2]
        /\ \A k \in 2 .. n : Piece(w, k)[1] = Piece(w, k - 1)[2]
        /\ Piece(w, 1)[1] = WireEnd
        /\ Piece(w, n)[2] = S + off + bytes
    BY <1>1, PieceBounds
  <2>2. \A k \in 1 .. n : P[k] = Piece(w, k)
    BY DEF Pieces
  <2>3. P \in Seq(Nat \X Nat) /\ Len(P) = n
    BY <2>1 DEF Pieces
  <2>4. \A k \in 2 .. n : k \in 1 .. n /\ k - 1 \in 1 .. n
    OBVIOUS
  <2>5. 1 \in 1 .. n /\ n \in 1 .. n
    OBVIOUS
  <2> HIDE DEF P
  <2>6. /\ \A k \in 1 .. n : P[k][1] < P[k][2]
        /\ \A k \in 2 .. n : P[k][1] = P[k - 1][2]
        /\ P[1][1] = WireEnd /\ P[n][2] = S + off + bytes
    BY <2>1, <2>2, <2>4, <2>5
  <2>7. QED
    BY <1>1, <1>4, <2>3, <2>6, Extends
<1>7. bytesSent' = encoded' * Seg'
  BY <1>1, <1>2, <1>4 DEF Progress
<1> HIDE DEF P
<1>8. CASE off + bytes < batch
  <2>1. off' = off + bytes /\ UNCHANGED <<batch, batchSegs, pc, encoded>> /\ off' < batch'
    BY <1>4, <1>8
  <2>2. TypeOK'
    <3>1. off' \in Nat /\ batch' = batchSegs' * DatagramLen'
      BY <1>1, <1>2, <1>3, <1>5, <2>1 DEF TypeOK
    <3>2. QED
      BY <1>1, <1>2, <1>4, <1>6, <2>1, <3>1 DEF TypeOK
  <2>3. BatchStart' = S
    BY <1>2, <2>1 DEF BatchStart
  <2>4. WireEnd' = BatchStart' + off'
    BY <1>3, <1>5, <1>6, <2>1, <2>3
  <2>5. Progress'
    BY <1>1, <1>6, <1>7, <2>1, <2>4 DEF Progress
  <2>6. QED
    BY <1>6, <2>2, <2>5 DEF SendInv
<1>9. CASE ~(off + bytes < batch)
  <2>1. /\ off' = 0 /\ batch' = 0 /\ batchSegs' = 0 /\ encoded' = encoded /\ left' = left
        /\ pc' = IF left = 0 THEN "next" ELSE "fill"
    BY <1>4, <1>9
  <2>2. 0 * D = 0 /\ D * (encoded - 0) = encoded * D
    BY <1>3
  <2>3. TypeOK'
    <3>1. batch' = batchSegs' * DatagramLen'
      BY <1>2, <2>1, <2>2
    <3>2. QED
      BY <1>1, <1>2, <1>3, <1>4, <1>6, <2>1, <3>1 DEF TypeOK
  <2>4. BatchStart' = encoded * D
    BY <1>2, <2>1, <2>2 DEF BatchStart
  <2>5. WireEnd' = BatchStart'
    <3>1. off + bytes = batch
      BY <1>3, <1>5, <1>9
    <3>2. S + off + bytes = S + batch
      BY <1>3, <1>5, <3>1
    <3>3. QED
      BY <1>3, <1>6, <2>4, <3>2
  <2>6. batchSegs' <= encoded' /\ batchSegs' < MaxSegs'
    BY <1>2, <1>3, <2>1
  <2>7. Progress'
    <3>1. CASE left = 0
      BY <1>6, <1>7, <2>1, <2>5, <2>6, <3>1 DEF Progress
    <3>2. CASE left > 0
      BY <1>3, <1>6, <1>7, <2>1, <2>5, <2>6, <3>2 DEF Progress
    <3>3. QED
      BY <1>3, <3>1, <3>2
  <2>8. QED
    BY <1>6, <2>3, <2>7 DEF SendInv
<1>10. QED
  BY <1>8, <1>9

(* A step that leaves the wire alone keeps what it carries. *)
LEMMA WireSame ==
  ASSUME Unbroken, wire' = wire
  PROVE  Unbroken' /\ WireEnd' = WireEnd
  BY DEF Unbroken, WireEnd

(* sendmmsg takes the first pieces of those that the batch is cut into, and *)
(* sendmsg takes all of them.                                              *)
LEMMA GsoSends ==
  ASSUME TypeOK, Progress, SendGso
  PROVE  \E w \in Nat \ {0} : \E n \in Nat \ {0} :
           /\ (n - 1) * w < batch - off
           /\ Sent(w, n, MinOf(n * w, batch - off))
           /\ w = (IF SegU16 = 0 THEN batch - off ELSE SegU16) /\ n = Chunks(w)
<1> DEFINE w == IF SegU16 = 0 THEN batch - off ELSE SegU16
           n == Chunks(w)
           r == batch - off
<1>1. Seg \in Nat /\ r \in Nat \ {0}
  BY Numbers DEF Progress, SendGso
<1>2. w \in Nat \ {0}
  BY <1>1 DEF SegU16
<1>3. Sent(w, n, r)
  BY DEF SendGso
<1>4. n = (r + w - 1) \div w
  BY DEF Chunks
<1> HIDE DEF w, n, r
<1>5. n \in Nat \ {0} /\ (n - 1) * w < r /\ r <= n * w
  BY <1>1, <1>2, <1>4, ChunkCount
<1>6. MinOf(n * w, r) = r
  BY <1>1, <1>2, <1>5 DEF MinOf
<1>7. QED
  BY <1>2, <1>3, <1>5, <1>6 DEF w, n, r

LEMMA MmsgSends ==
  ASSUME TypeOK, Progress, NEW n \in 1 .. MaxGsoSegments, SendMmsg(n)
  PROVE  /\ Seg \in Nat \ {0} /\ n \in Nat \ {0} /\ (n - 1) * Seg < batch - off
         /\ Chunks(Seg) \in Nat /\ n <= Chunks(Seg)
         /\ Sent(Seg, n, MinOf(n * Seg, batch - off))
<1> DEFINE w == Seg
           c == Chunks(w)
           r == batch - off
<1>1. w \in Nat \ {0} /\ r \in Nat \ {0}
  BY Numbers DEF Progress, SendMmsg
<1>2. n \in Nat \ {0} /\ n <= MinOf(c, MaxGsoSegments) /\ Sent(w, n, MinOf(n * w, r))
  BY UdpSendAssumption DEF SendMmsg
<1>3. c = (r + w - 1) \div w
  BY DEF Chunks
<1> HIDE DEF w, c, r
<1>4. c \in Nat \ {0} /\ (c - 1) * w < r
  BY <1>1, <1>3, ChunkCount
<1>5. n <= c
  BY <1>2, <1>4, UdpSendAssumption DEF MinOf
<1>6. n - 1 \in Nat /\ c - 1 \in Nat /\ n - 1 <= c - 1
  BY <1>2, <1>4, <1>5
<1>7. (n - 1) * w <= (c - 1) * w /\ (n - 1) * w \in Nat /\ (c - 1) * w \in Nat
  BY <1>1, <1>6, MulOrder
<1>8. (n - 1) * w < r
  BY <1>1, <1>4, <1>7
<1>9. QED
  BY <1>1, <1>2, <1>4, <1>5, <1>8 DEF w, c, r

LEMMA SendStep == SendInv /\ [Next]_vars => SendInv'
<1> SUFFICES ASSUME SendInv, [Next]_vars PROVE SendInv'
  OBVIOUS
<1> DEFINE D == DatagramLen
<1>a. TypeOK /\ Unbroken /\ Progress
  BY DEF SendInv
<1>b. /\ D \in Nat \ {0} /\ Seg \in Nat \ {0} /\ MaxSegs \in Nat \ {0}
      /\ encoded \in Nat /\ batchSegs \in Nat /\ left \in Nat /\ off \in Nat
      /\ batchSegs <= MaxSegs /\ batchSegs <= encoded /\ batch \in Nat /\ BatchStart \in Nat
      /\ BatchStart + batch = encoded * D /\ batch <= MaxSegs * D
  BY <1>a, Numbers
<1>c. WireEnd \in Nat /\ bytesSent = encoded * Seg /\ batch = batchSegs * D
  BY <1>a DEF Progress, TypeOK
<1>d. ASSUME UNCHANGED config PROVE Seg' = Seg /\ D' = D /\ MaxSegs' = MaxSegs
  BY <1>d, SizesSame
<1>1. ASSUME NEW n \in PacketCounts, NextBlock(n) PROVE SendInv'
  <2>1. Seg' = Seg /\ D' = D /\ MaxSegs' = MaxSegs
    BY <1>1, <1>d DEF NextBlock
  <2>2. n \in Nat \ {0}
    BY UdpSendAssumption
  <2>3. TypeOK'
    BY <1>1, <1>a, <2>1, <2>2, UdpSendAssumption DEF TypeOK, NextBlock, config
  <2>4. Unbroken' /\ WireEnd' = WireEnd
    BY <1>1, <1>a, WireSame DEF NextBlock
  <2>5. BatchStart' = BatchStart
    BY <1>1, <2>1 DEF NextBlock, BatchStart
  <2>6. Progress'
    BY <1>1, <1>a, <2>1, <2>2, <2>4, <2>5 DEF Progress, NextBlock
  <2>7. QED
    BY <2>3, <2>4, <2>6 DEF SendInv
<1>2. ASSUME Encode PROVE SendInv'
  <2>1. Seg' = Seg /\ D' = D /\ MaxSegs' = MaxSegs
    BY <1>2, <1>d DEF Encode
  <2>2. /\ left' = left - 1 /\ encoded' = encoded + 1 /\ batchSegs' = batchSegs + 1
        /\ batch' = batch + D /\ bytesSent' = bytesSent + Seg
        /\ pc' = AfterPacket(batchSegs + 1, left - 1) /\ left > 0
        /\ batchSegs < MaxSegs /\ off = 0 /\ WireEnd = BatchStart
        /\ UNCHANGED <<sealed, gso, symbolSize, blocks, off, wire>>
    BY <1>2, <1>a DEF Encode, config, Progress
  <2>3. /\ batch' = batchSegs' * D /\ bytesSent' = encoded' * Seg
        /\ bytesSent' \in Nat /\ batch' \in Nat /\ 0 < batch'
    <3>1. /\ (batchSegs + 1) * D = batchSegs * D + D
          /\ (encoded + 1) * Seg = encoded * Seg + Seg
          /\ batchSegs * D \in Nat /\ encoded * Seg \in Nat
      BY <1>b
    <3>2. QED
      BY <1>b, <1>c, <2>2, <3>1
  <2>4. /\ pc' \in {"send", "fill"}
        /\ pc' = "fill" => left' > 0 /\ batchSegs' < MaxSegs
    BY <1>b, <2>2 DEF AfterPacket
  <2>5. TypeOK'
    BY <1>a, <1>b, <2>1, <2>2, <2>3, <2>4 DEF TypeOK
  <2>6. Unbroken' /\ WireEnd' = WireEnd
    BY <1>a, <2>2, WireSame
  <2>7. BatchStart' = BatchStart
    <3>1. encoded' - batchSegs' = encoded - batchSegs
      BY <1>b, <2>2
    <3>2. QED
      BY <2>1, <3>1 DEF BatchStart
  <2>8. BatchStart' + off' = BatchStart' /\ off' < batch' /\ batchSegs' <= encoded'
    BY <1>b, <2>2, <2>3, <2>7
  <2>9. Progress'
    BY <1>c, <2>1, <2>2, <2>3, <2>4, <2>6, <2>7, <2>8 DEF Progress
  <2>10. QED
    BY <2>5, <2>6, <2>9 DEF SendInv
<1>3. ASSUME TestDrop PROVE SendInv'
  <2>1. Seg' = Seg /\ D' = D /\ MaxSegs' = MaxSegs
    BY <1>3, <1>d DEF TestDrop
  <2>2. /\ left' = left - 1 /\ pc' = AfterPacket(batchSegs, left - 1) /\ left > 0
        /\ batchSegs < MaxSegs /\ off = 0 /\ WireEnd = BatchStart
        /\ UNCHANGED <<sealed, gso, symbolSize, blocks, encoded, batchSegs, batch, off,
                       bytesSent, wire>>
    BY <1>3, <1>a DEF TestDrop, config, Progress
  <2>3. /\ pc' \in {"next", "send", "fill"}
        /\ pc' = "next" => batchSegs = 0
        /\ pc' = "fill" => left' > 0
        /\ pc' = "send" => batchSegs > 0
    BY <1>b, <2>2 DEF AfterPacket
  <2>4. TypeOK'
    BY <1>a, <1>b, <2>1, <2>2, <2>3 DEF TypeOK
  <2>5. Unbroken' /\ WireEnd' = WireEnd
    BY <1>a, <2>2, WireSame
  <2>6. BatchStart' = BatchStart
    BY <2>1, <2>2 DEF BatchStart
  <2>7. batchSegs > 0 => off' < batch'
    <3>1. ASSUME batchSegs > 0 PROVE 1 * D <= batchSegs * D /\ 1 * D = D
      BY <1>b, <3>1, MulOrder
    <3>2. QED
      BY <1>b, <1>c, <2>2, <3>1
  <2>8. BatchStart' + off' = BatchStart'
    BY <1>b, <2>2, <2>6
  <2>9. Progress'
    BY <1>b, <1>c, <2>1, <2>2, <2>3, <2>5, <2>6, <2>7, <2>8 DEF Progress
  <2>10. QED
    BY <2>4, <2>5, <2>9 DEF SendInv
<1>e. /\ pc = "fill" => WireEnd = BatchStart
      /\ pc = "send" => off < batch /\ WireEnd = BatchStart + off
  BY <1>a DEF Progress
<1>f. ASSUME pc \in {"fill", "send"}
      PROVE  WireEnd <= encoded * D /\ encoded * D <= WireEnd + MaxSegs * D
  <2>1. MaxSegs * D \in Nat
    BY <1>b
  <2>2. CASE pc = "fill"
    BY <1>b, <1>e, <2>1, <2>2
  <2>3. CASE pc = "send"
    BY <1>b, <1>e, <2>1, <2>3
  <2>4. QED
    BY <1>f, <2>2, <2>3
<1>4. ASSUME EncodeFails PROVE SendInv'
  <2>1. Seg' = Seg /\ D' = D /\ MaxSegs' = MaxSegs
    BY <1>4, <1>d DEF EncodeFails
  <2>2. TypeOK'
    BY <1>4, <1>a, <2>1 DEF TypeOK, EncodeFails, config
  <2>3. Unbroken' /\ WireEnd' = WireEnd
    BY <1>4, <1>a, WireSame DEF EncodeFails
  <2>4. WireEnd <= encoded * D /\ encoded * D <= WireEnd + MaxSegs * D
    BY <1>4, <1>f DEF EncodeFails
  <2>5. UNCHANGED <<encoded, batchSegs, bytesSent>> /\ pc' = "failed"
    BY <1>4 DEF EncodeFails
  <2>6. Progress'
    BY <1>b, <1>c, <2>1, <2>3, <2>4, <2>5 DEF Progress
  <2>7. QED
    BY <2>2, <2>3, <2>6 DEF SendInv
<1>5. ASSUME SendGso PROVE SendInv'
  <2>1. pc = "send"
    BY <1>5 DEF SendGso
  <2>2. PICK w \in Nat \ {0}, n \in Nat \ {0} :
          (n - 1) * w < batch - off /\ Sent(w, n, MinOf(n * w, batch - off))
    BY <1>5, <1>a, GsoSends
  <2>3. QED
    BY <2>1, <2>2, SentStep
<1>6. ASSUME NEW n \in 1 .. MaxGsoSegments, SendMmsg(n) PROVE SendInv'
  <2>1. pc = "send"
    BY <1>6 DEF SendMmsg
  <2>2. QED
    BY <1>6, <1>a, <2>1, MmsgSends, SentStep
<1>7. ASSUME SendError PROVE SendInv'
  <2>1. Seg' = Seg /\ D' = D /\ MaxSegs' = MaxSegs
    BY <1>7, <1>d DEF SendError
  <2>2. 0 * D = 0
    BY <1>b
  <2>3. TypeOK'
    BY <1>7, <1>a, <1>b, <2>1, <2>2 DEF TypeOK, SendError, config
  <2>4. Unbroken' /\ WireEnd' = WireEnd
    BY <1>7, <1>a, WireSame DEF SendError
  <2>5. WireEnd <= encoded * D /\ encoded * D <= WireEnd + MaxSegs * D
    BY <1>7, <1>f DEF SendError
  <2>6. UNCHANGED <<encoded, bytesSent>> /\ batchSegs' = 0 /\ pc' \in {"gone", "failed"}
    BY <1>7 DEF SendError
  <2>7. Progress'
    BY <1>b, <1>c, <2>1, <2>4, <2>5, <2>6 DEF Progress
  <2>8. QED
    BY <2>3, <2>4, <2>7 DEF SendInv
<1>8. ASSUME UNCHANGED vars PROVE SendInv'
  <2>1. Seg' = Seg /\ D' = D /\ MaxSegs' = MaxSegs
    BY <1>8, <1>d DEF vars, config
  <2>2. Unbroken' /\ WireEnd' = WireEnd
    BY <1>8, <1>a, WireSame DEF vars
  <2>3. BatchStart' = BatchStart
    BY <1>8, <2>1 DEF vars, BatchStart
  <2>4. TypeOK'
    BY <1>8, <1>a, <2>1 DEF vars, TypeOK
  <2>5. Progress'
    BY <1>8, <1>a, <2>1, <2>2, <2>3 DEF vars, Progress
  <2>6. QED
    BY <2>2, <2>4, <2>5 DEF SendInv
<1>9. QED
  BY <1>1, <1>2, <1>3, <1>4, <1>5, <1>6, <1>7, <1>8 DEF Next

LEMMA SendInvariant == Spec => []SendInv
<1>1. QED
  BY SendInit, SendStep, PTL DEF Spec

-----------------------------------------------------------------------------
(* A symbol size that the codec keeps to.                                  *)

(* The wire of whole datagrams ends with its last datagram, and what is    *)
(* left of the batch is a whole number of datagrams.                       *)
LEMMA RestOfBatch ==
  ASSUME SendInv, Aligned, WholeInOrder, pc = "send"
  PROVE  /\ encoded - Len(wire) \in Nat \ {0} /\ Len(wire) \in Nat
         /\ BatchStart + off = Len(wire) * Seg
         /\ batch - off = (encoded - Len(wire)) * Seg
         /\ Chunks(Seg) = encoded - Len(wire)
<1> DEFINE D == Seg
           L == Len(wire)
           m == encoded - L
<1>1. TypeOK /\ Progress
  BY DEF SendInv
<1>2. D \in Nat \ {0} /\ DatagramLen = D
  BY <1>1, Numbers, TypedOK, LensAgree
<1>3. /\ encoded \in Nat /\ L \in Nat /\ batch \in Nat /\ off \in Nat /\ BatchStart \in Nat
      /\ BatchStart + batch = encoded * D /\ off < batch /\ WireEnd = BatchStart + off
  BY <1>1, <1>2, Numbers DEF Progress, TypeOK
<1> HIDE DEF D
<1>4. WireEnd = L * D
  <2>1. CASE wire = <<>>
    <3>1. L = 0 /\ 0 * D = 0
      BY <1>2, <2>1
    <3>2. QED
      BY <2>1, <3>1 DEF WireEnd
  <2>2. CASE wire # <<>>
    <3>1. L \in 1 .. L
      BY <1>1, <1>3, <2>2 DEF TypeOK
    <3>2. wire[L] = <<(L - 1) * D, L * D>>
      BY <1>2, <3>1 DEF WholeInOrder
    <3>3. QED
      BY <2>2, <3>2 DEF WireEnd
  <2>3. QED
    BY <2>1, <2>2
<1>5. L * D < encoded * D /\ L * D \in Nat /\ encoded * D \in Nat
  BY <1>2, <1>3, <1>4
<1>6. L < encoded
  <2>1. ASSUME encoded <= L PROVE FALSE
    BY <1>2, <1>3, <1>5, <2>1, MulOrder
  <2>2. QED
    BY <1>3, <2>1
<1>7. m \in Nat \ {0} /\ m * D = encoded * D - L * D
  BY <1>2, <1>3, <1>6
<1>8. batch - off = m * D
  BY <1>3, <1>4, <1>5, <1>7
<1>9. (m * D + D - 1) \div D = m
  BY <1>2, <1>7, WholeChunks
<1>10. Chunks(D) = m
  BY <1>8, <1>9 DEF Chunks
<1>11. QED
  BY <1>3, <1>4, <1>7, <1>8, <1>10 DEF D

(* The kernel takes n of the datagrams that the batch still holds. *)
LEMMA WholeSent ==
  ASSUME SendInv, Aligned, WholeInOrder, pc = "send", NEW n \in Nat \ {0},
         n <= encoded - Len(wire), NEW bytes, Sent(Seg, n, bytes)
  PROVE  WholeInOrder'
<1> DEFINE D == Seg
           L == Len(wire)
           m == encoded - L
           T == Nat \X Nat
<1>1. D \in Nat \ {0} /\ DatagramLen = D /\ D' = D /\ DatagramLen' = DatagramLen
  BY Numbers, TypedOK, LensAgree, SizesSame DEF SendInv, Sent
<1>2. /\ m \in Nat \ {0} /\ L \in Nat /\ n <= m
      /\ BatchStart + off = L * D /\ batch - off = m * D
      /\ BatchStart \in Nat /\ off \in Nat /\ batch \in Nat
  BY RestOfBatch, Numbers DEF SendInv
<1>3. wire' = wire \o Pieces(D, n) /\ wire \in Seq(T)
  BY DEF Sent, SendInv, TypeOK
<1> HIDE DEF D, m
<1>4. ASSUME NEW k \in 1 .. n
      PROVE  Piece(D, k) = <<(L + k - 1) * D, (L + k) * D>>
  <2>1. k * D <= m * D /\ k * D \in Nat /\ m * D \in Nat
    BY <1>1, <1>2, MulOrder
  <2>2. BatchStart + MinOf(off + k * D, batch) = L * D + k * D
    BY <1>2, <2>1 DEF MinOf
  <2>3. (L + k) * D = L * D + k * D /\ (L + k - 1) * D = L * D + (k - 1) * D
    BY <1>1, <1>2
  <2>4. QED
    BY <1>2, <2>2, <2>3 DEF Piece
<1>5. Pieces(D, n) \in Seq(T) /\ Len(Pieces(D, n)) = n
  <2>1. ASSUME NEW k \in 1 .. n PROVE Piece(D, k) \in T
    <3>1. L + k - 1 \in Nat /\ L + k \in Nat
      BY <1>2
    <3>2. (L + k - 1) * D \in Nat /\ (L + k) * D \in Nat
      BY <1>1, <3>1, MulOrder
    <3>3. QED
      BY <1>4, <3>2
  <2> HIDE DEF T
  <2>2. QED
    BY <2>1 DEF Pieces
<1> HIDE DEF T
<1>6. Len(wire') = L + n
  <2>1. Len(wire \o Pieces(D, n)) = Len(wire) + Len(Pieces(D, n))
    BY <1>3, <1>5, Joined
  <2>2. QED
    BY <1>3, <1>5, <2>1
<1>7. ASSUME NEW k \in 1 .. Len(wire') PROVE wire'[k] = <<(k - 1) * D, k * D>>
  <2>1. CASE k <= L
    <3>1. wire'[k] = wire[k] /\ k \in 1 .. L
      BY <1>2, <1>3, <1>5, <1>6, <2>1
    <3>2. wire[k] = <<(k - 1) * D, k * D>>
      BY <1>1, <3>1 DEF WholeInOrder
    <3>3. QED
      BY <3>1, <3>2
  <2>2. CASE k > L
    <3> DEFINE j == k - L
    <3>1. j \in 1 .. n /\ k = L + j
      BY <1>2, <1>6, <2>2
    <3>2. wire'[k] = Pieces(D, n)[j]
      BY <1>2, <1>3, <1>5, <1>6, <2>2, <3>1
    <3>3. Pieces(D, n)[j] = Piece(D, j)
      BY <3>1 DEF Pieces
    <3>4. QED
      BY <1>4, <3>1, <3>2, <3>3
  <2>3. k <= L \/ k > L
    BY <1>2, <1>6
  <2>4. QED
    BY <2>1, <2>2, <2>3
<1>8. QED
  BY <1>1, <1>7 DEF WholeInOrder, D

LEMMA WholeStep == SendInv /\ AlignedWhole /\ [Next]_vars => AlignedWhole'
<1> SUFFICES ASSUME SendInv, AlignedWhole, [Next]_vars, Aligned' PROVE WholeInOrder'
  BY DEF AlignedWhole
<1>1. UNCHANGED config
  BY DEF Next, vars, config, NextBlock, Encode, TestDrop, EncodeFails, SendGso, SendMmsg,
         Sent, SendError
<1>2. Aligned /\ WholeInOrder /\ DatagramLen' = DatagramLen
  BY <1>1, SizesSame DEF config, Aligned, AlignedWhole
<1>3. ASSUME wire' = wire PROVE WholeInOrder'
  BY <1>2, <1>3 DEF WholeInOrder
<1>4. CASE SendGso
  <2> DEFINE m == encoded - Len(wire)
  <2>1. pc = "send" /\ batch - off <= MaxUdp
    BY <1>4 DEF SendGso
  <2>2. m \in Nat \ {0} /\ batch - off = m * Seg /\ Chunks(Seg) = m
    BY <1>2, <2>1, RestOfBatch
  <2>3. Seg \in Nat \ {0}
    BY Numbers DEF SendInv
  <2>4. 1 * Seg <= m * Seg /\ m * Seg \in Nat /\ 1 * Seg = Seg
    BY <2>2, <2>3, MulOrder
  <2>5. Seg < 65536
    BY <2>1, <2>2, <2>3, <2>4, UdpSendAssumption
  <2>6. SegU16 = Seg /\ Seg # 0
    BY <2>3, <2>5 DEF SegU16
  <2>7. Sent(Seg, m, batch - off)
    BY <1>4, <2>2, <2>6 DEF SendGso
  <2>8. QED
    BY <1>2, <2>1, <2>2, <2>7, WholeSent
<1>5. ASSUME NEW n \in 1 .. MaxGsoSegments, SendMmsg(n) PROVE WholeInOrder'
  <2>1. pc = "send"
    BY <1>5 DEF SendMmsg
  <2>2. Chunks(Seg) = encoded - Len(wire)
    BY <1>2, <2>1, RestOfBatch
  <2>3. /\ n \in Nat \ {0} /\ n <= encoded - Len(wire)
        /\ Sent(Seg, n, MinOf(n * Seg, batch - off))
    BY <1>5, <2>2, MmsgSends DEF SendInv
  <2>4. QED
    BY <1>2, <2>1, <2>3, WholeSent
<1>6. QED
  BY <1>3, <1>4, <1>5
  DEF Next, vars, NextBlock, Encode, TestDrop, EncodeFails, SendError

-----------------------------------------------------------------------------
(* The state of the batch loop keeps its type, and a batch is a whole      *)
(* number of datagrams.                                                    *)
THEOREM UdpTypeOK == Spec => []TypeOK
<1>1. SendInv => TypeOK
  BY DEF SendInv
<1>2. QED
  BY <1>1, SendInvariant, PTL

(* With a symbol size that is a multiple of 8, send_segments puts the      *)
(* encoded datagrams on the wire whole, in order and each once, whatever   *)
(* part of a batch each call takes.                                        *)
THEOREM UdpAlignedWhole == Spec => []AlignedWhole
<1>1. Init => AlignedWhole
  BY DEF Init, AlignedWhole, WholeInOrder
<1>2. QED
  BY <1>1, WholeStep, SendInvariant, PTL DEF Spec

(* Whatever the symbol size, the wire carries the stream without a gap,    *)
(* and a flush that returns Ok has sent its whole batch.                   *)
THEOREM UdpFlushSendsAll == Spec => []FlushSendsAll
<1>1. SendInv => FlushSendsAll
  BY DEF SendInv, Progress, FlushSendsAll
<1>2. QED
  BY <1>1, SendInvariant, PTL

(* But for the bytes the codec's rounding takes off each datagram,         *)
(* bytes_sent is never behind the wire and at most one batch ahead of it.  *)
THEOREM UdpAccounted == Spec => []Accounted
<1>1. ASSUME SendInv PROVE Accounted
  <2> DEFINE D == DatagramLen
  <2>1. /\ D \in Nat \ {0} /\ Seg \in Nat \ {0} /\ MaxSegs \in Nat \ {0} /\ encoded \in Nat
        /\ off \in Nat /\ batch \in Nat /\ BatchStart \in Nat
        /\ BatchStart + batch = encoded * D /\ batch <= MaxSegs * D
    BY <1>1, Numbers DEF SendInv
  <2>2. bytesSent = encoded * Seg /\ WireEnd \in Nat
    BY <1>1 DEF SendInv, Progress
  <2>3. MaxSegs * D \in Nat /\ encoded * D \in Nat /\ encoded * Seg \in Nat
    BY <2>1
  <2>4. Drift = encoded * Seg - encoded * D
    BY <2>1 DEF Drift
  <2>5. WireEnd <= encoded * D /\ encoded * D <= WireEnd + MaxSegs * D
    <3>1. CASE pc \in {"next", "fill"}
      <4>1. WireEnd = BatchStart
        BY <1>1, <3>1 DEF SendInv, Progress
      <4>2. QED
        BY <2>1, <2>3, <4>1
    <3>2. CASE pc = "send"
      <4>1. off < batch /\ WireEnd = BatchStart + off
        BY <1>1, <3>2 DEF SendInv, Progress
      <4>2. QED
        BY <2>1, <2>3, <4>1
    <3>3. CASE pc \in {"gone", "failed"}
      BY <1>1, <3>3 DEF SendInv, Progress
    <3>4. QED
      BY <1>1, <3>1, <3>2, <3>3 DEF SendInv, TypeOK
  <2> HIDE DEF D
  <2>6. bytesSent - WireEnd \in Drift .. Drift + MaxSegs * D
    BY <2>2, <2>3, <2>4, <2>5
  <2>7. QED
    BY <2>6 DEF Accounted, D
<1>2. QED
  BY <1>1, SendInvariant, PTL

(* Datagrams that fit a GSO call at all are batched within its limits. *)
THEOREM UdpKernelLimits == Spec => []KernelLimits
<1>1. ASSUME SendInv PROVE KernelLimits
  <2>1. /\ Seg \in Nat \ {0} /\ MaxSegs \in Nat \ {0} /\ MaxSegs <= MaxGsoSegments
        /\ Seg <= MaxGsoBytes => MaxSegs * Seg <= MaxGsoBytes
    BY <1>1, TypedOK, LensOrder, MaxSegsBounds DEF SendInv
  <2>2. /\ batchSegs \in Nat /\ batchSegs <= MaxSegs /\ batch \in Nat
        /\ batch <= MaxSegs * DatagramLen /\ DatagramLen \in Nat /\ DatagramLen <= Seg
    BY <1>1, Numbers DEF SendInv
  <2>3. DatagramLen * MaxSegs <= Seg * MaxSegs
    BY <2>1, <2>2, MulOrder
  <2>4. /\ DatagramLen * MaxSegs = MaxSegs * DatagramLen /\ Seg * MaxSegs = MaxSegs * Seg
        /\ MaxSegs * DatagramLen \in Nat /\ MaxSegs * Seg \in Nat
    BY <2>1, <2>2
  <2>5. QED
    BY <2>1, <2>2, <2>3, <2>4, UdpSendAssumption DEF KernelLimits
<1>2. QED
  BY <1>1, SendInvariant, PTL

-----------------------------------------------------------------------------
(* Cutting a message.                                                      *)

(* A message of datagrams: none is empty, none longer than the first, and  *)
(* only the last may be shorter.                                           *)
Whole(m) ==
  /\ m \in Seq(Nat \X Nat) /\ m # <<>>
  /\ \A j \in 1 .. Len(m) : 0 < Size(m[j]) /\ Size(m[j]) <= Size(m[1])
  /\ \A j \in 1 .. Len(m) - 1 : Size(m[j]) = Size(m[1])

(* A whole message has the length and the segment size of its datagrams. *)
LEMMA WholeSizes ==
  ASSUME NEW m, Whole(m)
  PROVE  /\ Len(m) \in Nat \ {0} /\ Size(m[1]) \in Nat \ {0}
         /\ \A j \in 1 .. Len(m) : m[j] \in Nat \X Nat /\ Size(m[j]) \in 1 .. Size(m[1])
         /\ MsgLen(m) = (Len(m) - 1) * Size(m[1]) + Size(m[Len(m)])
         /\ (Len(m) - 1) * Size(m[1]) \in Nat
         /\ MsgLen(m) \in Nat \ {0}
         /\ GroSegmentSize(m) = Size(m[1])
<1>1. m \in Seq(Nat \X Nat) /\ Len(m) \in Nat \ {0}
  BY DEF Whole
<1>2. ASSUME NEW j \in 1 .. Len(m)
      PROVE  m[j] \in Nat \X Nat /\ Size(m[j]) \in Int
  BY <1>1 DEF Size
<1>3. Size(m[1]) \in Nat \ {0}
  BY <1>1, <1>2 DEF Whole
<1>4. \A j \in 1 .. Len(m) : m[j] \in Nat \X Nat /\ Size(m[j]) \in 1 .. Size(m[1])
  BY <1>2, <1>3 DEF Whole
<1>5. MsgLen(m) = (Len(m) - 1) * Size(m[1]) + Size(m[Len(m)])
  BY DEF MsgLen
<1>6. (Len(m) - 1) * Size(m[1]) \in Nat
  <2>1. Len(m) - 1 \in Nat
    BY <1>1
  <2>2. QED
    BY <1>3, <2>1
<1>7. Size(m[Len(m)]) \in Nat \ {0}
  BY <1>1, <1>3, <1>4
<1>8. MsgLen(m) \in Nat \ {0}
  BY <1>5, <1>6, <1>7
<1>9. GroSegmentSize(m) = Size(m[1])
  <2>1. CASE Len(m) > 1
    BY <2>1 DEF GroSegmentSize
  <2>2. CASE Len(m) = 1
    <3>1. MsgLen(m) = 0 * Size(m[1]) + Size(m[1])
      BY <1>5, <2>2
    <3>2. QED
      BY <1>3, <2>2, <3>1 DEF GroSegmentSize
  <2>3. Len(m) > 1 \/ Len(m) = 1
    <3>1. \A k \in Nat \ {0} : k > 1 \/ k = 1
      OBVIOUS
    <3>2. QED
      BY <1>1, <3>1, Zenon
  <2>4. QED
    BY <2>1, <2>2, <2>3
<1>10. QED
  BY <1>1, <1>3, <1>4, <1>5, <1>6, <1>8, <1>9

(* chunks_mut of a whole message makes as many pieces as it has datagrams. *)
LEMMA PieceCount ==
  ASSUME NEW n \in Nat \ {0}, NEW z \in Nat \ {0}, NEW l \in 1 .. z
  PROVE  ((n - 1) * z + l + z - 1) \div z = n
<1> DEFINE a == (n - 1) * z + l + z - 1
           q == a \div z
<1>1. (n - 1) * z = n * z - z /\ n * z \in Nat
  OBVIOUS
<1>2. (n - 1) * z \in Nat
  OBVIOUS
<1>3. a \in Nat /\ n * z <= a /\ a < n * z + z
  BY <1>1, <1>2
<1>4. q \in Nat /\ q * z <= a /\ a < q * z + z
  BY <1>3, Quotient
<1> HIDE DEF q, a
<1>5. q * z \in Nat
  BY <1>4
<1>6. ~(q < n)
  BY <1>1, <1>3, <1>4, <1>5, MulApart
<1>7. ~(n < q)
  BY <1>1, <1>3, <1>4, <1>5, MulApart
<1>8. q = n
  BY <1>4, <1>6, <1>7
<1>9. QED
  BY <1>8 DEF q, a

(* The j-th piece of a whole message is its j-th datagram. *)
LEMMA CutWhole ==
  ASSUME NEW m, Whole(m), NEW j \in 1 .. Len(m)
  PROVE  Cut(m, (j - 1) * Size(m[1]), MinOf(j * Size(m[1]), MsgLen(m))) = {m[j]}
<1> DEFINE z == Size(m[1])
           n == Len(m)
           start(i) == (i - 1) * z
           a == (j - 1) * z
           b == MinOf(j * z, MsgLen(m))
<1>1. /\ n \in Nat \ {0} /\ z \in Nat \ {0}
      /\ \A i \in 1 .. n : m[i] \in Nat \X Nat /\ Size(m[i]) \in 1 .. z
      /\ MsgLen(m) = start(n) + Size(m[n])
  BY WholeSizes
<1>2. \A i \in 1 .. n - 1 : Size(m[i]) = z
  BY DEF Whole
<1> HIDE DEF z
<1>3. ASSUME NEW i \in 1 .. n
      PROVE  start(i) \in Nat /\ i * z = start(i) + z
  <2>1. i - 1 \in Nat
    BY <1>1
  <2>2. QED
    BY <1>1, <2>1
<1>4. b = a + Size(m[j])
  <2>1. CASE j = n
    <3>1. MsgLen(m) = a + Size(m[j]) /\ Size(m[j]) \in 1 .. z /\ a \in Nat /\ j * z = a + z
      BY <1>1, <1>3, <2>1
    <3>2. QED
      BY <1>1, <3>1 DEF MinOf
  <2>2. CASE j < n
    <3>1. Size(m[j]) = z /\ j * z = a + z /\ a \in Nat
      BY <1>1, <1>2, <1>3, <2>2
    <3>2. j * z <= start(n)
      <4>1. j \in Nat /\ n - 1 \in Nat /\ j <= n - 1
        BY <1>1, <2>2
      <4>2. QED
        BY <1>1, <4>1, MulOrder
    <3>3. start(n) \in Nat /\ Size(m[n]) \in Nat
      BY <1>1, <1>3
    <3>4. QED
      BY <1>1, <3>1, <3>2, <3>3 DEF MinOf
  <2>3. QED
    BY <1>1, <2>1, <2>2
<1>5. ASSUME NEW i \in 1 .. n
      PROVE  (start(i) < b /\ a < start(i) + Size(m[i])) <=> i = j
  <2>0. i \in Nat /\ j \in Nat /\ z \in Nat
    BY <1>1
  <2>1. /\ start(i) \in Nat /\ a \in Nat /\ Size(m[i]) \in 1 .. z /\ Size(m[j]) \in 1 .. z
    BY <1>1, <1>3
  <2>2. CASE i = j
    BY <1>1, <1>4, <2>1, <2>2
  <2>3. CASE i < j
    <3>1. i - 1 \in Nat /\ j - 1 \in Nat /\ i - 1 < j - 1
      BY <1>1, <2>3
    <3>2. start(i) + z <= a
      BY <1>1, <3>1, MulApart
    <3>3. PICK s \in Nat : s = start(i)
      BY <2>1
    <3>4. PICK t \in Nat : t = a
      BY <2>1
    <3>5. ~(t < s + Size(m[i]))
      BY <2>0, <2>1, <3>2, <3>3, <3>4, ApartLess
    <3>6. i # j
      BY <2>0, <2>3
    <3>7. QED
      BY <3>3, <3>4, <3>5, <3>6, Zenon
  <2>4. CASE j < i
    <3>1. i - 1 \in Nat /\ j - 1 \in Nat /\ j - 1 < i - 1
      BY <1>1, <2>4
    <3>2. a + z <= start(i)
      BY <1>1, <3>1, MulApart
    <3>3. PICK s \in Nat : s = start(i)
      BY <2>1
    <3>4. PICK t \in Nat : t = a
      BY <2>1
    <3>5. ~(s < t + Size(m[j]))
      BY <2>0, <2>1, <3>2, <3>3, <3>4, ApartLess
    <3>6. i # j
      BY <2>0, <2>4
    <3>7. QED
      BY <1>4, <3>3, <3>4, <3>5, <3>6, Zenon
  <2>5. QED
    BY <1>1, <2>2, <2>3, <2>4
<1> DEFINE Part(i) == <<m[i][1] + MaxOf(a - start(i), 0),
                        m[i][1] + MinOf(b - start(i), Size(m[i]))>>
           Touched == {i \in 1 .. n : start(i) < b /\ a < start(i) + Size(m[i])}
<1>6. Touched = {j}
  BY <1>5
<1>7. Part(j) = m[j]
  <2>1. m[j] \in Nat \X Nat /\ Size(m[j]) \in Nat /\ a \in Nat
    BY <1>1, <1>3
  <2>2. MaxOf(a - start(j), 0) = 0 /\ MinOf(b - start(j), Size(m[j])) = Size(m[j])
    BY <1>4, <2>1 DEF MaxOf, MinOf
  <2>3. m[j][1] + Size(m[j]) = m[j][2] /\ m[j][1] + 0 = m[j][1]
    BY <2>1 DEF Size
  <2>4. m[j] = <<m[j][1], m[j][2]>>
    BY <2>1
  <2>5. QED
    BY <2>2, <2>3, <2>4
<1>8. Cut(m, a, b) = {Part(i) : i \in Touched}
  BY DEF Cut, z
<1> HIDE DEF Part, Touched
<1>9. Cut(m, a, b) = {m[j]}
  BY <1>6, <1>7, <1>8
<1>10. QED
  BY <1>9 DEF z

(* recv_batch hands on a whole message datagram by datagram. *)
LEMMA PiecedWhole ==
  ASSUME NEW m, Whole(m)
  PROVE  Pieced(m) = [j \in 1 .. Len(m) |-> {m[j]}]
<1> DEFINE z == Size(m[1])
           n == Len(m)
<1>1. /\ n \in Nat \ {0} /\ z \in Nat \ {0} /\ Size(m[n]) \in 1 .. z
      /\ MsgLen(m) = (n - 1) * z + Size(m[n])
      /\ MsgLen(m) # 0 /\ GroSegmentSize(m) = z
  BY WholeSizes
<1>2. (MsgLen(m) + z - 1) \div z = n
  BY <1>1, PieceCount
<1>3. \A j \in 1 .. n : Cut(m, (j - 1) * z, MinOf(j * z, MsgLen(m))) = {m[j]}
  BY CutWhole
<1>4. Pieced(m) = [j \in 1 .. (MsgLen(m) + z - 1) \div z |->
                     Cut(m, (j - 1) * z, MinOf(j * z, MsgLen(m)))]
  BY <1>1 DEF Pieced
<1> HIDE DEF z, n
<1>5. Pieced(m) = [j \in 1 .. n |-> Cut(m, (j - 1) * z, MinOf(j * z, MsgLen(m)))]
  BY <1>2, <1>4
<1>6. QED
  BY <1>3, <1>5 DEF n

(* Of an empty message it hands on nothing. *)
LEMMA PiecedEmpty == MsgLen(<<Empty>>) = 0 /\ Pieced(<<Empty>>) = <<>>
<1>1. MsgLen(<<Empty>>) = 0
  BY DEF MsgLen, Size, Empty
<1>2. QED
  BY <1>1 DEF Pieced

-----------------------------------------------------------------------------
(* The inductive invariant of the receiving side.                          *)

RxTyped ==
  /\ arrived \in Seq(Nat \X Nat) /\ handed \in Seq(SUBSET (Nat \X Nat))
  /\ queue \in Seq(Seq(Nat \X Nat)) /\ inBufs \in 0 .. Len(queue)
  /\ \A i \in 1 .. Len(queue) : queue[i] = <<Empty>> \/ Whole(queue[i])

(* The datagrams a message holds. *)
Held(m) == IF m = <<Empty>> THEN 0 ELSE Len(m)

(* The datagrams of message i are those that arrived next after the first  *)
(* at[i]; all that is missing from there on is in a later message.         *)
Placed(at) ==
  /\ at[1] = Len(handed) /\ at[Len(queue) + 1] = Len(arrived)
  /\ \A i \in 1 .. Len(queue) : at[i + 1] = at[i] + Held(queue[i])
  /\ \A i \in 1 .. Len(queue) : queue[i] # <<Empty>> =>
       \A j \in 1 .. Len(queue[i]) : queue[i][j] = arrived[at[i] + j]
  /\ \A i \in 1 .. Len(queue) + 1 : at[i] <= Len(arrived)
  /\ \A i \in 1 .. Len(queue) + 1 : at[i] < Len(arrived) =>
       \E k \in i .. Len(queue) : queue[k] # <<Empty>>

HandedInOrder == \A i \in 1 .. Len(handed) : handed[i] = {arrived[i]}

Offsets == [1 .. Len(queue) + 1 -> Nat]

RxInv == RxTyped /\ HandedInOrder /\ \E at \in Offsets : Placed(at)

(* A datagram from the wire is a message of its own. *)
LEMMA SingleWhole ==
  ASSUME NEW d \in Nat \X Nat, Size(d) \in Nat \ {0}
  PROVE  Whole(<<d>>) /\ <<d>> # <<Empty>> /\ <<d>> \in Seq(Nat \X Nat)
<1>1. <<d>> \in Seq(Nat \X Nat) /\ Len(<<d>>) = 1 /\ <<d>>[1] = d /\ <<d>> # <<>>
  OBVIOUS
<1>2. d # Empty
  BY DEF Empty, Size
<1>3. 1 .. 1 = {1} /\ 1 .. 1 - 1 = {}
  OBVIOUS
<1>4. Whole(<<d>>)
  BY <1>1, <1>3 DEF Whole
<1>5. QED
  BY <1>1, <1>2, <1>4

LEMMA EmptyMessage == <<Empty>> \in Seq(Nat \X Nat)
  BY DEF Empty

(* A message that holds datagrams ends where it should. *)
LEMMA HeldWithin ==
  ASSUME RxTyped, NEW at \in Offsets, Placed(at),
         NEW i \in 1 .. Len(queue), queue[i] # <<Empty>>, NEW j \in 1 .. Len(queue[i])
  PROVE  at[i] + j \in 1 .. Len(arrived)
<1>1. /\ Len(queue) \in Nat /\ Len(queue[i]) \in Nat /\ Len(arrived) \in Nat
      /\ i + 1 \in 1 .. Len(queue) + 1 /\ at[i] \in Nat
  <2>1. Len(queue) \in Nat /\ Len(arrived) \in Nat /\ queue[i] \in Seq(Nat \X Nat)
    BY SMTT(20) DEF RxTyped
  <2>2. i \in 1 .. Len(queue) + 1 /\ i + 1 \in 1 .. Len(queue) + 1
    BY <2>1, SMTT(20)
  <2>3. at[i] \in Nat
    BY <2>2 DEF Offsets
  <2>4. QED
    BY <2>1, <2>2, <2>3
<1>2. at[i + 1] = at[i] + Len(queue[i]) /\ at[i + 1] <= Len(arrived)
  BY <1>1 DEF Placed, Held
<1>3. QED
  BY <1>1, <1>2

(* A datagram arrives and is a message of its own. *)
LEMMA ArriveAlone ==
  ASSUME RxInv, NEW d \in Nat \X Nat, Size(d) \in Nat \ {0},
         arrived' = Append(arrived, d), queue' = Append(queue, <<d>>),
         handed' = handed, inBufs' = inBufs
  PROVE  RxInv'
<1> DEFINE n == Len(queue)
           l == Len(arrived)
<1>1. /\ RxTyped /\ n \in Nat /\ l \in Nat
      /\ Whole(<<d>>) /\ <<d>> # <<Empty>> /\ <<d>> \in Seq(Nat \X Nat)
  BY SingleWhole DEF RxInv, RxTyped
<1>2. /\ Len(arrived') = l + 1 /\ arrived'[l + 1] = d /\ arrived' \in Seq(Nat \X Nat)
      /\ \A i \in 1 .. l : arrived'[i] = arrived[i]
  BY <1>1 DEF RxTyped
<1>3. /\ Len(queue') = n + 1 /\ queue'[n + 1] = <<d>> /\ queue' \in Seq(Seq(Nat \X Nat))
      /\ \A i \in 1 .. n : queue'[i] = queue[i]
  BY <1>1 DEF RxTyped
<1>4. PICK at \in Offsets : Placed(at)
  BY DEF RxInv
<1>5. PICK to \in [1 .. n + 2 -> Nat] :
        (\A i \in 1 .. n + 1 : to[i] = at[i] /\ at[i] \in Nat) /\ to[n + 2] = l + 1
  <2> DEFINE f == [i \in 1 .. n + 2 |-> IF i <= n + 1 THEN at[i] ELSE l + 1]
  <2>1. \A i \in 1 .. n + 1 : at[i] \in Nat
    BY <1>4 DEF Offsets
  <2>2. \A i \in 1 .. n + 2 : i \in 1 .. n + 1 <=> i <= n + 1
    BY <1>1
  <2>3. f \in [1 .. n + 2 -> Nat]
    BY <1>1, <2>1, <2>2
  <2>4. \A i \in 1 .. n + 1 : i \in 1 .. n + 2 /\ i <= n + 1
    BY <1>1
  <2>5. n + 2 \in 1 .. n + 2 /\ ~(n + 2 <= n + 1)
    BY <1>1
  <2>6. QED
    BY <2>1, <2>3, <2>4, <2>5
<1>6. RxTyped'
  <2>1. ASSUME NEW i \in 1 .. n + 1
        PROVE  queue'[i] = <<Empty>> \/ Whole(queue'[i])
    <3>1. CASE i = n + 1
      BY <1>1, <1>3, <3>1
    <3>2. CASE i \in 1 .. n
      BY <1>1, <1>3, <3>2 DEF RxTyped
    <3>3. QED
      BY <1>1, <3>1, <3>2
  <2>2. inBufs' \in 0 .. n + 1
    BY <1>1 DEF RxTyped
  <2>3. handed' \in Seq(SUBSET (Nat \X Nat))
    BY <1>1 DEF RxTyped
  <2>4. QED
    BY <1>2, <1>3, <2>1, <2>2, <2>3, Zenon DEF RxTyped
<1>7. HandedInOrder'
  <2>1. Len(handed) <= l /\ Len(handed) \in Nat
    <3>1. 1 \in 1 .. n + 1
      BY <1>1
    <3>2. QED
      BY <1>1, <1>4, <3>1 DEF Placed, RxTyped
  <2>2. \A i \in 1 .. Len(handed) : arrived'[i] = arrived[i]
    BY <1>1, <1>2, <2>1
  <2>3. QED
    BY <2>2 DEF RxInv, HandedInOrder
<1>8. to[1] = Len(handed') /\ to[Len(queue') + 1] = Len(arrived')
  <2>1. 1 \in 1 .. n + 1 /\ (n + 1) + 1 = n + 2
    BY <1>1
  <2>2. QED
    BY <1>2, <1>3, <1>4, <1>5, <2>1 DEF Placed
<1>9. ASSUME NEW i \in 1 .. n + 1
      PROVE  /\ to[i + 1] = to[i] + Held(queue'[i])
             /\ queue'[i] # <<Empty>> =>
                  \A j \in 1 .. Len(queue'[i]) : queue'[i][j] = arrived'[to[i] + j]
  <2>1. CASE i = n + 1
    <3>1. to[i] = l /\ to[i + 1] = l + 1
      <4>1. i + 1 = n + 2 /\ n + 1 \in 1 .. n + 1
        BY <1>1, <2>1
      <4>2. QED
        BY <1>4, <1>5, <2>1, <4>1 DEF Placed
    <3>2. Held(queue'[i]) = 1 /\ queue'[i] = <<d>> /\ Len(<<d>>) = 1 /\ <<d>>[1] = d
      BY <1>1, <1>3, <2>1 DEF Held
    <3>3. \A j \in 1 .. 1 : <<d>>[j] = arrived'[l + j]
      BY <1>1, <1>2, <3>2
    <3>4. QED
      BY <3>1, <3>2, <3>3
  <2>2. CASE i \in 1 .. n
    <3>1. queue'[i] = queue[i] /\ to[i] = at[i] /\ to[i + 1] = at[i + 1]
      <4>1. i + 1 \in 1 .. n + 1
        BY <1>1, <2>2
      <4>2. QED
        BY <1>3, <1>5, <2>2, <4>1
    <3>2. to[i + 1] = to[i] + Held(queue'[i])
      BY <1>4, <2>2, <3>1 DEF Placed
    <3>3. ASSUME queue[i] # <<Empty>>, NEW j \in 1 .. Len(queue[i])
          PROVE  queue[i][j] = arrived'[at[i] + j]
      <4>1. at[i] + j \in 1 .. l
        BY <1>1, <1>4, <2>2, <3>3, HeldWithin
      <4>2. QED
        BY <1>2, <1>4, <2>2, <3>3, <4>1 DEF Placed
    <3>4. QED
      BY <3>1, <3>2, <3>3
  <2>3. i = n + 1 \/ i \in 1 .. n
    BY <1>1
  <2>4. QED
    BY <2>1, <2>2, <2>3, Zenon
<1>10. ASSUME NEW i \in 1 .. n + 2
       PROVE  /\ to[i] <= l + 1
              /\ to[i] < l + 1 => \E k \in i .. n + 1 : queue'[k] # <<Empty>>
  <2>1. CASE i = n + 2
    BY <1>1, <1>5, <2>1
  <2>2. CASE i \in 1 .. n + 1
    <3>1. to[i] <= l /\ to[i] \in Nat
      BY <1>4, <1>5, <2>2 DEF Placed
    <3>2. n + 1 \in i .. n + 1 /\ queue'[n + 1] # <<Empty>>
      BY <1>1, <1>3, <2>2
    <3>3. to[i] <= l + 1
      BY <1>1, <3>1
    <3>4. QED
      BY <3>2, <3>3
  <2>3. i = n + 2 \/ i \in 1 .. n + 1
    BY <1>1
  <2>4. QED
    BY <2>1, <2>2, <2>3, Zenon
<1>11. Placed(to)' /\ to \in Offsets'
  <2>1. Len(queue') + 1 = n + 2
    BY <1>1, <1>3
  <2>2. QED
    BY <1>2, <1>3, <1>5, <1>8, <1>9, <1>10, <2>1 DEF Placed, Offsets
<1>12. QED
  BY <1>6, <1>7, <1>11 DEF RxInv

(* Positions in the last message, which ends with the last arrival. *)
LEMMA EndsWith ==
  ASSUME NEW a \in Nat, NEW b \in Nat, NEW c, a + b = c
  PROVE  a + (b + 1) = c + 1 /\ \A p \in 1 .. b : a + p \in 1 .. c
  OBVIOUS

(* A datagram arrives and joins the last message of the socket. *)
LEMMA ArriveJoined ==
  ASSUME RxInv, NEW d \in Nat \X Nat, Size(d) \in Nat \ {0},
         inBufs < Len(queue), MayJoin(queue[Len(queue)], d),
         arrived' = Append(arrived, d),
         queue' = [queue EXCEPT ![Len(queue)] = Append(queue[Len(queue)], d)],
         handed' = handed, inBufs' = inBufs
  PROVE  RxInv'
<1> DEFINE n == Len(queue)
           l == Len(arrived)
           m == queue[n]
           k == Len(m)
<1>1. RxTyped /\ n \in Nat \ {0} /\ l \in Nat
  BY DEF RxInv, RxTyped
<1>2. /\ Len(arrived') = l + 1 /\ arrived'[l + 1] = d /\ arrived' \in Seq(Nat \X Nat)
      /\ \A i \in 1 .. l : arrived'[i] = arrived[i]
  BY <1>1 DEF RxTyped
<1>3. /\ m \in Seq(Nat \X Nat) /\ m # <<Empty>> /\ Whole(m)
      /\ Size(m[k]) = Size(m[1]) /\ Size(d) <= Size(m[1]) /\ k \in Nat \ {0}
  <2>1. m # <<Empty>> /\ Size(m[k]) = Size(m[1]) /\ Size(d) <= Size(m[1])
    BY DEF MayJoin
  <2>2. n \in 1 .. n
    BY <1>1
  <2>3. Whole(m)
    BY <1>1, <2>1, <2>2 DEF RxTyped
  <2>4. QED
    BY <2>1, <2>3, WholeSizes DEF Whole
<1>k. k \in Nat \ {0}
  BY <1>3
<1> DEFINE j == Append(m, d)
<1>4. /\ j \in Seq(Nat \X Nat) /\ Len(j) = k + 1 /\ j[k + 1] = d
      /\ \A i \in 1 .. k : j[i] = m[i]
  BY <1>3
<1>5. /\ Len(queue') = n /\ queue'[n] = j /\ queue' \in Seq(Seq(Nat \X Nat))
      /\ \A i \in 1 .. n - 1 : queue'[i] = queue[i]
  <2>1. queue \in Seq(Seq(Nat \X Nat)) /\ n \in 1 .. n
    BY <1>1 DEF RxTyped
  <2> HIDE DEF j
  <2>2. queue' = [queue EXCEPT ![n] = j]
    BY DEF j
  <2>3. queue' \in Seq(Seq(Nat \X Nat)) /\ Len(queue') = n
    BY <1>4, <2>1, <2>2
  <2>4. queue'[n] = j
    BY <2>1, <2>2, SMTT(20)
  <2>5. ASSUME NEW i \in 1 .. n - 1
        PROVE  queue'[i] = queue[i]
    <3>1. i \in 1 .. n /\ i # n
      BY <1>1
    <3>2. QED
      BY <2>1, <2>2, <3>1
  <2>6. QED
    BY <2>3, <2>4, <2>5
<1> HIDE DEF j
<1>6. Whole(j) /\ j # <<Empty>>
  <2>1. \A i \in 1 .. k : Size(m[i]) = Size(m[1])
    <3>1. \A i \in 1 .. k : i = k \/ i \in 1 .. k - 1
      BY <1>3
    <3>2. QED
      BY <1>3, <3>1, Zenon DEF Whole
  <2>2. Size(m[1]) \in Nat \ {0} /\ j[1] = m[1]
    <3>1. 1 \in 1 .. k
      BY <1>3
    <3>2. QED
      BY <1>3, <1>4, <3>1, WholeSizes
  <2>3. \A i \in 1 .. k + 1 : i = k + 1 \/ i \in 1 .. k
    BY <1>3
  <2>4. \A i \in 1 .. k + 1 : 0 < Size(j[i]) /\ Size(j[i]) <= Size(j[1])
    <3>1. 0 < Size(d) /\ 0 < Size(m[1]) /\ Size(m[1]) <= Size(m[1])
      BY <2>2
    <3>2. QED
      BY <1>3, <1>4, <2>1, <2>2, <2>3, <3>1, Zenon
  <2>5. (k + 1) - 1 = k /\ k + 1 # 0 /\ k + 1 # 1
    BY <1>k
  <2>6. j # <<>> /\ Len(<<Empty>>) = 1
    BY <1>4, <2>5
  <2>7. QED
    BY <1>4, <2>1, <2>2, <2>4, <2>5, <2>6 DEF Whole
<1>7. PICK at \in Offsets : Placed(at)
  BY DEF RxInv
<1>8. PICK to \in [1 .. n + 1 -> Nat] :
        (\A i \in 1 .. n : to[i] = at[i] /\ at[i] \in Nat) /\ to[n + 1] = l + 1
  <2> DEFINE f == [i \in 1 .. n + 1 |-> IF i <= n THEN at[i] ELSE l + 1]
  <2>1. \A i \in 1 .. n + 1 : at[i] \in Nat
    BY <1>7 DEF Offsets
  <2>2. f \in [1 .. n + 1 -> Nat]
    BY <1>1, <2>1
  <2>3. \A i \in 1 .. n : i \in 1 .. n + 1 /\ i <= n
    BY <1>1
  <2>4. n + 1 \in 1 .. n + 1 /\ ~(n + 1 <= n)
    BY <1>1
  <2>5. QED
    BY <2>1, <2>2, <2>3, <2>4
<1>9. RxTyped'
  <2>1. ASSUME NEW i \in 1 .. n
        PROVE  queue'[i] = <<Empty>> \/ Whole(queue'[i])
    <3>1. CASE i = n
      BY <1>5, <1>6, <3>1
    <3>2. CASE i \in 1 .. n - 1
      BY <1>1, <1>5, <3>2 DEF RxTyped
    <3>3. i = n \/ i \in 1 .. n - 1
      BY <1>1
    <3>4. QED
      BY <3>1, <3>2, <3>3
  <2>2. inBufs' \in 0 .. n
    BY <1>1 DEF RxTyped
  <2>3. handed' \in Seq(SUBSET (Nat \X Nat))
    BY <1>1 DEF RxTyped
  <2>4. QED
    BY <1>2, <1>5, <2>1, <2>2, <2>3, Zenon DEF RxTyped
<1>10. HandedInOrder'
  <2>1. Len(handed) <= l /\ Len(handed) \in Nat
    <3>1. 1 \in 1 .. n + 1
      BY <1>1
    <3>2. QED
      BY <1>1, <1>7, <3>1 DEF Placed, RxTyped
  <2>2. \A i \in 1 .. Len(handed) : arrived'[i] = arrived[i]
    BY <1>1, <1>2, <2>1
  <2>3. QED
    BY <2>2 DEF RxInv, HandedInOrder
<1>11. to[1] = Len(handed') /\ to[Len(queue') + 1] = Len(arrived')
  <2>1. 1 \in 1 .. n
    BY <1>1
  <2>2. QED
    BY <1>2, <1>5, <1>7, <1>8, <2>1 DEF Placed
<1>12. at[n] + k = l /\ at[n] \in Nat
  <2>1. n \in 1 .. n
    BY <1>1
  <2>2. at[n + 1] = at[n] + Held(m) /\ at[n + 1] = l
    BY <1>7, <2>1 DEF Placed
  <2>3. QED
    BY <1>3, <1>8, <2>1, <2>2 DEF Held
<1>e. at[n] + (k + 1) = l + 1 /\ \A p \in 1 .. k : at[n] + p \in 1 .. l
  <2>1. at[n] \in Nat /\ k \in Nat
    BY <1>k, <1>12
  <2>2. QED
    BY <1>12, <2>1, EndsWith, Zenon
<1>13. ASSUME NEW i \in 1 .. n
       PROVE  /\ to[i + 1] = to[i] + Held(queue'[i])
              /\ queue'[i] # <<Empty>> =>
                   \A p \in 1 .. Len(queue'[i]) : queue'[i][p] = arrived'[to[i] + p]
  <2>1. CASE i = n
    <3>1. to[i] = at[n] /\ to[i + 1] = l + 1
      BY <1>8, <2>1
    <3>2. Held(queue'[i]) = k + 1 /\ queue'[i] = j
      BY <1>4, <1>5, <1>6, <2>1 DEF Held
    <3>3. to[i + 1] = to[i] + Held(queue'[i])
      BY <1>e, <3>1, <3>2, Zenon
    <3>4. ASSUME NEW p \in 1 .. k + 1
          PROVE  j[p] = arrived'[at[n] + p]
      <4>1. CASE p = k + 1
        <5>1. at[n] + p = l + 1
          BY <1>e, <4>1, Zenon
        <5>2. QED
          BY <1>2, <1>4, <4>1, <5>1
      <4>2. CASE p \in 1 .. k
        <5>1. at[n] + p \in 1 .. l
          BY <1>e, <4>2, Zenon
        <5>2. m[p] = arrived[at[n] + p]
          BY <1>3, <1>7, <2>1, <4>2 DEF Placed
        <5>3. QED
          BY <1>2, <1>4, <4>2, <5>1, <5>2
      <4>3. p = k + 1 \/ p \in 1 .. k
        BY <1>3
      <4>4. QED
        BY <4>1, <4>2, <4>3
    <3>5. QED
      BY <1>4, <3>1, <3>2, <3>3, <3>4, Zenon
  <2>2. CASE i \in 1 .. n - 1
    <3>1. queue'[i] = queue[i] /\ to[i] = at[i] /\ to[i + 1] = at[i + 1]
      <4>1. i + 1 \in 1 .. n
        BY <1>1, <2>2
      <4>2. QED
        BY <1>5, <1>8, <2>2, <4>1
    <3>2. to[i + 1] = to[i] + Held(queue'[i])
      BY <1>7, <3>1 DEF Placed
    <3>3. ASSUME queue[i] # <<Empty>>, NEW p \in 1 .. Len(queue[i])
          PROVE  queue[i][p] = arrived'[at[i] + p]
      <4>1. at[i] + p \in 1 .. l
        BY <1>1, <1>7, <3>3, HeldWithin
      <4>2. QED
        BY <1>2, <1>7, <3>3, <4>1 DEF Placed
    <3>4. QED
      BY <3>1, <3>2, <3>3
  <2>3. i = n \/ i \in 1 .. n - 1
    BY <1>1
  <2>4. QED
    BY <2>1, <2>2, <2>3, Zenon
<1>14. ASSUME NEW i \in 1 .. n + 1
       PROVE  /\ to[i] <= l + 1
              /\ to[i] < l + 1 => \E q \in i .. n : queue'[q] # <<Empty>>
  <2>1. CASE i = n + 1
    BY <1>1, <1>8, <2>1
  <2>2. CASE i \in 1 .. n
    <3>1. to[i] <= l /\ to[i] \in Nat
      BY <1>7, <1>8, <2>2 DEF Placed
    <3>2. n \in i .. n /\ queue'[n] # <<Empty>>
      <4>1. n \in i .. n
        BY <1>1, <2>2
      <4>2. QED
        BY <1>5, <1>6, <4>1
    <3>3. to[i] <= l + 1
      BY <1>1, <3>1
    <3>4. QED
      BY <3>2, <3>3
  <2>3. i = n + 1 \/ i \in 1 .. n
    BY <1>1
  <2>4. QED
    BY <2>1, <2>2, <2>3, Zenon
<1>15. Placed(to)' /\ to \in Offsets'
  BY <1>2, <1>5, <1>8, <1>11, <1>13, <1>14 DEF Placed, Offsets
<1>16. QED
  BY <1>9, <1>10, <1>15 DEF RxInv

(* An empty datagram arrives: it holds nothing of the arrival order. *)
LEMMA ArriveEmptyKeeps ==
  ASSUME RxInv, ArriveEmpty
  PROVE  RxInv'
<1> DEFINE n == Len(queue)
           l == Len(arrived)
<1>1. /\ RxTyped /\ HandedInOrder /\ n \in Nat /\ l \in Nat
      /\ arrived' = arrived /\ handed' = handed /\ inBufs' = inBufs
  BY DEF RxInv, RxTyped, ArriveEmpty
<1>2. /\ Len(queue') = n + 1 /\ queue'[n + 1] = <<Empty>> /\ queue' \in Seq(Seq(Nat \X Nat))
      /\ \A i \in 1 .. n : queue'[i] = queue[i]
  BY EmptyMessage DEF RxInv, RxTyped, ArriveEmpty
<1>3. PICK at \in Offsets : Placed(at)
  BY DEF RxInv
<1>4. PICK to \in [1 .. n + 2 -> Nat] :
        (\A i \in 1 .. n + 1 : to[i] = at[i] /\ at[i] \in Nat) /\ to[n + 2] = l
  <2> DEFINE f == [i \in 1 .. n + 2 |-> IF i <= n + 1 THEN at[i] ELSE l]
  <2>1. \A i \in 1 .. n + 1 : at[i] \in Nat
    BY <1>3 DEF Offsets
  <2>2. \A i \in 1 .. n + 2 : i \in 1 .. n + 1 <=> i <= n + 1
    BY <1>1
  <2>3. f \in [1 .. n + 2 -> Nat]
    BY <1>1, <2>1, <2>2
  <2>4. \A i \in 1 .. n + 1 : i \in 1 .. n + 2 /\ i <= n + 1
    BY <1>1
  <2>5. n + 2 \in 1 .. n + 2 /\ ~(n + 2 <= n + 1)
    BY <1>1
  <2>6. QED
    BY <2>1, <2>3, <2>4, <2>5
<1>n. \A i \in 1 .. n + 1 : i = n + 1 \/ i \in 1 .. n
  BY <1>1
<1>5. RxTyped'
  <2>1. \A i \in 1 .. n + 1 : queue'[i] = <<Empty>> \/ Whole(queue'[i])
    BY <1>1, <1>2, <1>n, Zenon DEF RxTyped
  <2>2. inBufs' \in 0 .. n + 1
    BY <1>1 DEF RxTyped
  <2>3. QED
    BY <1>1, <1>2, <2>1, <2>2, Zenon DEF RxTyped
<1>6. HandedInOrder'
  BY <1>1 DEF HandedInOrder
<1>7. to[1] = Len(handed') /\ to[n + 2] = Len(arrived')
  <2>1. 1 \in 1 .. n + 1
    BY <1>1
  <2>2. QED
    BY <1>1, <1>3, <1>4, <2>1 DEF Placed
<1>8. ASSUME NEW i \in 1 .. n + 1
      PROVE  /\ to[i + 1] = to[i] + Held(queue'[i])
             /\ queue'[i] # <<Empty>> =>
                  \A j \in 1 .. Len(queue'[i]) : queue'[i][j] = arrived'[to[i] + j]
  <2>1. CASE i = n + 1
    <3>1. i + 1 = n + 2 /\ n + 1 \in 1 .. n + 1 /\ l + 0 = l
      BY <1>1, <2>1
    <3>2. to[i] = l /\ to[i + 1] = l
      BY <1>3, <1>4, <2>1, <3>1 DEF Placed
    <3>3. Held(queue'[i]) = 0 /\ queue'[i] = <<Empty>>
      BY <1>2, <2>1 DEF Held
    <3>4. QED
      BY <3>1, <3>2, <3>3, Zenon
  <2>2. CASE i \in 1 .. n
    <3>1. queue'[i] = queue[i] /\ to[i] = at[i] /\ to[i + 1] = at[i + 1]
      <4>1. i + 1 \in 1 .. n + 1
        BY <1>1, <2>2
      <4>2. QED
        BY <1>2, <1>4, <2>2, <4>1
    <3>2. QED
      BY <1>1, <1>3, <2>2, <3>1, Zenon DEF Placed
  <2>3. QED
    BY <1>n, <2>1, <2>2, Zenon
<1>9. ASSUME NEW i \in 1 .. n + 2
      PROVE  /\ to[i] <= l
             /\ to[i] < l => \E k \in i .. n + 1 : queue'[k] # <<Empty>>
  <2>1. CASE i = n + 2
    BY <1>1, <1>4, <2>1
  <2>2. CASE i \in 1 .. n + 1
    <3>1. to[i] = at[i] /\ at[i] <= l
      BY <1>3, <1>4, <2>2 DEF Placed
    <3>2. ASSUME at[i] < l
          PROVE  \E k \in i .. n + 1 : queue'[k] # <<Empty>>
      <4>1. PICK k \in i .. n : queue[k] # <<Empty>>
        BY <1>3, <2>2, <3>2 DEF Placed
      <4>2. k \in 1 .. n /\ k \in i .. n + 1
        BY <1>1, <2>2
      <4>3. QED
        BY <1>2, <4>1, <4>2
    <3>3. QED
      BY <3>1, <3>2
  <2>3. i = n + 2 \/ i \in 1 .. n + 1
    BY <1>1
  <2>4. QED
    BY <2>1, <2>2, <2>3, Zenon
<1>10. Placed(to)' /\ to \in Offsets'
  <2>1. Len(queue') + 1 = n + 2
    BY <1>1, <1>2
  <2>2. QED
    BY <1>1, <1>2, <1>4, <1>7, <1>8, <1>9, <2>1 DEF Placed, Offsets
<1>11. QED
  BY <1>5, <1>6, <1>10 DEF RxInv

(* What recv_batch makes of the first message are the next datagrams. *)
LEMMA FirstPieces ==
  ASSUME RxTyped, NEW at \in Offsets, Placed(at), Len(queue) > 0
  PROVE  LET p == Pieced(queue[1])
         IN  /\ p \in Seq(SUBSET (Nat \X Nat)) /\ Len(p) = Held(queue[1])
             /\ \A j \in 1 .. Len(p) : p[j] = {arrived[at[1] + j]}
<1> DEFINE m == queue[1]
<1>1. 1 \in 1 .. Len(queue) /\ (m = <<Empty>> \/ Whole(m))
  <2>1. queue \in Seq(Seq(Nat \X Nat))
    BY Zenon DEF RxTyped
  <2>2. Len(queue) \in Nat
    BY <2>1
  <2>3. 1 \in 1 .. Len(queue)
    BY <2>2
  <2>4. QED
    BY <2>3, Zenon DEF RxTyped
<1>2. CASE m = <<Empty>>
  <2>1. Pieced(m) = <<>> /\ Held(m) = 0
    BY <1>2, PiecedEmpty DEF Held
  <2>2. QED
    BY <2>1
<1>3. CASE Whole(m) /\ m # <<Empty>>
  <2>1. Pieced(m) = [j \in 1 .. Len(m) |-> {m[j]}] /\ Held(m) = Len(m)
    BY <1>3, PiecedWhole DEF Held
  <2>2. m \in Seq(Nat \X Nat) /\ Len(m) \in Nat
    BY <1>3 DEF Whole
  <2>3. Pieced(m) \in Seq(SUBSET (Nat \X Nat)) /\ Len(Pieced(m)) = Len(m)
    BY <2>1, <2>2
  <2>4. \A j \in 1 .. Len(m) : Pieced(m)[j] = {m[j]} /\ m[j] = arrived[at[1] + j]
    BY <1>1, <1>3, <2>1 DEF Placed
  <2>5. QED
    BY <2>1, <2>3, <2>4
<1>4. QED
  BY <1>1, <1>2, <1>3

(* recv_batch hands on the first message. *)
LEMMA HandOnKeeps ==
  ASSUME RxInv, HandOn
  PROVE  RxInv'
<1> DEFINE n == Len(queue)
           l == Len(arrived)
           h == Len(handed)
<1>1. /\ RxTyped /\ HandedInOrder /\ n \in Nat \ {0} /\ l \in Nat /\ h \in Nat
      /\ arrived' = arrived /\ inBufs \in 1 .. n /\ inBufs' = inBufs - 1
      /\ arrived \in Seq(Nat \X Nat) /\ handed \in Seq(SUBSET (Nat \X Nat))
  <2>1. RxTyped /\ HandedInOrder
    BY DEF RxInv
  <2>2. /\ arrived \in Seq(Nat \X Nat) /\ handed \in Seq(SUBSET (Nat \X Nat))
        /\ queue \in Seq(Seq(Nat \X Nat)) /\ inBufs \in 0 .. Len(queue)
    BY <2>1, Zenon DEF RxTyped
  <2>3. inBufs > 0 /\ inBufs' = inBufs - 1 /\ arrived' = arrived
    BY Zenon DEF HandOn
  <2>4. n \in Nat /\ l \in Nat /\ h \in Nat /\ inBufs \in 0 .. n
    BY <2>2
  <2> HIDE DEF n, l, h
  <2>5. n \in Nat \ {0} /\ inBufs \in 1 .. n
    BY <2>3, <2>4
  <2>6. QED
    BY <2>1, <2>2, <2>3, <2>4, <2>5, Zenon
<1>n. n \in Nat \ {0}
  BY <1>1
<1>2. /\ Len(queue') = n - 1 /\ queue' \in Seq(Seq(Nat \X Nat))
      /\ \A i \in 1 .. n - 1 : queue'[i] = queue[i + 1]
  BY <1>1 DEF RxTyped, HandOn
<1>3. PICK at \in Offsets : Placed(at)
  BY DEF RxInv
<1>4. PICK p \in Seq(SUBSET (Nat \X Nat)) :
        /\ Len(p) = Held(queue[1]) /\ handed' = handed \o p
        /\ \A j \in 1 .. Len(p) : p[j] = {arrived[at[1] + j]}
  <2>1. handed' = handed \o Pieced(queue[1])
    BY <1>1 DEF HandOn, RxTyped
  <2>2. Len(queue) > 0
    BY <1>n
  <2>3. QED
    BY <1>1, <1>3, <2>1, <2>2, FirstPieces
<1>5. /\ handed' \in Seq(SUBSET (Nat \X Nat)) /\ Len(handed') = h + Len(p) /\ Len(p) \in Nat
      /\ \A i \in 1 .. h : handed'[i] = handed[i]
      /\ \A i \in h + 1 .. h + Len(p) : handed'[i] = p[i - h]
  BY <1>1, <1>4
<1>6. at[1] = h /\ at[2] = h + Len(p)
  <2>1. 1 \in 1 .. n /\ 1 + 1 = 2
    BY <1>n
  <2>2. QED
    BY <1>3, <1>4, <2>1 DEF Placed
<1>7. PICK to \in [1 .. n -> Nat] : \A i \in 1 .. n : to[i] = at[i + 1]
  <2>1. \A i \in 1 .. n : i + 1 \in 1 .. n + 1
    BY <1>n
  <2>2. \A i \in 1 .. n : at[i + 1] \in Nat
    BY <1>3, <2>1 DEF Offsets
  <2>3. [i \in 1 .. n |-> at[i + 1]] \in [1 .. n -> Nat]
    BY <2>2
  <2>4. QED
    BY <2>3
<1>s. \A i \in 1 .. n - 1 : i \in 1 .. n /\ i + 1 \in 1 .. n
  BY <1>n
<1>8. RxTyped'
  <2>1. inBufs' \in 0 .. n - 1
    BY <1>1
  <2>2. \A i \in 1 .. n - 1 : queue'[i] = <<Empty>> \/ Whole(queue'[i])
    BY <1>1, <1>2, <1>s, Zenon DEF RxTyped
  <2>3. QED
    BY <1>1, <1>2, <1>5, <2>1, <2>2, Zenon DEF RxTyped
<1>9. HandedInOrder'
  <2> SUFFICES ASSUME NEW i \in 1 .. h + Len(p)
               PROVE  handed'[i] = {arrived[i]}
    BY <1>1, <1>5 DEF HandedInOrder
  <2>1. CASE i \in 1 .. h
    BY <1>1, <1>5, <2>1 DEF HandedInOrder
  <2>2. CASE i \in h + 1 .. h + Len(p)
    <3>1. i - h \in 1 .. Len(p) /\ h + (i - h) = i
      BY <1>1, <1>5, <2>2
    <3>2. handed'[i] = p[i - h]
      BY <1>5, <2>2
    <3>3. QED
      BY <1>4, <1>6, <3>1, <3>2
  <2>3. i \in 1 .. h \/ i \in h + 1 .. h + Len(p)
    BY <1>1, <1>5
  <2>4. QED
    BY <2>1, <2>2, <2>3
<1>10. to[1] = Len(handed') /\ to[n] = Len(arrived')
  <2>1. 1 \in 1 .. n /\ n \in 1 .. n /\ 1 + 1 = 2
    BY <1>n
  <2>2. QED
    BY <1>1, <1>3, <1>5, <1>6, <1>7, <2>1 DEF Placed
<1>11. ASSUME NEW i \in 1 .. n - 1
       PROVE  /\ to[i + 1] = to[i] + Held(queue'[i])
              /\ queue'[i] # <<Empty>> =>
                   \A j \in 1 .. Len(queue'[i]) : queue'[i][j] = arrived'[to[i] + j]
  <2>1. /\ queue'[i] = queue[i + 1] /\ to[i] = at[i + 1] /\ to[i + 1] = at[(i + 1) + 1]
        /\ i + 1 \in 1 .. n
    BY <1>2, <1>7, <1>s
  <2>2. at[(i + 1) + 1] = at[i + 1] + Held(queue[i + 1])
    BY <1>3, <2>1 DEF Placed
  <2>3. queue[i + 1] # <<Empty>> =>
          \A j \in 1 .. Len(queue[i + 1]) : queue[i + 1][j] = arrived[at[i + 1] + j]
    BY <1>3, <2>1 DEF Placed
  <2>4. QED
    BY <1>1, <2>1, <2>2, <2>3
<1>12. ASSUME NEW i \in 1 .. n
       PROVE  /\ to[i] <= l
              /\ to[i] < l => \E k \in i .. n - 1 : queue'[k] # <<Empty>>
  <2>1. to[i] = at[i + 1] /\ i + 1 \in 1 .. n + 1
    <3>1. i + 1 \in 1 .. n + 1
      BY <1>n
    <3>2. QED
      BY <1>7, <3>1
  <2>2. at[i + 1] <= l
    BY <1>3, <2>1 DEF Placed
  <2>3. ASSUME at[i + 1] < l
        PROVE  \E k \in i .. n - 1 : queue'[k] # <<Empty>>
    <3>1. PICK k \in i + 1 .. n : queue[k] # <<Empty>>
      BY <1>3, <2>1, <2>3 DEF Placed
    <3>2. k - 1 \in i .. n - 1 /\ k - 1 \in 1 .. n - 1 /\ (k - 1) + 1 = k
      BY <1>n
    <3>3. queue'[k - 1] = queue[k]
      BY <1>2, <3>2
    <3>4. QED
      BY <3>1, <3>2, <3>3
  <2>4. QED
    BY <2>1, <2>2, <2>3
<1>13. Placed(to)' /\ to \in Offsets'
  <2>1. Len(queue') + 1 = n
    BY <1>n, <1>2
  <2>2. QED
    BY <1>1, <1>2, <1>7, <1>10, <1>11, <1>12, <2>1 DEF Placed, Offsets
<1>14. QED
  BY <1>8, <1>9, <1>13 DEF RxInv

-----------------------------------------------------------------------------
(* Sender and receiver together.                                           *)

PathInv == SendInv /\ RxInv

LEMMA PathInitial == PathInit => PathInv
<1> SUFFICES ASSUME PathInit PROVE PathInv
  OBVIOUS
<1>1. SendInv
  BY SendInit DEF PathInit
<1>2. /\ Len(queue) = 0 /\ Len(handed) = 0 /\ Len(arrived) = 0 /\ 1 .. 0 = {}
      /\ 0 + 1 = 1 /\ 1 .. 1 = {1}
  BY DEF PathInit
<1>3. RxTyped /\ HandedInOrder
  BY <1>2 DEF PathInit, RxTyped, HandedInOrder
<1>4. [i \in 1 .. 1 |-> 0] \in Offsets /\ Placed([i \in 1 .. 1 |-> 0])
  BY <1>2 DEF Offsets, Placed
<1>5. QED
  BY <1>1, <1>3, <1>4 DEF PathInv, RxInv

(* The datagrams on the wire are not empty. *)
LEMMA WireDatagram ==
  ASSUME SendInv, NEW k \in 1 .. Len(wire)
  PROVE  wire[k] \in Nat \X Nat /\ Size(wire[k]) \in Nat \ {0}
<1>1. wire[k] \in Nat \X Nat /\ wire[k][1] < wire[k][2]
  BY DEF SendInv, TypeOK, Unbroken
<1>2. QED
  BY <1>1 DEF Size

(* A step that neither receives nor hands on. *)
LEMMA RxSame ==
  ASSUME RxInv, UNCHANGED <<arrived, handed, queue>>, inBufs' \in 0 .. Len(queue)
  PROVE  RxInv'
<1>1. RxTyped' /\ HandedInOrder'
  BY DEF RxInv, RxTyped, HandedInOrder
<1>2. PICK at \in Offsets : Placed(at)
  BY DEF RxInv
<1>3. at \in Offsets' /\ Placed(at)'
  BY <1>2, Zenon DEF Offsets, Placed
<1>4. QED
  BY <1>1, <1>3 DEF RxInv

LEMMA PathStep == PathInv /\ [PathNext]_pathvars => PathInv'
<1> SUFFICES ASSUME PathInv, [PathNext]_pathvars PROVE PathInv'
  OBVIOUS
<1> USE DEF PathInv
<1>0. inBufs \in 0 .. Len(queue)
  BY DEF RxInv, RxTyped
<1>1. ASSUME UNCHANGED rxvars PROVE RxInv'
  BY <1>0, <1>1, RxSame DEF rxvars
<1>2. ASSUME UNCHANGED vars PROVE SendInv'
  BY <1>2, SendStep
<1>3. CASE Next /\ UNCHANGED rxvars
  BY <1>1, <1>3, SendStep
<1>4. ASSUME NEW k \in 1 .. Len(wire), Arrive(k) PROVE PathInv'
  <2>1. wire[k] \in Nat \X Nat /\ Size(wire[k]) \in Nat \ {0}
    BY WireDatagram
  <2>2. /\ UNCHANGED vars /\ handed' = handed /\ inBufs' = inBufs
        /\ arrived' = Append(arrived, wire[k])
    BY <1>4 DEF Arrive
  <2>3. CASE queue' = Append(queue, <<wire[k]>>)
    BY <1>2, <2>1, <2>2, <2>3, ArriveAlone
  <2>4. CASE /\ inBufs < Len(queue) /\ MayJoin(queue[Len(queue)], wire[k])
             /\ queue' = [queue EXCEPT ![Len(queue)] = Append(@, wire[k])]
    BY <1>2, <2>1, <2>2, <2>4, ArriveJoined
  <2>5. QED
    BY <1>4, <2>3, <2>4 DEF Arrive
<1>5. CASE ArriveEmpty
  BY <1>2, <1>5, ArriveEmptyKeeps DEF ArriveEmpty
<1>6. ASSUME NEW n \in 1 .. RecvMsgs, RecvBatch(n) PROVE PathInv'
  <2>1. inBufs' \in 0 .. Len(queue)
    BY <1>6, UdpPathAssumption DEF RecvBatch, RxInv, RxTyped
  <2>2. QED
    BY <1>2, <1>6, <2>1, RxSame DEF RecvBatch
<1>7. CASE HandOn
  BY <1>2, <1>7, HandOnKeeps DEF HandOn
<1>8. CASE RecvFails
  BY <1>0, <1>2, <1>8, RxSame DEF RecvFails
<1>9. CASE UNCHANGED pathvars
  BY <1>1, <1>2, <1>9 DEF pathvars, rxvars
<1>10. QED
  BY <1>3, <1>4, <1>5, <1>6, <1>7, <1>8, <1>9 DEF PathNext

(* The receiving side leaves the sender alone: every result about UdpSend  *)
(* holds of the whole path.                                                *)
THEOREM PathSends == PathSpec => Spec
<1>1. PathInit => Init
  BY DEF PathInit
<1>2. [PathNext]_pathvars => [Next]_vars
  BY DEF PathNext, pathvars, Arrive, ArriveEmpty, RecvBatch, HandOn, RecvFails
<1>3. QED
  BY <1>1, <1>2, PTL DEF PathSpec, Spec

(* However the socket coalesces what arrives, recv_batch gives the closure *)
(* the datagrams that arrived, whole, in the order of arrival and each     *)
(* once, and all of them once it has handed on every message with bytes.   *)
THEOREM PathArrivalKept == PathSpec => []ArrivalKept
<1>1. ASSUME PathInv PROVE ArrivalKept
  <2>1. RxTyped /\ HandedInOrder
    BY <1>1 DEF PathInv, RxInv
  <2>2. PICK at \in Offsets : Placed(at)
    BY <1>1 DEF PathInv, RxInv
  <2>3. 1 \in 1 .. Len(queue) + 1 /\ Len(handed) \in Nat /\ Len(arrived) \in Nat
    BY <2>1 DEF RxTyped
  <2>4. Len(handed) <= Len(arrived)
    BY <2>2, <2>3 DEF Placed
  <2>5. ASSUME \A i \in 1 .. Len(queue) : MsgLen(queue[i]) = 0
        PROVE  Len(handed) = Len(arrived)
    <3>1. \A i \in 1 .. Len(queue) : queue[i] = <<Empty>>
      BY <2>1, <2>5, WholeSizes DEF RxTyped
    <3>2. ~(at[1] < Len(arrived))
      BY <2>2, <2>3, <3>1, Zenon DEF Placed
    <3>3. at[1] = Len(handed)
      BY <2>2, Zenon DEF Placed
    <3>4. QED
      BY <2>3, <2>4, <3>2, <3>3
  <2>6. QED
    BY <2>1, <2>4, <2>5 DEF ArrivalKept, HandedInOrder
<1>2. QED
  BY <1>1, PathInitial, PathStep, PTL DEF PathSpec

=============================================================================
