------------------------- MODULE SealedPlaneProofs --------------------------
(***************************************************************************)
(* Proofs about ReplayWindow and SealedPlane, for every window width W and *)
(* every bound on the sequence numbers.                                    *)
(*                                                                         *)
(* First what the methods of the replay window compute: lemmas about Slot, *)
(* ClearRangeForAdvance and Commit, and the relation Exact(w, S) between a *)
(* window w and the set S of everything committed to it, which Commit      *)
(* preserves and which fixes the answer of WouldAccept.  Then the          *)
(* inductive invariant SealedInv of SealedPlane: the window remembers      *)
(* exactly the accepted numbers, and these are finitely many numbers the   *)
(* sealer put on the wire.                                                 *)
(***************************************************************************)
EXTENDS SealedPlane, FiniteSetTheorems, TLAPS

(* Window w remembers exactly the numbers S as far as it still matters:    *)
(* its highest number is the largest of S, and for each number less than W *)
(* behind it the bit of the number's slot tells whether it is in S.        *)
Exact(w, S) ==
  /\ w.primed <=> S # {}
  /\ w.primed => /\ w.highest \in S
                 /\ \A t \in S : t <= w.highest
                 /\ \A s \in Nat : s <= w.highest /\ w.highest - s < W
                                    => (IsSet(w, s) <=> s \in S)

-----------------------------------------------------------------------------
(* Multiplication by a positive number keeps distinct integers at least    *)
(* that number apart.                                                      *)
LEMMA MulGap ==
  ASSUME NEW m \in Nat \ {0}, NEW p \in Int, NEW q \in Int, p < q
  PROVE  m * q >= m * p + m
<1>1. q - p - 1 \in Nat
  OBVIOUS
<1>2. m * (q - p - 1) >= 0
  BY <1>1
<1>3. m * (q - p - 1) = m * q - m * p - m
  OBVIOUS
<1> QED
  BY <1>2, <1>3

(* ReplayWindow::slot yields a position of the bitmap. *)
LEMMA SlotType ==
  ASSUME NEW a \in Nat
  PROVE  Slot(a) \in Slots
BY WAssumption DEF Slot, Slots

(* Two numbers less than W apart share a slot only when they are equal:    *)
(* inside one window the circular bitmap never aliases.                    *)
LEMMA SlotInjective ==
  ASSUME NEW a \in Nat, NEW b \in Nat,
         a - b < W, b - a < W, Slot(a) = Slot(b)
  PROVE  a = b
<1>1. PICK p \in Int : a = W * p + (a % W)
  <2>1. a \div W \in Int /\ a = W * (a \div W) + (a % W)
    BY WAssumption
  <2> QED
    BY <2>1
<1>2. PICK q \in Int : b = W * q + (b % W)
  <2>1. b \div W \in Int /\ b = W * (b \div W) + (b % W)
    BY WAssumption
  <2> QED
    BY <2>1
<1>3. a % W = b % W /\ a % W \in Int
  BY WAssumption DEF Slot
<1>4. W * p \in Int /\ W * q \in Int
  BY WAssumption
<1>5. ~(p < q)
  BY <1>1, <1>2, <1>3, <1>4, MulGap, WAssumption
<1>6. ~(q < p)
  BY <1>1, <1>2, <1>3, <1>4, MulGap, WAssumption
<1>7. p = q
  BY <1>5, <1>6
<1> QED
  BY <1>1, <1>2, <1>3, <1>7

-----------------------------------------------------------------------------
(* After clear_range_for_advance, of the numbers less than W behind the    *)
(* new highest one, those that were newly covered have a clear bit and the *)
(* others keep theirs.                                                     *)
LEMMA ClearRange ==
  ASSUME NEW bitmap \in SUBSET Slots, NEW h \in Nat, NEW n \in Nat,
         n <= h + 1, NEW s \in Nat, s <= h, h - s < W
  PROVE  LET cleared == ClearRangeForAdvance(bitmap, h, MinOf(n, W))
         IN  Slot(s) \in cleared <=> Slot(s) \in bitmap /\ s + n <= h
<1> DEFINE m == MinOf(n, W)
           cleared == ClearRangeForAdvance(bitmap, h, m)
<1>1. CASE n >= W
  <2>1. cleared = {}
    BY <1>1, WAssumption DEF ClearRangeForAdvance, MinOf
  <2>2. ~(s + n <= h)
    BY <1>1, WAssumption
  <2> QED
    BY <2>1, <2>2
<1>2. CASE n < W
  <2>1. cleared = bitmap \ {Slot(c) : c \in (h + 1 - n) .. h}
    BY <1>2, WAssumption DEF ClearRangeForAdvance, MinOf
  <2>2. CASE s + n <= h
    <3>1. ASSUME NEW c \in (h + 1 - n) .. h
          PROVE  Slot(c) # Slot(s)
      <4>1. c \in Nat /\ c # s /\ c - s < W /\ s - c < W
        BY <2>2, <1>2, WAssumption
      <4> QED
        BY <4>1, SlotInjective
    <3> QED
      BY <2>1, <2>2, <3>1
  <2>3. CASE ~(s + n <= h)
    <3>1. s \in (h + 1 - n) .. h
      BY <2>3
    <3> QED
      BY <2>1, <2>3, <3>1
  <2> QED
    BY <2>2, <2>3
<1> QED
  BY <1>1, <1>2, WAssumption

(* commit keeps the struct well typed. *)
LEMMA CommitType ==
  ASSUME NEW w \in Window, NEW n \in Nat
  PROVE  Commit(w, n) \in Window
<1>1. Slot(n) \in Slots
  BY SlotType
<1>2. \A h, m : ClearRangeForAdvance(w.bitmap, h, m) \in SUBSET Slots
  BY DEF ClearRangeForAdvance, Window
<1> QED
  BY <1>1, <1>2 DEF Commit, Window

(* A fresh window remembers the empty set. *)
LEMMA NewExact == NewWindow \in Window /\ Exact(NewWindow, {})
BY DEF NewWindow, Window, Exact

(* Whatever commit is given - a first number, one that moves the window by *)
(* any amount, or one that arrives late inside it - the window remembers   *)
(* what it remembered before and that number.                              *)
LEMMA CommitExact ==
  ASSUME NEW w \in Window, NEW S \in SUBSET Nat, Exact(w, S),
         NEW n \in Nat, WouldAccept(w, n)
  PROVE  Exact(Commit(w, n), S \cup {n})
<1> DEFINE v == Commit(w, n)
           T == S \cup {n}
<1> SUFFICES Exact(v, T)
  OBVIOUS
<1> w.highest \in Nat /\ w.bitmap \in SUBSET Slots /\ w.primed \in BOOLEAN
  BY DEF Window
<1>1. v.primed /\ v.primed = TRUE /\ T # {} /\ n \in T
  BY DEF Commit
<1>2. CASE ~w.primed \/ n > w.highest
  <2> DEFINE a == IF w.primed THEN n - w.highest ELSE n + 1
  <2>1. v.highest = n /\ v.bitmap = ClearRangeForAdvance(w.bitmap, n, MinOf(a, W)) \cup {Slot(n)}
    BY <1>2 DEF Commit
  <2>2. \A t \in T : t <= n
    BY <1>2 DEF Exact
  <2>3. a \in Nat /\ a <= n + 1
    BY <1>2
  <2>4. ASSUME NEW s \in Nat, s <= n, n - s < W
        PROVE  IsSet(v, s) <=> s \in T
    <3>1. Slot(s) = Slot(n) <=> s = n
      BY <2>4, SlotInjective, WAssumption
    <3>2. Slot(s) \in ClearRangeForAdvance(w.bitmap, n, MinOf(a, W))
            <=> Slot(s) \in w.bitmap /\ s + a <= n
      BY <2>3, <2>4, ClearRange
    <3>3. CASE s + a <= n
      <4>1. w.primed /\ s <= w.highest /\ w.highest - s < W
        BY <3>3, <2>4, <1>2, WAssumption
      <4>2. Slot(s) \in w.bitmap <=> s \in S
        BY <4>1 DEF Exact, IsSet
      <4> QED
        BY <3>1, <3>2, <3>3, <4>2, <2>1 DEF IsSet
    <3>4. CASE ~(s + a <= n)
      <4>1. s \notin S
        BY <3>4, <1>2 DEF Exact
      <4> QED
        BY <3>1, <3>2, <3>4, <4>1, <2>1 DEF IsSet
    <3> QED
      BY <3>3, <3>4, <2>3
  <2> HIDE DEF v, T
  <2> QED
    BY <1>1, <2>1, <2>2, <2>4 DEF Exact
<1>3. CASE w.primed /\ ~(n > w.highest)
  <2>1. v.highest = w.highest /\ v.bitmap = w.bitmap \cup {Slot(n)}
    BY <1>3 DEF Commit
  <2>2. w.highest \in T /\ \A t \in T : t <= w.highest
    <3>1. w.highest \in S /\ \A t \in S : t <= w.highest
      BY <1>3 DEF Exact
    <3>2. n <= w.highest
      BY <1>3
    <3> QED
      BY <3>1, <3>2
  <2>3. w.highest - n < W
    BY <1>3 DEF WouldAccept
  <2>4. ASSUME NEW s \in Nat, s <= w.highest, w.highest - s < W
        PROVE  IsSet(v, s) <=> s \in T
    <3>1. Slot(s) = Slot(n) <=> s = n
      BY <2>3, <2>4, <1>3, SlotInjective, WAssumption
    <3>2. Slot(s) \in w.bitmap <=> s \in S
      BY <2>4, <1>3 DEF Exact, IsSet
    <3> QED
      BY <3>1, <3>2, <2>1 DEF IsSet
  <2> HIDE DEF v, T
  <2> QED
    BY <1>1, <2>1, <2>2, <2>4 DEF Exact
<1> QED
  BY <1>2, <1>3

(* What would_accept answers is what a memory of every committed number    *)
(* would answer: not seen before, and less than W behind the newest.       *)
LEMMA ExactAnswer ==
  ASSUME NEW w \in Window, NEW S \in SUBSET Nat, Exact(w, S), NEW n \in Nat
  PROVE  WouldAccept(w, n) <=> /\ n \notin S
                               /\ \A t \in S : t - n < W
<1> w.highest \in Nat /\ w.primed \in BOOLEAN
  BY DEF Window
<1>1. CASE ~w.primed
  BY <1>1 DEF Exact, WouldAccept
<1>2. CASE w.primed /\ n > w.highest
  BY <1>2, WAssumption DEF Exact, WouldAccept
<1>3. CASE w.primed /\ ~(n > w.highest)
  <2>1. w.highest \in S /\ \A t \in S : t <= w.highest /\ t \in Nat
    BY <1>3 DEF Exact
  <2>2. (\A t \in S : t - n < W) <=> w.highest - n < W
    BY <2>1, WAssumption
  <2>3. w.highest - n < W => (IsSet(w, n) <=> n \in S)
    BY <1>3 DEF Exact
  <2> QED
    BY <1>3, <2>2, <2>3 DEF WouldAccept
<1> QED
  BY <1>1, <1>2, <1>3

-----------------------------------------------------------------------------
(* The bookkeeping part: who numbered what, and how much was counted. *)
CountInv == /\ wire \subseteq 0 .. seq - 1
            /\ accepted \subseteq wire
            /\ IsFiniteSet(accepted)
            /\ pkts = Cardinality(accepted)

SealedInv == TypeOK /\ CountInv /\ Exact(window, accepted)

-----------------------------------------------------------------------------
(* open_datagram returns a datagram exactly when it is one this session    *)
(* sealed and the window takes its number; otherwise it changes nothing.   *)
LEMMA OpenDatagramCases ==
  ASSUME NEW w, NEW d \in Datagram
  PROVE  LET r == OpenDatagram(w, d)
             takes == d.wellFormed /\ d.ours /\ d.auth /\ WouldAccept(w, d.seq)
         IN  /\ takes  => r.ok = TRUE  /\ r.window = Commit(w, d.seq)
             /\ ~takes => r.ok = FALSE /\ r.window = w
BY DEF OpenDatagram, OpenInPlace

(* A foreign datagram is refused and leaves no trace. *)
LEMMA ForeignRefused ==
  ASSUME NEW d \in Foreign, Open(d)
  PROVE  UNCHANGED vars
BY OpenDatagramCases DEF Open, Foreign, vars

(* What opening a datagram of this session does: it is taken, committed    *)
(* and counted, or nothing changes at all.                                 *)
LEMMA SealedOpened ==
  ASSUME NEW s \in Seqs, Open(Sealed(s))
  PROVE  /\ UNCHANGED <<seq, wire>>
         /\ \/ /\ WouldAccept(window, s)
               /\ window' = Commit(window, s)
               /\ pkts' = pkts + 1
               /\ accepted' = accepted \cup {s}
            \/ /\ ~WouldAccept(window, s)
               /\ UNCHANGED vars
<1>1. Sealed(s) \in Datagram /\ Sealed(s).seq = s
  BY DEF Sealed, Datagram
<1>2. Sealed(s).wellFormed /\ Sealed(s).ours /\ Sealed(s).auth
  BY DEF Sealed
<1> QED
  BY <1>1, <1>2, OpenDatagramCases DEF Open, vars

(* SealedInv holds initially. *)
LEMMA InitSealedInv == Init => SealedInv
BY NewExact, FS_EmptySet, MaxSeqAssumption
   DEF Init, SealedInv, TypeOK, CountInv, Seqs

(* SealedInv is inductive. *)
LEMMA NextSealedInv ==
  ASSUME SealedInv, [Next]_vars
  PROVE  SealedInv'
<1> USE DEF SealedInv
<1>1. CASE SealDatagram
  BY <1>1, MaxSeqAssumption DEF SealDatagram, TypeOK, CountInv, Exact, Seqs
<1>2. CASE BurnSeq
  BY <1>2, MaxSeqAssumption DEF BurnSeq, TypeOK, CountInv, Exact, Seqs
<1>3. ASSUME NEW s \in wire, Open(Sealed(s))
      PROVE  SealedInv'
  <2>1. s \in Seqs /\ s \in Nat /\ accepted \in SUBSET Nat
    BY MaxSeqAssumption DEF TypeOK, Seqs
  <2>2. CASE UNCHANGED vars
    BY <2>2 DEF vars, TypeOK, CountInv, Exact, IsSet
  <2>3. CASE /\ WouldAccept(window, s)
             /\ window' = Commit(window, s)
             /\ pkts' = pkts + 1
             /\ accepted' = accepted \cup {s}
             /\ UNCHANGED <<seq, wire>>
    <3>1. s \notin accepted
      BY <2>1, <2>3, ExactAnswer DEF TypeOK
    <3>2. IsFiniteSet(accepted') /\ Cardinality(accepted') = Cardinality(accepted) + 1
      BY <2>3, <3>1, FS_AddElement DEF CountInv
    <3>3. CountInv'
      BY <2>3, <3>2, <1>3 DEF CountInv
    <3>4. window' \in Window
      BY <2>1, <2>3, CommitType DEF TypeOK
    <3>5. TypeOK'
      BY <2>1, <2>3, <3>4 DEF TypeOK
    <3>6. Exact(window, accepted)'
      BY <2>1, <2>3, CommitExact DEF TypeOK
    <3> QED
      BY <3>3, <3>5, <3>6
  <2> QED
    BY <1>3, <2>1, <2>2, <2>3, SealedOpened
<1>4. ASSUME NEW d \in Foreign, Open(d)
      PROVE  SealedInv'
  BY <1>4, ForeignRefused DEF vars, TypeOK, CountInv, Exact, IsSet
<1>5. CASE UNCHANGED vars
  BY <1>5 DEF vars, TypeOK, CountInv, Exact, IsSet
<1> QED
  BY <1>1, <1>2, <1>3, <1>4, <1>5 DEF Next, OpenSealed, OpenForeign

(* SealedInv holds in every reachable state. *)
LEMMA SealedInvariant == Spec => []SealedInv
BY InitSealedInv, NextSealedInv, PTL DEF Spec

-----------------------------------------------------------------------------
(* Type correctness. *)
THEOREM SealedTypeOK == Spec => []TypeOK
BY SealedInvariant, PTL DEF SealedInv

(* The bitmap never gives a wrong answer: would_accept agrees with an      *)
(* unbounded memory of all accepted datagrams, for every window width.     *)
THEOREM SealedWindowExact == Spec => []WindowExact
<1>1. SealedInv => WindowExact
  <2> SUFFICES ASSUME SealedInv, NEW s \in Seqs
               PROVE  WouldAccept(window, s) <=> /\ s \notin accepted
                                                 /\ \A t \in accepted : t - s < W
    BY DEF WindowExact
  <2>1. s \in Nat /\ accepted \in SUBSET Nat /\ window \in Window
    BY MaxSeqAssumption DEF SealedInv, TypeOK, Seqs
  <2> QED
    BY <2>1, ExactAnswer DEF SealedInv
<1> QED
  BY <1>1, SealedInvariant, PTL

(* Each datagram of the session is opened at most once, and no other ever. *)
THEOREM SealedOpenedOnce == Spec => []OpenedOnce
<1>1. SealedInv => OpenedOnce
  BY DEF SealedInv, CountInv, OpenedOnce
<1> QED
  BY <1>1, SealedInvariant, PTL

(* Everything accepted is below the span, and the span is at most what the *)
(* sealer numbered.                                                        *)
LEMMA SpanCovers ==
  ASSUME SealedInv
  PROVE  /\ SeqSpan \in Nat /\ SeqSpan <= seq
         /\ accepted \subseteq 0 .. SeqSpan - 1
<1> window.highest \in Nat /\ window.primed \in BOOLEAN /\ seq \in Nat
  BY MaxSeqAssumption DEF SealedInv, TypeOK, Window
<1>1. CASE ~window.primed
  BY <1>1 DEF SealedInv, Exact, SeqSpan
<1>2. CASE window.primed
  <2>1. window.highest \in 0 .. seq - 1
    BY <1>2 DEF SealedInv, Exact, CountInv
  <2>2. accepted \subseteq 0 .. window.highest
    BY <1>2, MaxSeqAssumption DEF SealedInv, Exact, TypeOK, Seqs
  <2> QED
    BY <1>2, <2>1, <2>2 DEF SeqSpan
<1> QED
  BY <1>1, <1>2

(* The receiver's two counters tell the sender exactly how many datagrams  *)
(* below the span were not opened, and the span is no more than the sender *)
(* numbered.                                                               *)
THEOREM SealedLossWellDefined == Spec => []LossWellDefined
<1>1. ASSUME SealedInv
      PROVE  LossWellDefined
  <2> DEFINE S == 0 .. SeqSpan - 1
  <2>1. SeqSpan \in Nat /\ SeqSpan <= seq /\ accepted \subseteq S
    BY <1>1, SpanCovers
  <2>2. IsFiniteSet(S) /\ Cardinality(S) = SeqSpan
    <3>1. PICK b \in Int : b = SeqSpan - 1
      BY <2>1
    <3>2. IsFiniteSet(0 .. b) /\ Cardinality(0 .. b) = IF 0 > b THEN 0 ELSE b - 0 + 1
      BY FS_Interval
    <3> QED
      BY <2>1, <3>1, <3>2
  <2>3. S \cap accepted = accepted
    BY <2>1
  <2>4. Cardinality(S \ accepted) = Cardinality(S) - Cardinality(S \cap accepted)
    BY <2>2, FS_Difference
  <2>5. Cardinality(S \ accepted) = SeqSpan - pkts
    BY <1>1, <2>2, <2>3, <2>4 DEF SealedInv, CountInv
  <2> QED
    BY <2>1, <2>5 DEF LossWellDefined
<1> QED
  BY <1>1, SealedInvariant, PTL

(* A step changes the window only by opening a datagram of the session,    *)
(* and the span the receiver reports never shrinks.                        *)
THEOREM SealedOnlyAuthenticMoves == Spec => OnlyAuthenticMoves
<1>1. ASSUME SealedInv, [Next]_vars
      PROVE  [/\ SeqSpan' >= SeqSpan
              /\ window' # window => pkts' = pkts + 1]_vars
  <2> SUFFICES ASSUME Next
               PROVE  /\ SeqSpan' >= SeqSpan
                      /\ window' # window => pkts' = pkts + 1
    BY <1>1
  <2>1. window \in Window /\ window.highest \in Nat /\ SeqSpan \in Nat
    BY <1>1 DEF SealedInv, TypeOK, Window, SeqSpan
  <2>2. CASE UNCHANGED window
    BY <2>1, <2>2 DEF SeqSpan
  <2>3. ASSUME NEW s \in wire, Open(Sealed(s))
        PROVE  /\ SeqSpan' >= SeqSpan
               /\ window' # window => pkts' = pkts + 1
    <3>1. s \in Seqs /\ s \in Nat
      BY <1>1, MaxSeqAssumption DEF SealedInv, TypeOK, Seqs
    <3>2. CASE window' = Commit(window, s) /\ pkts' = pkts + 1
      <4>1. (window'.primed = TRUE /\ window'.highest >= window.highest) \/ ~window.primed
        BY <2>1, <3>1, <3>2 DEF Commit
      <4>2. window'.primed = TRUE /\ window'.highest \in Nat
        BY <2>1, <3>1, <3>2 DEF Commit
      <4> QED
        BY <2>1, <3>2, <4>1, <4>2 DEF SeqSpan
    <3> QED
      BY <2>2, <2>3, <3>1, <3>2, SealedOpened DEF vars
  <2> QED
    BY <2>2, <2>3, ForeignRefused
       DEF Next, SealDatagram, BurnSeq, OpenSealed, OpenForeign, vars
<1> QED
  BY <1>1, SealedInvariant, PTL DEF Spec, OnlyAuthenticMoves

(* The plane with its bitmap implements the plane with a perfect memory:   *)
(* every step is a step of OnceDelivery or leaves its variables alone.     *)
THEOREM SealedImplements == Spec => ImplementsOnceDelivery
<1>1. Init => Once!Init
  BY DEF Init, Once!Init
<1>2. ASSUME SealedInv, [Next]_vars
      PROVE  [Once!Next]_(Once!vars)
  <2>1. CASE SealDatagram
    BY <2>1 DEF SealDatagram, Once!Next, Once!Send
  <2>2. CASE BurnSeq
    BY <2>2 DEF BurnSeq, Once!Next, Once!Skip
  <2>3. ASSUME NEW s \in wire, Open(Sealed(s))
        PROVE  [Once!Next]_(Once!vars)
    <3>1. s \in Seqs /\ s \in Nat /\ accepted \in SUBSET Nat /\ window \in Window
      BY <1>2, MaxSeqAssumption DEF SealedInv, TypeOK, Seqs
    <3>2. CASE /\ WouldAccept(window, s)
               /\ pkts' = pkts + 1
               /\ accepted' = accepted \cup {s}
               /\ UNCHANGED <<seq, wire>>
      <4>1. s \notin accepted /\ \A t \in accepted : t - s < W
        BY <1>2, <3>1, <3>2, ExactAnswer DEF SealedInv
      <4>2. Once!Deliver(s)
        BY <2>3, <3>2, <4>1 DEF Once!Deliver, Once!Recent
      <4> QED
        BY <2>3, <4>2 DEF Once!Next
    <3> QED
      BY <2>3, <3>1, <3>2, SealedOpened DEF vars, Once!vars
  <2>4. ASSUME NEW d \in Foreign, Open(d)
        PROVE  [Once!Next]_(Once!vars)
    BY <2>4, ForeignRefused DEF vars, Once!vars
  <2>5. CASE UNCHANGED vars
    BY <2>5 DEF vars, Once!vars
  <2> QED
    BY <1>2, <2>1, <2>2, <2>3, <2>4, <2>5 DEF Next, OpenSealed, OpenForeign
<1> QED
  BY <1>1, <1>2, SealedInvariant, PTL DEF Spec, ImplementsOnceDelivery, Once!Spec

-----------------------------------------------------------------------------
(* The network of LossReports is what the sealed plane makes of any        *)
(* network: a number that was burned is lost, one that is on the wire and  *)
(* was never opened is in flight, and the span is the window's.  Nothing   *)
(* bounds how many datagrams one overtakes.                                *)
Wire == INSTANCE LossReports
          WITH Modes <- {"sealed"}, Tiny <- 1, Counts <- {1}, Ks <- {},
               MaxSent <- MaxSeq, MaxLost <- MaxSeq, Overtake <- MaxSeq,
               MaxReports <- 0, MaxDups <- 0,
               mode <- "sealed", sent <- seq, inFlight <- wire \ accepted,
               lost <- (0 .. seq - 1) \ wire, dups <- 0, span <- SeqSpan,
               reports <- <<>>, quiet <- 0,
               est <- [ewma |-> 0, primed |-> FALSE, last |-> <<>>]

(* Both modules count with the same Cardinality. *)
LEMMA WireCardinality == \A S : Wire!Cardinality(S) = Cardinality(S)
BY DEF Wire!Cardinality, Cardinality, Wire!IsFiniteSet, IsFiniteSet

(* The wire of the substituted LossReports never has more than MaxSeq      *)
(* datagrams in flight or lost.                                            *)
LEMMA WireBounds ==
  ASSUME SealedInv
  PROVE  /\ seq \in 0 .. MaxSeq /\ MaxSeq \in Nat
         /\ \A S : S \subseteq 0 .. MaxSeq - 1
                     => IsFiniteSet(S) /\ Cardinality(S) \in Nat /\ Cardinality(S) <= MaxSeq
<1>1. seq \in 0 .. MaxSeq /\ MaxSeq \in Nat
  BY MaxSeqAssumption DEF SealedInv, TypeOK
<1>2. IsFiniteSet(0 .. MaxSeq - 1) /\ Cardinality(0 .. MaxSeq - 1) = MaxSeq
  BY <1>1, FS_Interval
<1>3. \A S : S \subseteq 0 .. MaxSeq - 1
              => IsFiniteSet(S) /\ Cardinality(S) <= Cardinality(0 .. MaxSeq - 1)
  BY <1>2, FS_Subset
<1>4. \A S : IsFiniteSet(S) => Cardinality(S) \in Nat
  BY FS_CardinalityType
<1> QED
  BY <1>1, <1>2, <1>3, <1>4

(* Sealing or burning the next number is a Spray of one packet. *)
LEMMA WireSprays ==
  ASSUME SealedInv, SealDatagram \/ BurnSeq
  PROVE  Wire!Next
<1>1. seq \in Nat /\ seq < MaxSeq /\ seq' = seq + 1 /\ MaxSeq \in Nat
      /\ UNCHANGED <<window, pkts, accepted>>
  BY WireBounds DEF SealDatagram, BurnSeq, SealedInv, TypeOK
<1>2. wire \subseteq 0 .. seq - 1 /\ accepted \subseteq wire /\ seq \notin wire /\ seq \notin accepted
  BY <1>1 DEF SealedInv, CountInv
<1>3. SeqSpan' = SeqSpan
  BY <1>1 DEF SeqSpan
<1>4. seq .. seq + 1 - 1 = {seq} /\ 0 .. seq' - 1 = (0 .. seq - 1) \cup {seq}
  BY <1>1
<1> DEFINE L == (0 .. seq - 1) \ wire
<1>5. /\ Cardinality({}) = 0 /\ Cardinality({seq}) = 1
      /\ Cardinality(L) \in Nat /\ Cardinality(L) <= seq
  <2>1. IsFiniteSet(0 .. seq - 1) /\ Cardinality(0 .. seq - 1) = seq
    BY <1>1, FS_Interval
  <2>2. IsFiniteSet(L) /\ Cardinality(L) <= seq
    BY <2>1, FS_Subset
  <2> QED
    BY <2>2, FS_CardinalityType, FS_EmptySet, FS_Singleton
<1>6. /\ seq + 1 <= MaxSeq
      /\ Wire!Cardinality(L) + Wire!Cardinality({}) <= MaxSeq
      /\ Wire!Cardinality(L) + Wire!Cardinality({seq}) <= MaxSeq
  <2>1. /\ seq + 1 <= MaxSeq
        /\ Cardinality(L) + Cardinality({}) <= MaxSeq
        /\ Cardinality(L) + Cardinality({seq}) <= MaxSeq
    <3> HIDE DEF L
    <3> QED
      BY <1>1, <1>5
  <2> QED
    BY <2>1, WireCardinality, Zenon
<1>7. CASE SealDatagram
  <2>1. wire' = wire \cup {seq}
    BY <1>7 DEF SealDatagram
  <2>2. (wire \ accepted)' = (wire \ accepted) \cup ((seq .. seq + 1 - 1) \ {})
    BY <1>1, <1>2, <1>4, <2>1
  <2>3. ((0 .. seq - 1) \ wire)' = L \cup {}
    BY <1>1, <1>2, <1>4, <2>1
  <2>4. Wire!Spray(1, {})
    BY <1>1, <1>3, <1>6, <2>2, <2>3, Zenon DEF Wire!Spray
  <2> QED
    BY <2>4 DEF Wire!Next
<1>8. CASE BurnSeq
  <2>1. wire' = wire
    BY <1>8 DEF BurnSeq
  <2>2. (wire \ accepted)' = (wire \ accepted) \cup ((seq .. seq + 1 - 1) \ {seq})
    BY <1>1, <1>4, <2>1
  <2>3. ((0 .. seq - 1) \ wire)' = L \cup {seq}
    BY <1>1, <1>2, <1>4, <2>1
  <2>4. Wire!Spray(1, {seq})
    BY <1>1, <1>3, <1>6, <2>2, <2>3, Zenon DEF Wire!Spray
  <2>5. {seq} \in SUBSET (seq .. seq + 1 - 1)
    BY <1>4
  <2> QED
    BY <2>4, <2>5 DEF Wire!Next
<1> QED
  BY <1>7, <1>8

(* A datagram the window takes is a Deliver: it was in flight, and the     *)
(* window's highest number moves the way the span does.                    *)
LEMMA WireDelivers ==
  ASSUME SealedInv, NEW s \in wire, WouldAccept(window, s),
         window' = Commit(window, s), pkts' = pkts + 1,
         accepted' = accepted \cup {s}, UNCHANGED <<seq, wire>>
  PROVE  Wire!Next
<1>1. s \in Nat /\ s \in Seqs /\ window \in Window /\ accepted \in SUBSET Nat
  BY MaxSeqAssumption DEF SealedInv, TypeOK, Seqs
<1>2. s \notin accepted
  BY <1>1, ExactAnswer DEF SealedInv
<1>3. SeqSpan' = Wire!MaxOf(SeqSpan, s + 1)
  <2>1. /\ window.highest \in Nat /\ window.primed \in BOOLEAN
        /\ window'.primed = TRUE
        /\ window'.highest = IF window.primed /\ ~(s > window.highest) THEN window.highest ELSE s
    BY <1>1 DEF Window, Commit
  <2> QED
    BY <1>1, <2>1 DEF SeqSpan, Wire!MaxOf
<1>4. s \in Wire!Reach
  <2> DEFINE B == Wire!Below(wire \ accepted, s)
  <2>1. B \subseteq 0 .. MaxSeq - 1
    BY DEF Wire!Below, SealedInv, TypeOK, Seqs
  <2>2. Cardinality(B) <= MaxSeq
    BY <2>1, WireBounds
  <2> QED
    BY <1>2, <2>2, WireCardinality DEF Wire!Reach
<1>5. (wire \ accepted)' = (wire \ accepted) \ {s}
  OBVIOUS
<1>6. Wire!Deliver(s)
  BY <1>3, <1>4, <1>5 DEF Wire!Deliver
<1> QED
  BY <1>2, <1>6 DEF Wire!Next

(* Whatever network there is below it, the sealed plane implements the     *)
(* wire that LossReports assumes: a duplicate, a forgery and a datagram    *)
(* behind the window change nothing, a datagram is counted once, and the   *)
(* reported span is one more than the highest number opened.               *)
THEOREM SealedImplementsWire == Spec => Wire!Spec
<1>1. Init => Wire!Init
  BY DEF Init, Wire!Init, Wire!NewEstimator, Wire!None, NewWindow, SeqSpan
<1>2. ASSUME SealedInv, [Next]_vars
      PROVE  [Wire!Next]_(Wire!vars)
  <2>1. CASE SealDatagram \/ BurnSeq
    BY <1>2, <2>1, WireSprays
  <2>2. CASE UNCHANGED vars
    BY <2>2 DEF vars, Wire!vars, SeqSpan
  <2>3. ASSUME NEW s \in wire, Open(Sealed(s))
        PROVE  [Wire!Next]_(Wire!vars)
    <3>1. s \in Seqs
      BY <1>2 DEF SealedInv, TypeOK
    <3> QED
      BY <1>2, <2>2, <2>3, <3>1, SealedOpened, WireDelivers
  <2>4. ASSUME NEW d \in Foreign, Open(d)
        PROVE  [Wire!Next]_(Wire!vars)
    BY <2>2, <2>4, ForeignRefused
  <2> QED
    BY <1>2, <2>1, <2>2, <2>3, <2>4 DEF Next, OpenSealed, OpenForeign
<1> QED
  BY <1>1, <1>2, SealedInvariant, PTL DEF Spec, Wire!Spec

=============================================================================
