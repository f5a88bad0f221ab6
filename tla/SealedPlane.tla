---------------------------- MODULE SealedPlane -----------------------------
(***************************************************************************)
(* The sealed UDP symbol plane: src/src/sealed.rs (SymbolSealer,           *)
(* SymbolOpener, seal_datagram_into, open_datagram) behind TxPlane::Sealed *)
(* and RxPlane::Sealed of src/src/datagram.rs, with a network between them *)
(* that loses, duplicates, delays and reorders datagrams and that also     *)
(* carries datagrams the sealer of this session never made.                *)
(*                                                                         *)
(* A datagram is abstracted to what open_datagram tests, in its order: is  *)
(* it well formed (length and magic), its transfer tag, its sequence       *)
(* number, and whether the AEAD accepts it under this session's key.  The  *)
(* AEAD is external: it accepts exactly what this session's sealer sealed. *)
(***************************************************************************)
EXTENDS ReplayWindow, FiniteSets

CONSTANT MaxSeq  \* bound on sequence numbers (2^64 in the code)

ASSUME MaxSeqAssumption == MaxSeq \in Nat

VARIABLES seq,      \* SymbolSealer.seq, the next number to hand out
          wire,     \* numbers of the sealed datagrams put on the wire
          window,   \* SymbolOpener.window
          pkts,     \* datagrams open_datagram returned (recv.rs pkts)
          accepted  \* history: the numbers of those datagrams

vars == <<seq, wire, window, pkts, accepted>>

Seqs == 0 .. MaxSeq - 1

Datagram == [wellFormed : BOOLEAN, ours : BOOLEAN, seq : Seqs, auth : BOOLEAN]

(* The datagram seal_datagram_into builds for number s. *)
Sealed(s) == [wellFormed |-> TRUE, ours |-> TRUE, seq |-> s, auth |-> TRUE]

(* Datagrams that do not come from this session's sealer: truncated, of    *)
(* another transfer, corrupted, or sealed under another key.               *)
Foreign == {d \in Datagram : ~(d.wellFormed /\ d.ours /\ d.auth)}

-----------------------------------------------------------------------------
(* SymbolOpener::open_in_place that commits the number before the AEAD     *)
(* has accepted the datagram.                                              *)
EagerOpenInPlace(w, d) ==
  IF WouldAccept(w, d.seq)
  THEN [ok |-> d.auth, window |-> Commit(w, d.seq)]
  ELSE [ok |-> FALSE, window |-> w]

(* SymbolOpener::open_in_place that forgets to commit. *)
ForgetfulOpenInPlace(w, d) ==
  [ok |-> WouldAccept(w, d.seq) /\ d.auth, window |-> w]

(* SymbolOpener::open_in_place: the window is only touched once the AEAD   *)
(* has accepted the datagram.                                              *)
OpenInPlace(w, d) ==
  IF WouldAccept(w, d.seq) /\ d.auth
  THEN [ok |-> TRUE, window |-> Commit(w, d.seq)]
  ELSE [ok |-> FALSE, window |-> w]

(* open_datagram: length, magic and transfer tag come first. *)
OpenDatagram(w, d) ==
  IF d.wellFormed /\ d.ours
  THEN OpenInPlace(w, d)
  ELSE [ok |-> FALSE, window |-> w]

(* SymbolOpener::seq_span *)
SeqSpan == IF window.primed THEN window.highest + 1 ELSE 0

-----------------------------------------------------------------------------
Init == /\ seq = 0
        /\ wire = {}
        /\ window = NewWindow
        /\ pkts = 0
        /\ accepted = {}

(* seal_datagram_into: next_seq is a fetch_add. *)
SealDatagram ==
  /\ seq < MaxSeq
  /\ seq' = seq + 1
  /\ wire' = wire \cup {seq}
  /\ UNCHANGED <<window, pkts, accepted>>

(* TxPlane::burn_seq: the simulated drop of --test-drop. *)
BurnSeq ==
  /\ seq < MaxSeq
  /\ seq' = seq + 1
  /\ UNCHANGED <<wire, window, pkts, accepted>>

(* RxPlane::open on one received datagram, and the receiver's count of it. *)
Open(d) ==
  LET r == OpenDatagram(window, d)
  IN  /\ window' = r.window
      /\ pkts' = IF r.ok THEN pkts + 1 ELSE pkts
      /\ accepted' = IF r.ok THEN accepted \cup {d.seq} ELSE accepted
      /\ UNCHANGED <<seq, wire>>

(* The network hands over any datagram ever put on the wire, any number of *)
(* times and in any order; one it never hands over is lost.                *)
OpenSealed == \E s \in wire : Open(Sealed(s))

OpenForeign == \E d \in Foreign : Open(d)

Next == \/ SealDatagram
        \/ BurnSeq
        \/ OpenSealed
        \/ OpenForeign

Spec == Init /\ [][Next]_vars

-----------------------------------------------------------------------------
(* The variables have their types. *)
TypeOK == /\ seq \in 0 .. MaxSeq
          /\ wire \subseteq Seqs
          /\ window \in Window
          /\ pkts \in Nat
          /\ accepted \subseteq Seqs

(* The bitmap decides exactly like an unbounded memory of everything that  *)
(* was accepted: would_accept takes a number if and only if it is not a    *)
(* replay and is less than W behind the newest one.  So no slot that       *)
(* several numbers share ever makes the window refuse a fresh datagram or  *)
(* take a replayed one.                                                    *)
WindowExact ==
  \A s \in Seqs :
     WouldAccept(window, s) <=> /\ s \notin accepted
                                /\ \A t \in accepted : t - s < W

(* Whatever is duplicated or replayed, open_datagram lets each datagram    *)
(* of this session's sealer through at most once and nothing else at all:  *)
(* the receiver's count is the number of distinct datagrams it opened.     *)
OpenedOnce == /\ pkts = Cardinality(accepted)
              /\ accepted \subseteq wire

(* The loss the sender computes from a Progress frame, 1 - pkts/span, is   *)
(* exact: span - pkts is the number of datagrams below the span that were  *)
(* not opened, so it is never negative, and the receiver never reports a   *)
(* span beyond what the sender has numbered.                               *)
LossWellDefined ==
  /\ SeqSpan - pkts = Cardinality((0 .. SeqSpan - 1) \ accepted)
  /\ SeqSpan <= seq

(* Only an opened datagram moves the window (forged numbers cannot poison  *)
(* it), and the reported span never shrinks.                               *)
OnlyAuthenticMoves ==
  [][/\ SeqSpan' >= SeqSpan
     /\ window' # window => pkts' = pkts + 1]_vars

(* The promise of the plane, as a specification without a bitmap. *)
Once == INSTANCE OnceDelivery
          WITH next <- seq, onWire <- wire, delivered <- accepted,
               count <- pkts

(* The bitmap plane implements at-most-once delivery of recent datagrams. *)
ImplementsOnceDelivery == Once!Spec

=============================================================================
