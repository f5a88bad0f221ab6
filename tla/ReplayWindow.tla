---------------------------- MODULE ReplayWindow ----------------------------
(***************************************************************************)
(* The sliding anti-replay window of src/src/sealed.rs (struct             *)
(* ReplayWindow): a circular bitmap of REPLAY_WINDOW_BITS slots, the       *)
(* highest committed sequence number, and a flag that is false until the   *)
(* first commit.  The bitmap is the set of the slots that are set; the     *)
(* code's (word, mask) pair is one way to address slot number seq % W.     *)
(*                                                                         *)
(* The module has no variables: the methods are operators on a window w.   *)
(* A method that mutates the struct returns the new window.                *)
(***************************************************************************)
EXTENDS Integers

CONSTANT W  \* REPLAY_WINDOW_BITS (4096 in the code)

ASSUME WAssumption == W \in Nat \ {0}

Slots == 0 .. W - 1

Window == [bitmap : SUBSET Slots, highest : Nat, primed : BOOLEAN]

-----------------------------------------------------------------------------
(* ReplayWindow::new *)
NewWindow == [bitmap |-> {}, highest |-> 0, primed |-> FALSE]

(* ReplayWindow::slot *)
Slot(seq) == seq % W

(* ReplayWindow::is_set *)
IsSet(w, seq) == Slot(seq) \in w.bitmap

(* ReplayWindow::would_accept without the width test. *)
LaxWouldAccept(w, seq) ==
  \/ ~w.primed
  \/ seq > w.highest
  \/ ~IsSet(w, seq)

(* ReplayWindow::would_accept *)
WouldAccept(w, seq) ==
  \/ ~w.primed
  \/ seq > w.highest
  \/ w.highest - seq < W /\ ~IsSet(w, seq)

(* A clear_range_for_advance that stops one slot short. *)
ShortClearRange(bitmap, newHighest, advance) ==
  IF advance >= W
  THEN {}
  ELSE bitmap \ {Slot(c) : c \in (newHighest + 2 - advance) .. newHighest}

(* ReplayWindow::clear_range_for_advance: forget the slots that the newly  *)
(* covered sequence numbers share with older ones.                         *)
ClearRangeForAdvance(bitmap, newHighest, advance) ==
  IF advance >= W
  THEN {}
  ELSE bitmap \ {Slot(c) : c \in (newHighest + 1 - advance) .. newHighest}

MinOf(a, b) == IF a <= b THEN a ELSE b

(* A commit that takes a late, in-window datagram for the newest one. *)
RegressingCommit(w, seq) ==
  [bitmap  |-> w.bitmap \cup {Slot(seq)},
   highest |-> seq,
   primed  |-> TRUE]

(* ReplayWindow::commit *)
Commit(w, seq) ==
  LET advance == IF w.primed THEN seq - w.highest ELSE seq + 1
      moves   == ~w.primed \/ seq > w.highest
      cleared == IF moves
                 THEN ClearRangeForAdvance(w.bitmap, seq, MinOf(advance, W))
                 ELSE w.bitmap
  IN  [bitmap  |-> cleared \cup {Slot(seq)},
       highest |-> IF moves THEN seq ELSE w.highest,
       primed  |-> TRUE]

=============================================================================
