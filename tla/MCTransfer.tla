----------------------------- MODULE MCTransfer -----------------------------
(***************************************************************************)
(* Instances of Transfer for TLC.                                          *)
(***************************************************************************)
EXTENDS Transfer

(* Two blocks of one source symbol. *)
MCK1 == [b \in 0 .. 1 |-> 1]

(* Two blocks, of two and one source symbols. *)
MCK == [b \in 0 .. 1 |-> 2 - b]

=============================================================================
