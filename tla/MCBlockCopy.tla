---------------------------- MODULE MCBlockCopy -----------------------------
(***************************************************************************)
(* An instance of BlockCopy for TLC.                                       *)
(***************************************************************************)
EXTENDS BlockCopy

=============================================================================
