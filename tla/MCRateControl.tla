--------------------------- MODULE MCRateControl ----------------------------
(***************************************************************************)
(* Instances of RateControl for TLC.                                       *)
(***************************************************************************)
EXTENDS RateControl

=============================================================================
