--------------------------- MODULE MCLossReports ----------------------------
(***************************************************************************)
(* Instances of LossReports for TLC.                                       *)
(***************************************************************************)
EXTENDS LossReports

=============================================================================
