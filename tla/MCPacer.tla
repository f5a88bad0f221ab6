------------------------------ MODULE MCPacer -------------------------------
(***************************************************************************)
(* An instance of Pacer for TLC.                                           *)
(***************************************************************************)
EXTENDS Pacer

=============================================================================
