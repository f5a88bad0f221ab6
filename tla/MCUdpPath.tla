----------------------------- MODULE MCUdpPath ------------------------------
(***************************************************************************)
(* An instance of UdpPath for TLC.                                         *)
(***************************************************************************)
EXTENDS UdpPath

=============================================================================
