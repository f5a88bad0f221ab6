--------------------------- MODULE MCSealedPlane ----------------------------
(***************************************************************************)
(* A small instance of SealedPlane for TLC: the sequence numbers wrap      *)
(* around the bitmap several times.                                        *)
(***************************************************************************)
EXTENDS SealedPlane

=============================================================================
