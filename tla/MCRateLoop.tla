----------------------------- MODULE MCRateLoop -----------------------------
(***************************************************************************)
(* Instances of RateLoop for TLC: rates in tenths of a Mbit/s, losses in   *)
(* thousandths of a percent, reports 100 ms apart.                         *)
(***************************************************************************)
EXTENDS RateLoop

LoopLosses == 0 .. 100 * Scale
LoopDeliveries == 1 .. MaxRateArg

PathOf(bottleneck, loss, duty) ==
  [bottleneck |-> bottleneck, loss |-> loss * Scale, duty |-> duty]

(* A clean path and two lossy ones, a slow one, one that only the cap      *)
(* limits; senders with too little to send, and an idle one.               *)
MixedPaths == {PathOf(5000, 0, 100), PathOf(5000, 10, 100), PathOf(5000, 20, 100),
               PathOf(1000, 0, 100), PathOf(10000, 5, 100),
               PathOf(5000, 0, 80), PathOf(5000, 10, 60), PathOf(5000, 0, 0)}

=============================================================================
