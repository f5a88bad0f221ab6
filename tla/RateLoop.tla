------------------------------ MODULE RateLoop ------------------------------
(***************************************************************************)
(* RateController::on_report (src/src/rate.rs) with its smoothing computed *)
(* and the loop closed over a path, as the simulations of its tests do:    *)
(* the path carries up to a bottleneck rate, drops what exceeds it and a   *)
(* fixed share of the rest, and its answer to one interval's sending is    *)
(* the next report.  The path may change a few times.  Between the changes *)
(* the loop is deterministic, so a run follows every behaviour for ever.   *)
(*                                                                         *)
(* The smoothing is in fixed point: losses are multiples of 1 / Scale      *)
(* percent and rates of some unit, rounded so that a fall still falls.     *)
(* Reports are one unit of time apart.                                     *)
(***************************************************************************)
EXTENDS RateControl

CONSTANTS Paths,       \* what the path may be like: [bottleneck, loss, duty]
          MaxChanges,  \* how often the path changes
          CalmReports  \* reports after which a path counts as old

(* bottleneck in units of rate, loss in units of loss, and duty the part   *)
(* of the pacing rate, in percent, that the sender puts on the wire.       *)
ASSUME LoopAssumption ==
  /\ \A q \in Paths : /\ q.bottleneck \in Nat \ {0}
                      /\ q.loss \in 0 .. 99 * Scale
                      /\ q.duty \in 0 .. 100
  /\ MaxChanges \in Nat /\ CalmReports \in Nat

VARIABLES floorRate,  \* the rate at which the floor was measured
          path, changes,
          calm        \* reports since the path changed, up to CalmReports

loopVars == <<vars, floorRate, path, changes, calm>>

-----------------------------------------------------------------------------
(* The path's answer to an interval.                                       *)

SentRate == (rate * path.duty) \div 100

(* The interval's raw_loss and delivered. *)
RawLoss ==
  IF SentRate <= path.bottleneck THEN path.loss
  ELSE 100 * Scale - (path.bottleneck * (100 * Scale - path.loss)) \div SentRate

DeliveredRate ==
  MaxOf(1, (MinOf(SentRate, path.bottleneck) * (100 - path.loss \div Scale)) \div 100)

(* APP_LIMITED_FRAC and GROW_EVIDENCE_FRAC. *)
Use == IF path.duty < 70 THEN "limited"
       ELSE IF path.duty < 90 THEN "partial" ELSE "saturated"

-----------------------------------------------------------------------------
(* The smoothing.                                                          *)

(* LOSS_EWMA_ALPHA. *)
LossAfter(raw) ==
  IF lossEwma = None THEN raw ELSE (7 * lossEwma + 3 * raw) \div 10

(* FLOOR_RELAX where the floor was measured, FLOOR_RELAX_SLOW above it, in *)
(* thousandths.                                                            *)
Relax == IF 100 * rate <= 105 * floorRate THEN 20 ELSE 4

(* A floor that never relaxes. *)
StuckFloorAt(loss) ==
  IF lossFloor = None THEN loss
  ELSE IF loss >= lossFloor THEN lossFloor
  ELSE lossFloor - (3 * (lossFloor - loss) + 9) \div 10

(* A floor that also follows the loss of a queue that is draining. *)
DrainingFloorAt(loss) ==
  IF lossFloor = None THEN loss
  ELSE IF loss >= lossFloor
       THEN lossFloor + (MinOf(loss - lossFloor, CutExcess) * Relax) \div 1000
  ELSE lossFloor - (3 * (lossFloor - loss) + 9) \div 10

(* The floor once the smoothed loss is loss (FLOOR_FALL downwards). *)
FloorAt(loss) ==
  IF lossFloor = None THEN loss
  ELSE IF loss >= lossFloor /\ cooldown > 0 THEN lossFloor
  ELSE IF loss >= lossFloor
       THEN lossFloor + (MinOf(loss - lossFloor, CutExcess) * Relax) \div 1000
  ELSE lossFloor - (3 * (lossFloor - loss) + 9) \div 10

(* A first or a cleaner sample re-anchors the floor's rate. *)
FloorRateAt(loss) ==
  IF lossFloor = None \/ loss < lossFloor THEN rate ELSE floorRate

-----------------------------------------------------------------------------
LoopInit ==
  /\ Init
  /\ floorRate = 0 /\ path \in Paths /\ changes = 0 /\ calm = 0

LoopFirst == FirstReport /\ UNCHANGED <<floorRate, path, changes, calm>>

(* The report of an interval in which something was sent. *)
LoopReport ==
  /\ SentRate > 0
  /\ LET loss == LossAfter(RawLoss)
     IN /\ ReportWith(RawLoss, loss, FloorAt(loss), DeliveredRate, Use, 1)
        /\ floorRate' = FloorRateAt(loss)
  /\ calm' = MinOf(calm + 1, CalmReports)
  /\ UNCHANGED <<path, changes>>

(* The report of an interval in which nothing was sent. *)
LoopIdle ==
  /\ SentRate = 0
  /\ IdleReport(1)
  /\ calm' = MinOf(calm + 1, CalmReports)
  /\ UNCHANGED <<floorRate, path, changes>>

(* The path changes, or what the sender has to send. *)
Change(q) ==
  /\ changes < MaxChanges /\ calm < CalmReports /\ q # path
  /\ path' = q /\ changes' = changes + 1 /\ calm' = 0
  /\ UNCHANGED <<vars, floorRate>>

LoopNext == LoopFirst \/ LoopReport \/ LoopIdle \/ \E q \in Paths : Change(q)

LoopSpec == LoopInit /\ [][LoopNext]_loopVars

(* While the transfer lasts the receiver reports every tick. *)
FairLoop ==
  LoopSpec /\ WF_loopVars(LoopFirst \/ LoopReport \/ LoopIdle)

-----------------------------------------------------------------------------
(* What the sender could use of the path. *)
Capacity == MinOf(path.bottleneck, MaxRate)

(* No ratchet: after startup, once a path is CalmReports old, the sender   *)
(* puts no more than 5/4 of the bottleneck rate on the wire, however lossy *)
(* the path and whatever it was before (cut and floor of on_report).       *)
NoRatchet ==
  calm = CalmReports /\ ~startup => 4 * SentRate <= 5 * path.bottleneck

InBand ==
  path.duty >= 90 =>
  /\ 4 * rate <= 5 * Capacity
  /\ 4 * rate >= 3 * ((Capacity * (100 - path.loss \div Scale)) \div 100)

(* A sender with enough to send ends up using the path: its rate stays     *)
(* between 3/4 of what the path delivers and 5/4 of the bottleneck.  The   *)
(* floor of on_report that is stuck too low after the path got lossier     *)
(* is freed again.                                                         *)
Settles == <>[]InBand

(* A sender with enough to send leaves startup: on whatever path it comes  *)
(* to stay, the doublings of on_report end in a cut or in three samples    *)
(* that delivered no more.                                                 *)
StartupEnds == <>[](path.duty >= 90) => <>~startup

FloorNearLoss == path.duty >= 90 => 2 * (lossFloor - path.loss) <= CutExcess

(* The loss floor does not follow congestion: in the long run it exceeds   *)
(* the path's own loss by less than half of CUT_EXCESS, although every     *)
(* probe above the bottleneck shows more.                                  *)
FloorHonest == <>[]FloorNearLoss

=============================================================================
