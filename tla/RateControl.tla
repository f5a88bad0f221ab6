---------------------------- MODULE RateControl -----------------------------
(***************************************************************************)
(* The adaptive sending rate: RateController of src/src/rate.rs and the    *)
(* pacer it drives through drain_feedback (src/src/send.rs).               *)
(*                                                                         *)
(* Rates are whole numbers of some unit and losses whole numbers of Scale  *)
(* to the percent. The floating-point smoothing is abstracted to its       *)
(* direction (RateLoop computes it): the smoothed loss ends somewhere      *)
(* between its old value and the new sample, the floor somewhere between   *)
(* its old value and the loss it follows (so the rate at which the floor   *)
(* was measured, which only sets the speed of that, is left out). A growth *)
(* is rounded up and a cut down: each still moves the rate. A report is    *)
(* abstracted to what on_report computes from its counters: the interval's *)
(* loss, its delivered rate, how much of the pacing rate the sender used,  *)
(* and the length of the interval. A report less than MIN_SAMPLE_DT after  *)
(* the last one changes nothing and is a stuttering step.                  *)
(***************************************************************************)
EXTENDS Integers

CONSTANTS MinRate,     \* MIN_RATE_BPS
          StartRate,   \* START_RATE_BPS
          MaxRateArg,  \* --max-rate-mbps
          Scale,       \* loss units in a percent
          Losses,      \* possible losses of an interval, and their averages
          Deliveries,  \* possible delivered rates of an interval
          Gaps,        \* possible lengths of an interval
          Window       \* DELIVERED_WINDOW_MS, in the same unit

ASSUME RateAssumption ==
  /\ MinRate \in Nat \ {0} /\ StartRate \in Nat /\ MinRate <= StartRate
  /\ MaxRateArg \in Nat
  /\ Scale \in Nat \ {0} /\ Losses \subseteq 0 .. 100 * Scale
  /\ Deliveries \subseteq Nat \ {0}
  /\ Gaps \subseteq Nat \ {0} /\ Window \in Nat

(* CLEAN_EXCESS, CUT_EXCESS, STARTUP_ABORT_EXCESS, CUT_COOLDOWN,           *)
(* STARTUP_STAGNANT_EXIT; GROWTH_STEADY and GROWTH_SLOW (percent).         *)
CleanExcess  == 2 * Scale
CutExcess    == 5 * Scale
AbortExcess  == 15 * Scale
CutCooldown  == 3
StagnantExit == 3
GrowthSteady == 5
GrowthSlow   == 1

None == -1

VARIABLES rate, startup, bestDelivered, stagnant, cooldown,
          lossEwma,   \* None before the first sample
          lossFloor,  \* None before the first sample
          delivered,  \* samples <<age, rate>> of the max filter
          last,       \* last.is_some()
          pacer       \* Pacer.bytes_per_sec

vars == <<rate, startup, bestDelivered, stagnant, cooldown, lossEwma, lossFloor,
          delivered, last, pacer>>

MinOf(a, b) == IF a <= b THEN a ELSE b
MaxOf(a, b) == IF a >= b THEN a ELSE b

Clamp(x, lo, hi) == MaxOf(lo, MinOf(x, hi))

MaxRate == MaxOf(MaxRateArg, MinRate)

(* How much of the pacing rate the sender used in an interval: less than   *)
(* APP_LIMITED_FRAC, less than GROW_EVIDENCE_FRAC, or more.                *)
Uses == {"limited", "partial", "saturated"}

-----------------------------------------------------------------------------
(* RateController::new, and the pacer that starts beside it. *)
Init ==
  /\ rate = MinOf(StartRate, MaxRate)
  /\ startup = TRUE /\ bestDelivered = 0 /\ stagnant = 0 /\ cooldown = 0
  /\ lossEwma = None /\ lossFloor = None
  /\ delivered = {} /\ last = FALSE
  /\ pacer = StartRate

(* A drain_feedback that hands the pacer only a rate that went up. *)
RisingSetRate(r) ==
  /\ rate' = r
  /\ pacer' = IF r > rate THEN r ELSE pacer

(* drain_feedback hands the pacer a rate that changed. *)
SetRate(r) ==
  /\ rate' = r
  /\ pacer' = IF r # rate THEN r ELSE pacer

(* The losses from a to b. *)
Between(a, b) == {l \in Losses : a <= l /\ l <= b}

(* What the smoothed loss may be after the sample raw. *)
Smoothed(raw) ==
  IF lossEwma = None THEN {raw}
  ELSE Between(MinOf(lossEwma, raw), MaxOf(lossEwma, raw))

(* What the floor may be once the smoothed loss is loss: it does not rise  *)
(* while a cut cools down, else it relaxes upwards or falls.               *)
FloorAfter(loss) ==
  IF lossFloor = None THEN {loss}
  ELSE IF loss < lossFloor THEN Between(loss, lossFloor)
  ELSE IF cooldown > 0 THEN {lossFloor}
  ELSE Between(lossFloor, MinOf(loss, lossFloor + CutExcess))

(* The samples gap later; those beyond the window are all alike. *)
Aged(gap) == {<<MinOf(s[1] + gap, Window + 1), s[2]>> : s \in delivered}

(* The max filter after a sample d.  A sample that d equals or exceeds     *)
(* leaves the window before d does and is never the maximum again, so only *)
(* the higher ones are kept.                                               *)
Filtered(d, gap) ==
  {s \in Aged(gap) : s[1] <= Window /\ s[2] > d} \cup {<<0, d>>}

(* The highest delivered rate of a non-empty set of samples. *)
MaxDelivered(samples) ==
  CHOOSE m \in {s[2] : s \in samples} : \A s \in samples : s[2] <= m

(* A growth by so many percent, up to the cap. *)
Grown(percent) == MinOf((rate * (100 + percent) + 99) \div 100, MaxRate)

-----------------------------------------------------------------------------
(* The decision of on_report.  Its inputs: the sample's raw loss, the      *)
(* smoothed loss, the floor, the delivered rate, the samples of the max    *)
(* filter, and whether the interval used the pacing rate up.               *)

(* A cut without CUT_MIN_FACTOR. *)
TrustingCut(raw, loss, floor, samples) ==
  /\ loss - floor >= CutExcess \/ (startup /\ raw - floor >= AbortExcess)
  /\ startup' = FALSE
  /\ SetRate(Clamp(MaxDelivered(samples), MinRate, rate))
  /\ cooldown' = CutCooldown
  /\ UNCHANGED <<bestDelivered, stagnant>>

(* A cut that credits the floor's loss back. *)
CreditingCut(raw, loss, floor, samples) ==
  /\ loss - floor >= CutExcess \/ (startup /\ raw - floor >= AbortExcess)
  /\ startup' = FALSE
  /\ SetRate(Clamp((100 * Scale * MaxDelivered(samples)) \div
                     (100 * Scale - MinOf(floor, 50 * Scale)),
                   MinRate, MaxOf((rate * 9) \div 10, MinRate)))
  /\ cooldown' = CutCooldown
  /\ UNCHANGED <<bestDelivered, stagnant>>

(* Congestion: down to what was delivered, and at least by a tenth. *)
CutRate(raw, loss, floor, samples) ==
  /\ loss - floor >= CutExcess \/ (startup /\ raw - floor >= AbortExcess)
  /\ startup' = FALSE
  /\ SetRate(Clamp(MaxDelivered(samples), MinRate, MaxOf((rate * 9) \div 10, MinRate)))
  /\ cooldown' = CutCooldown
  /\ UNCHANGED <<bestDelivered, stagnant>>

(* StartupSample that takes every sample for the best one. *)
ForgetfulStartupSample(d, samples) ==
  /\ startup
  /\ bestDelivered' = d
  /\ \/ /\ 10 * d > 11 * bestDelivered
        /\ stagnant' = 0
        /\ SetRate(MinOf(2 * rate, MaxRate))
        /\ UNCHANGED startup
     \/ /\ 10 * d <= 11 * bestDelivered
        /\ stagnant' = stagnant + 1
        /\ startup' = (stagnant + 1 < StagnantExit)
        /\ SetRate(IF startup' THEN rate
                   ELSE Clamp(MaxDelivered(samples), MinRate, MaxOf(rate, MinRate)))
  /\ UNCHANGED cooldown

(* StartupSample that takes a delivered rate that holds for one that grows. *)
PlateauStartupSample(d, samples) ==
  /\ startup
  /\ \/ /\ d >= bestDelivered
        /\ bestDelivered' = d /\ stagnant' = 0
        /\ SetRate(MinOf(2 * rate, MaxRate))
        /\ UNCHANGED startup
     \/ /\ d < bestDelivered
        /\ stagnant' = stagnant + 1
        /\ startup' = (stagnant + 1 < StagnantExit)
        /\ SetRate(IF startup' THEN rate
                   ELSE Clamp(MaxDelivered(samples), MinRate, MaxOf(rate, MinRate)))
        /\ UNCHANGED bestDelivered
  /\ UNCHANGED cooldown

(* Startup: double while the delivered rate grows by a tenth, settle on    *)
(* what was delivered after three samples that did not.                    *)
StartupSample(d, samples) ==
  /\ startup
  /\ \/ /\ 10 * d > 11 * bestDelivered
        /\ bestDelivered' = d /\ stagnant' = 0
        /\ SetRate(MinOf(2 * rate, MaxRate))
        /\ UNCHANGED startup
     \/ /\ 10 * d <= 11 * bestDelivered
        /\ stagnant' = stagnant + 1
        /\ startup' = (stagnant + 1 < StagnantExit)
        /\ SetRate(IF startup' THEN rate
                   ELSE Clamp(MaxDelivered(samples), MinRate, MaxOf(rate, MinRate)))
        /\ UNCHANGED bestDelivered
  /\ UNCHANGED cooldown

(* The rate is at or above the delivered rate with the floor credited      *)
(* back: rate >= max_delivered / (1 - min(floor, 1/2)).                    *)
Proven(floor, samples) ==
  rate * (100 * Scale - MinOf(floor, 50 * Scale)) >= 100 * Scale * MaxDelivered(samples)

(* After startup: drift up, slowly when above what the path has proven. *)
SteadyGrowth(floor, samples) ==
  /\ ~startup
  /\ SetRate(Grown(IF Proven(floor, samples) THEN GrowthSlow ELSE GrowthSteady))
  /\ UNCHANGED <<startup, bestDelivered, stagnant, cooldown>>

(* Between clean and congested: after startup probe slowly. *)
MiddleBand ==
  /\ IF startup THEN SetRate(rate) ELSE SetRate(Grown(GrowthSlow))
  /\ UNCHANGED <<startup, bestDelivered, stagnant, cooldown>>

Hold == SetRate(rate) /\ UNCHANGED <<startup, bestDelivered, stagnant, cooldown>>

Decide(raw, loss, floor, d, samples, saturated) ==
  \/ CutRate(raw, loss, floor, samples)
  \/ /\ loss - floor < CutExcess /\ ~(startup /\ raw - floor >= AbortExcess)
     /\ \/ ~saturated /\ Hold
        \/ saturated /\ loss - floor > CleanExcess /\ MiddleBand
        \/ /\ saturated /\ loss - floor <= CleanExcess
           /\ StartupSample(d, samples) \/ SteadyGrowth(floor, samples)

-----------------------------------------------------------------------------
(* Reports.                                                                *)

(* The first report only starts the first interval. *)
FirstReport ==
  /\ ~last /\ last' = TRUE
  /\ UNCHANGED <<rate, startup, bestDelivered, stagnant, cooldown, lossEwma,
                 lossFloor, delivered, pacer>>

(* Nothing was sent or nothing arrived in the interval: no signal. *)
IdleReport(gap) ==
  /\ last
  /\ delivered' = Aged(gap)
  /\ UNCHANGED <<rate, startup, bestDelivered, stagnant, cooldown, lossEwma,
                 lossFloor, last, pacer>>

(* on_report with an interval that carries a signal, once the sample is    *)
(* smoothed to loss and floor.                                             *)
ReportWith(raw, loss, floor, d, use, gap) ==
  /\ last /\ UNCHANGED last
  /\ lossEwma' = loss /\ lossFloor' = floor
  /\ \/ /\ use = "limited"
        /\ delivered' = Aged(gap)
        /\ Hold
     \/ /\ use # "limited" /\ cooldown > 0
        /\ delivered' = Filtered(d, gap)
        /\ cooldown' = cooldown - 1
        /\ UNCHANGED <<rate, startup, bestDelivered, stagnant, pacer>>
     \/ /\ use # "limited" /\ cooldown = 0
        /\ delivered' = Filtered(d, gap)
        /\ Decide(raw, loss, floor, d, Filtered(d, gap), use = "saturated")

Report(raw, d, use, gap) ==
  \E loss \in Smoothed(raw) : \E floor \in FloorAfter(loss) :
    ReportWith(raw, loss, floor, d, use, gap)

Next ==
  \/ FirstReport
  \/ \E gap \in Gaps : IdleReport(gap)
  \/ \E raw \in Losses, d \in Deliveries, use \in Uses, gap \in Gaps :
        Report(raw, d, use, gap)

Spec == Init /\ [][Next]_vars

(* The receiver keeps reporting: the first report comes, and clean reports *)
(* of a sender that uses its pacing rate up keep coming.                   *)
FairSpec ==
  /\ Spec
  /\ WF_vars(FirstReport)
  /\ WF_vars(\E d \in Deliveries, gap \in Gaps : Report(0, d, "saturated", gap))

-----------------------------------------------------------------------------
(* The variables have their types, and the rate its bounds. *)
TypeOK ==
  /\ rate \in MinRate .. MaxRate
  /\ startup \in BOOLEAN
  /\ bestDelivered = 0 \/ bestDelivered \in Deliveries
  /\ stagnant \in 0 .. StagnantExit /\ cooldown \in 0 .. CutCooldown
  /\ lossEwma = None \/ lossEwma \in Losses
  /\ lossFloor = None \/ lossFloor \in Losses
  /\ delivered \subseteq (0 .. Window + 1) \X Deliveries
  /\ last \in BOOLEAN
  /\ pacer \in Nat

(* The pacer runs at the controller's rate, although on_report only hands  *)
(* out changes (for a cap of at least START_RATE_BPS).                     *)
PacerFollows == StartRate <= MaxRate => pacer = rate

(* Right after a cut the rate is no higher than some delivered rate of the *)
(* max filter, or it is the minimum: a cut never leaves the sender above   *)
(* everything the path was seen to deliver.                                *)
CutToDelivered ==
  cooldown = CutCooldown => \/ rate = MinRate
                            \/ \E s \in delivered : rate <= s[2]

(* Startup is left once and never by raising the rate. *)
StartupExit ==
  [][/\ ~startup => ~startup'
     /\ startup /\ ~startup' => rate' <= rate]_vars

(* A sender that is cut again and again and does not grow in between comes *)
(* down to the minimum, whatever the delivered estimates say.              *)
Descends ==
  []<><<cooldown = 0 /\ cooldown' = CutCooldown>>_vars
    /\ <>[][rate' <= rate]_vars => <>[](rate = MinRate)

(* Startup makes finitely many decisions: delivery cannot grow for ever.   *)
StartupFinite == <>[][UNCHANGED <<bestDelivered, stagnant>>]_vars

(* --max-rate-mbps: the pacer ends up at or below the ceiling. *)
CeilingHolds == <>[](pacer <= MaxRate)

=============================================================================
