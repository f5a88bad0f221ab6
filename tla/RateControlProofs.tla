------------------------- MODULE RateControlProofs --------------------------
(***************************************************************************)
(* Proofs about RateControl and RateLoop: the invariants of the rate       *)
(* controller for any reports and any constants, that the closed loop with *)
(* its fixed-point smoothing implements the controller, and what the loop  *)
(* knows of the path: its cuts and its growth go by what the path delivers *)
(* and never by the path's own loss.                                       *)
(***************************************************************************)
EXTENDS RateLoop, FiniteSetTheorems, TLAPS

(* A finite, non-empty set of naturals has a maximum: one without, minimal *)
(* for inclusion, would lose it with any element taken away.               *)
LEMMA MaxExists ==
  ASSUME NEW S \in SUBSET Nat, IsFiniteSet(S), S # {}
  PROVE  \E m \in S : \A x \in S : x <= m
<1> DEFINE Max(T) == \E m \in T : \A x \in T : x <= m
           Bad == {T \in FiniteSubsetsOf(Nat) : T # {} /\ ~ Max(T)}
<1>1. SUFFICES ASSUME Bad # {} PROVE FALSE
  BY DEF FiniteSubsetsOf
<1>2. Bad \subseteq FiniteSubsetsOf(Nat)
  OBVIOUS
<1>3. PICK T \in Bad : \A U \in Bad : ~ (<<U, T>> \in StrictSubsetOrdering(Nat))
  <2> HIDE DEF Bad
  <2> QED BY <1>1, <1>2, FS_StrictSubsetOrderingWellFounded, WFMin
<1>4. T \in SUBSET Nat /\ IsFiniteSet(T) /\ T # {} /\ ~ Max(T)
  BY <1>3 DEF FiniteSubsetsOf
<1>5. PICK t \in T : TRUE
  BY <1>4
<1> DEFINE U == T \ {t}
<1>6. U \in FiniteSubsetsOf(Nat)
  BY <1>4, FS_RemoveElement DEF FiniteSubsetsOf
<1>7. <<U, T>> \in StrictSubsetOrdering(Nat)
  BY <1>4, <1>5 DEF StrictSubsetOrdering
<1>8. U = {} \/ Max(U)
  BY <1>3, <1>6, <1>7
<1>9. CASE U = {}
  <2>1. \A x \in T : x = t
    BY <1>9
  <2> QED BY <2>1, <1>4, <1>5
<1>10. CASE Max(U)
  <2>1. PICK m \in U : \A x \in U : x <= m
    BY <1>10
  <2>2. m \in T /\ m \in Nat /\ t \in Nat /\ \A x \in T : x \in Nat /\ (x = t \/ x <= m)
    BY <2>1, <1>4, <1>5
  <2>3. CASE t <= m
    BY <2>2, <2>3, <1>4
  <2>4. CASE m <= t
    <3>1. \A x \in T : x <= t
      BY <2>2, <2>4
    <3> QED BY <3>1, <1>4, <1>5
  <2> QED BY <2>2, <2>3, <2>4
<1> QED BY <1>8, <1>9, <1>10

(* The image of a finite set of samples under aging is finite. *)
LEMMA AgedFinite ==
  ASSUME IsFiniteSet(delivered), NEW gap
  PROVE  IsFiniteSet(Aged(gap))
<1> DEFINE f == [s \in delivered |-> <<MinOf(s[1] + gap, Window + 1), s[2]>>]
<1>1. f \in Surjection(delivered, Aged(gap))
  BY DEF Surjection, Aged
<1> QED BY <1>1, FS_Surjection

(* MaxDelivered is the highest rate of the samples. *)
LEMMA MaxDeliveredIs ==
  ASSUME NEW samples, IsFiniteSet(samples), samples # {},
         \A s \in samples : s[2] \in Nat
  PROVE  /\ \E s \in samples : MaxDelivered(samples) = s[2]
         /\ \A s \in samples : s[2] <= MaxDelivered(samples)
<1> DEFINE R == {s[2] : s \in samples}
           f == [s \in samples |-> s[2]]
<1>1. IsFiniteSet(R)
  <2>1. f \in Surjection(samples, R)
    BY DEF Surjection
  <2> QED BY <2>1, FS_Surjection
<1>2. R \in SUBSET Nat /\ R # {}
  OBVIOUS
<1>3. \E m \in R : \A x \in R : x <= m
  <2> HIDE DEF R
  <2> QED BY <1>1, <1>2, MaxExists
<1>4. \E m \in R : \A s \in samples : s[2] <= m
  BY <1>3
<1>5. MaxDelivered(samples) \in R /\ \A s \in samples : s[2] <= MaxDelivered(samples)
  BY <1>4 DEF MaxDelivered
<1> QED BY <1>5

(* Samples of the right type. *)
Samples == (0 .. Window + 1) \X Deliveries

(* The max filter with a new sample in it. *)
LEMMA FilteredOK ==
  ASSUME IsFiniteSet(delivered), delivered \subseteq Samples,
         NEW d \in Deliveries, NEW gap \in Gaps
  PROVE  /\ IsFiniteSet(Filtered(d, gap)) /\ Filtered(d, gap) # {}
         /\ Filtered(d, gap) \subseteq Samples
         /\ Aged(gap) \subseteq Samples /\ IsFiniteSet(Aged(gap))
         /\ MaxDelivered(Filtered(d, gap)) \in Nat
         /\ \E s \in Filtered(d, gap) : MaxDelivered(Filtered(d, gap)) = s[2]
<1>1. IsFiniteSet(Aged(gap))
  BY AgedFinite
<1>2. Aged(gap) \subseteq Samples
  <2>1. \A s \in delivered : s[1] \in Nat /\ s[2] \in Deliveries
    BY RateAssumption DEF Samples
  <2>2. \A s \in delivered : MinOf(s[1] + gap, Window + 1) \in 0 .. Window + 1
    BY <2>1, RateAssumption DEF MinOf
  <2> QED BY <2>1, <2>2 DEF Aged, Samples
<1> DEFINE K == {s \in Aged(gap) : s[1] <= Window /\ s[2] > d}
<1>3. IsFiniteSet(K)
  BY <1>1, FS_Subset
<1>4. Filtered(d, gap) = K \cup {<<0, d>>}
  BY DEF Filtered
<1>5. IsFiniteSet(Filtered(d, gap)) /\ Filtered(d, gap) # {}
  <2> HIDE DEF K
  <2> QED BY <1>3, <1>4, FS_AddElement
<1>6. <<0, d>> \in Samples
  BY RateAssumption DEF Samples
<1>7. Filtered(d, gap) \subseteq Samples
  BY <1>2, <1>4, <1>6
<1>8. \A s \in Filtered(d, gap) : s[2] \in Nat
  BY <1>7, RateAssumption DEF Samples
<1>9. \E s \in Filtered(d, gap) : MaxDelivered(Filtered(d, gap)) = s[2]
  BY <1>5, <1>8, MaxDeliveredIs
<1> QED BY <1>1, <1>2, <1>5, <1>7, <1>8, <1>9


(* The control variables have their types, and startup counts below its    *)
(* exit.                                                                   *)
ControlOK ==
  /\ rate \in MinRate .. MaxRate
  /\ startup \in BOOLEAN
  /\ bestDelivered = 0 \/ bestDelivered \in Deliveries
  /\ stagnant \in 0 .. StagnantExit
  /\ startup => stagnant < StagnantExit
  /\ cooldown \in 0 .. CutCooldown
  /\ pacer \in Nat

(* The bounds of the rate are naturals in order. *)
LEMMA RateBounds == MinRate \in Nat /\ MaxRate \in Nat /\ 0 < MinRate /\ MinRate <= MaxRate
BY RateAssumption DEF MaxRate, MaxOf

(* Clamping ends between the bounds, and above x only at the lower one. *)
LEMMA ClampOK ==
  ASSUME NEW x \in Nat, NEW lo \in Nat, NEW hi \in Nat, lo <= hi
  PROVE  /\ Clamp(x, lo, hi) \in lo .. hi
         /\ Clamp(x, lo, hi) = lo \/ Clamp(x, lo, hi) <= x
BY DEF Clamp, MinOf, MaxOf

(* A change of the rate within its bounds keeps the pacer in step. *)
LEMMA SetRateOK ==
  ASSUME ControlOK, NEW r \in MinRate .. MaxRate, SetRate(r)
  PROVE  /\ rate' \in MinRate .. MaxRate /\ rate' = r /\ pacer' \in Nat
         /\ PacerFollows => PacerFollows'
BY RateBounds DEF ControlOK, SetRate, PacerFollows

(* A growth stays within the bounds of the rate. *)
LEMMA GrownOK ==
  ASSUME ControlOK
  PROVE  Grown(GrowthSlow) \in MinRate .. MaxRate /\ Grown(GrowthSteady) \in MinRate .. MaxRate
<1>1. (rate * 101 + 99) \div 100 \in Nat /\ (rate * 101 + 99) \div 100 >= rate
  BY RateBounds DEF ControlOK
<1>2. (rate * 105 + 99) \div 100 \in Nat /\ (rate * 105 + 99) \div 100 >= rate
  BY RateBounds DEF ControlOK
<1> QED BY <1>1, <1>2, RateBounds DEF ControlOK, Grown, GrowthSlow, GrowthSteady, MinOf

(* What a decision does to the control variables: they keep their types,   *)
(* the pacer follows, startup is only left downwards, and a cut goes down  *)
(* to the minimum or to what was delivered.                                *)
DecisionOK(top) ==
  /\ ControlOK'
  /\ PacerFollows => PacerFollows'
  /\ ~startup => ~startup'
  /\ startup /\ ~startup' => rate' <= rate
  /\ cooldown' = CutCooldown => rate' = MinRate \/ rate' <= top

LEMMA CutOK ==
  ASSUME ControlOK, NEW raw, NEW loss, NEW floor, NEW samples,
         MaxDelivered(samples) \in Nat, CutRate(raw, loss, floor, samples)
  PROVE  DecisionOK(MaxDelivered(samples))
<1> DEFINE hi == MaxOf((rate * 9) \div 10, MinRate)
           r == Clamp(MaxDelivered(samples), MinRate, hi)
<1>1. hi \in Nat /\ MinRate <= hi /\ hi <= rate
  BY RateBounds DEF ControlOK, MaxOf
<1>2. r \in MinRate .. hi /\ (r = MinRate \/ r <= MaxDelivered(samples))
  <2> HIDE DEF hi
  <2> QED BY <1>1, ClampOK, RateBounds
<1>3. r \in MinRate .. MaxRate /\ r <= rate
  <2> HIDE DEF r, hi
  <2> QED BY <1>1, <1>2, RateBounds DEF ControlOK
<1>4. SetRate(r)
  BY DEF CutRate
<1> HIDE DEF r
<1>5. rate' = r /\ rate' \in MinRate .. MaxRate /\ pacer' \in Nat /\ (PacerFollows => PacerFollows')
  BY <1>3, <1>4, SetRateOK
<1>6. startup' = FALSE /\ cooldown' = CutCooldown
      /\ bestDelivered' = bestDelivered /\ stagnant' = stagnant
  BY DEF CutRate
<1>7. ControlOK'
  <2>1. startup' \in BOOLEAN /\ ~startup'
    BY <1>6
  <2>2. stagnant' \in 0 .. StagnantExit /\ cooldown' \in 0 .. CutCooldown
        /\ (bestDelivered' = 0 \/ bestDelivered' \in Deliveries)
    BY <1>6 DEF ControlOK, CutCooldown
  <2> QED BY <1>5, <2>1, <2>2 DEF ControlOK
<1> QED BY <1>2, <1>3, <1>5, <1>6, <1>7 DEF DecisionOK

LEMMA StartupOK ==
  ASSUME ControlOK, cooldown = 0, NEW d \in Deliveries, NEW samples,
         MaxDelivered(samples) \in Nat, StartupSample(d, samples)
  PROVE  DecisionOK(MaxDelivered(samples))
<1>1. cooldown' = 0 /\ startup /\ rate \in Nat /\ MinRate <= rate /\ rate <= MaxRate
  BY RateBounds DEF StartupSample, ControlOK
<1>2. CASE /\ bestDelivered' = d /\ stagnant' = 0
           /\ SetRate(MinOf(2 * rate, MaxRate)) /\ startup' = startup
  <2>1. MinOf(2 * rate, MaxRate) \in MinRate .. MaxRate
    BY <1>1, RateBounds DEF MinOf
  <2>2. rate' \in MinRate .. MaxRate /\ pacer' \in Nat /\ (PacerFollows => PacerFollows')
    BY <1>2, <2>1, SetRateOK
  <2> QED BY <1>1, <1>2, <2>2 DEF DecisionOK, ControlOK, CutCooldown, StagnantExit
<1>3. CASE /\ stagnant' = stagnant + 1
           /\ startup' = (stagnant + 1 < StagnantExit)
           /\ SetRate(IF startup' THEN rate
                      ELSE Clamp(MaxDelivered(samples), MinRate, MaxOf(rate, MinRate)))
           /\ bestDelivered' = bestDelivered
  <2> DEFINE r == IF startup' THEN rate
                  ELSE Clamp(MaxDelivered(samples), MinRate, MaxOf(rate, MinRate))
  <2>1. MaxOf(rate, MinRate) = rate
    BY <1>1, RateBounds DEF MaxOf
  <2>2. Clamp(MaxDelivered(samples), MinRate, rate) \in MinRate .. rate
    BY <1>1, ClampOK, RateBounds
  <2>3. r \in MinRate .. MaxRate /\ r <= rate
    BY <1>1, <2>1, <2>2, RateBounds
  <2>4. SetRate(r)
    BY <1>3
  <2> HIDE DEF r
  <2>5. rate' = r /\ rate' \in MinRate .. MaxRate /\ pacer' \in Nat
        /\ (PacerFollows => PacerFollows')
    BY <2>3, <2>4, SetRateOK
  <2>6. stagnant' \in 0 .. StagnantExit /\ startup' \in BOOLEAN
        /\ (startup' => stagnant' < StagnantExit)
    <3>1. stagnant \in 0 .. StagnantExit /\ stagnant < StagnantExit
      BY <1>1 DEF ControlOK
    <3>2. stagnant' \in 0 .. StagnantExit
      BY <1>3, <3>1 DEF StagnantExit
    <3>3. CASE stagnant + 1 < StagnantExit
      BY <1>3, <3>2, <3>3
    <3>4. CASE ~(stagnant + 1 < StagnantExit)
      <4> DEFINE more == stagnant + 1 < StagnantExit
      <4>1. startup' = more
        BY <1>3
      <4>2. ~more /\ more \in BOOLEAN
        BY <3>4
      <4>3. more = FALSE
        <5> HIDE DEF more
        <5> QED BY <4>2
      <4>4. ~startup' /\ startup' \in BOOLEAN
        BY <4>1, <4>3
      <4> QED BY <3>2, <4>4
    <3> QED BY <3>3, <3>4
  <2> QED BY <1>1, <1>3, <2>3, <2>5, <2>6 DEF DecisionOK, ControlOK, CutCooldown
<1> QED BY <1>2, <1>3 DEF StartupSample

(* A decision that only grows or holds the rate. *)
LEMMA GrowOK ==
  ASSUME ControlOK, cooldown = 0, NEW r \in MinRate .. MaxRate, NEW top, SetRate(r),
         UNCHANGED <<startup, bestDelivered, stagnant, cooldown>>
  PROVE  DecisionOK(top)
<1>1. rate' \in MinRate .. MaxRate /\ pacer' \in Nat /\ (PacerFollows => PacerFollows')
  BY SetRateOK
<1> QED BY <1>1 DEF DecisionOK, ControlOK, CutCooldown

LEMMA DecideOK ==
  ASSUME ControlOK, cooldown = 0, NEW raw, NEW loss, NEW floor, NEW d \in Deliveries,
         NEW samples, MaxDelivered(samples) \in Nat, NEW saturated,
         Decide(raw, loss, floor, d, samples, saturated)
  PROVE  DecisionOK(MaxDelivered(samples))
<1>1. rate \in MinRate .. MaxRate
  BY DEF ControlOK
<1>2. CASE CutRate(raw, loss, floor, samples)
  BY <1>2, CutOK
<1>3. CASE Hold
  BY <1>1, <1>3, GrowOK DEF Hold
<1>4. CASE MiddleBand
  <2>1. CASE startup
    BY <1>1, <1>4, <2>1, GrowOK DEF MiddleBand
  <2>2. CASE ~startup
    BY <1>4, <2>2, GrownOK, GrowOK DEF MiddleBand
  <2> QED BY <2>1, <2>2
<1>5. CASE StartupSample(d, samples)
  BY <1>5, StartupOK
<1>6. CASE SteadyGrowth(floor, samples)
  BY <1>6, GrownOK, GrowOK DEF SteadyGrowth
<1> QED BY <1>2, <1>3, <1>4, <1>5, <1>6 DEF Decide


-----------------------------------------------------------------------------
(* The inductive invariant: the types, startup's count below its exit, and *)
(* a finite max filter (so that it has a maximum), with the two safety     *)
(* invariants.                                                             *)
RateInv ==
  /\ ControlOK
  /\ lossEwma = None \/ lossEwma \in Losses
  /\ lossFloor = None \/ lossFloor \in Losses
  /\ delivered \subseteq Samples /\ IsFiniteSet(delivered)
  /\ last \in BOOLEAN
  /\ PacerFollows
  /\ CutToDelivered

LEMMA InitRateInv == Init => RateInv
<1> SUFFICES ASSUME Init PROVE RateInv
  OBVIOUS
<1>1. rate \in MinRate .. MaxRate /\ (StartRate <= MaxRate => pacer = rate) /\ pacer \in Nat
  BY RateBounds, RateAssumption DEF Init, MinOf
<1>2. startup \in BOOLEAN /\ stagnant \in 0 .. StagnantExit /\ stagnant < StagnantExit
      /\ cooldown \in 0 .. CutCooldown /\ cooldown # CutCooldown
  BY DEF Init, StagnantExit, CutCooldown
<1>3. ControlOK
  BY <1>1, <1>2 DEF Init, ControlOK
<1>4. delivered \subseteq Samples /\ IsFiniteSet(delivered)
  BY FS_EmptySet DEF Init
<1> QED BY <1>1, <1>2, <1>3, <1>4 DEF Init, RateInv, PacerFollows, CutToDelivered

(* The values that the smoothing may give are losses. *)
LEMMA SmoothedOK ==
  ASSUME RateInv, NEW raw \in Losses, NEW loss \in Smoothed(raw), NEW floor \in FloorAfter(loss)
  PROVE  loss \in Losses /\ floor \in Losses
<1>1. loss \in Losses
  BY DEF Smoothed, Between
<1>2. lossFloor = None \/ lossFloor \in Losses
  BY DEF RateInv
<1>3. lossFloor # None => floor \in Losses
  BY <1>2 DEF FloorAfter, Between
<1> QED BY <1>1, <1>3 DEF FloorAfter

(* Aging the samples keeps the rates among them. *)
LEMMA AgedRates ==
  ASSUME NEW gap, NEW s \in delivered
  PROVE  \E t \in Aged(gap) : t[2] = s[2]
<1>1. <<MinOf(s[1] + gap, Window + 1), s[2]>> \in Aged(gap)
  BY DEF Aged
<1> QED BY <1>1

(* What a step keeps that is not about delivered and the losses. *)
ExitOK == /\ ~startup => ~startup'
          /\ startup /\ ~startup' => rate' <= rate

LEMMA ReportOK ==
  ASSUME RateInv, NEW raw \in Losses, NEW loss \in Losses, NEW floor \in Losses,
         NEW d \in Deliveries, NEW use \in Uses, NEW gap \in Gaps,
         ReportWith(raw, loss, floor, d, use, gap)
  PROVE  RateInv' /\ ExitOK
<1>1. lossEwma' = loss /\ lossFloor' = floor /\ last' = last /\ last \in BOOLEAN
  BY DEF ReportWith, RateInv
<1>2. ControlOK /\ PacerFollows /\ CutToDelivered
      /\ IsFiniteSet(delivered) /\ delivered \subseteq Samples
  BY DEF RateInv
<1> DEFINE F == Filtered(d, gap)
<1>3. /\ IsFiniteSet(F) /\ F \subseteq Samples
      /\ Aged(gap) \subseteq Samples /\ IsFiniteSet(Aged(gap))
      /\ MaxDelivered(F) \in Nat /\ \E s \in F : MaxDelivered(F) = s[2]
  BY <1>2, FilteredOK
<1> HIDE DEF F
<1>4. CASE delivered' = Aged(gap) /\ Hold
  <2>1. UNCHANGED <<rate, startup, bestDelivered, stagnant, cooldown, pacer>>
    BY <1>4 DEF Hold, SetRate
  <2>2. ControlOK' /\ PacerFollows' /\ ExitOK
    BY <1>2, <2>1 DEF ControlOK, PacerFollows, ExitOK
  <2>3. CutToDelivered'
    BY <1>2, <1>4, <2>1, AgedRates DEF CutToDelivered
  <2> QED BY <1>1, <1>3, <1>4, <2>2, <2>3 DEF RateInv
<1>5. CASE /\ delivered' = F /\ cooldown > 0 /\ cooldown' = cooldown - 1
           /\ UNCHANGED <<rate, startup, bestDelivered, stagnant, pacer>>
  <2>1. cooldown' \in 0 .. CutCooldown /\ cooldown' # CutCooldown
    BY <1>2, <1>5 DEF ControlOK, CutCooldown
  <2>2. ControlOK' /\ PacerFollows' /\ ExitOK /\ CutToDelivered'
    BY <1>2, <1>5, <2>1 DEF ControlOK, PacerFollows, ExitOK, CutToDelivered
  <2> QED BY <1>1, <1>3, <1>5, <2>2 DEF RateInv
<1>6. CASE /\ delivered' = F /\ cooldown = 0
           /\ Decide(raw, loss, floor, d, F, use = "saturated")
  <2>1. DecisionOK(MaxDelivered(F))
    BY <1>2, <1>3, <1>6, DecideOK
  <2>2. ControlOK' /\ PacerFollows' /\ ExitOK
    BY <1>2, <2>1 DEF DecisionOK, ExitOK
  <2>3. CutToDelivered'
    BY <1>3, <1>6, <2>1 DEF DecisionOK, CutToDelivered
  <2> QED BY <1>1, <1>3, <1>6, <2>2, <2>3 DEF RateInv
<1> QED BY <1>4, <1>5, <1>6 DEF ReportWith, F

LEMMA StepRateInv ==
  ASSUME RateInv, [Next]_vars
  PROVE  RateInv' /\ (ExitOK \/ UNCHANGED vars)
<1>1. CASE UNCHANGED vars
  BY <1>1 DEF vars, RateInv, ControlOK, PacerFollows, CutToDelivered
<1>2. CASE FirstReport
  BY <1>2 DEF FirstReport, RateInv, ControlOK, PacerFollows, CutToDelivered, ExitOK
<1>3. ASSUME NEW gap \in Gaps, IdleReport(gap) PROVE RateInv' /\ ExitOK
  <2>1. /\ delivered' = Aged(gap)
        /\ UNCHANGED <<rate, startup, bestDelivered, stagnant, cooldown, lossEwma,
                       lossFloor, last, pacer>>
    BY <1>3 DEF IdleReport
  <2>2. Aged(gap) \subseteq Samples /\ IsFiniteSet(Aged(gap))
    <3>1. CASE Deliveries = {}
      BY <3>1, AgedFinite DEF RateInv, Samples, Aged
    <3>2. CASE Deliveries # {}
      BY <3>2, FilteredOK DEF RateInv
    <3> QED BY <3>1, <3>2
  <2>3. CutToDelivered'
    BY <2>1, AgedRates DEF RateInv, CutToDelivered
  <2> QED BY <2>1, <2>2, <2>3 DEF RateInv, ControlOK, PacerFollows, ExitOK
<1>4. ASSUME NEW raw \in Losses, NEW d \in Deliveries, NEW use \in Uses, NEW gap \in Gaps,
             Report(raw, d, use, gap)
      PROVE  RateInv' /\ ExitOK
  <2>1. PICK loss \in Smoothed(raw) : \E floor \in FloorAfter(loss) :
                                        ReportWith(raw, loss, floor, d, use, gap)
    BY <1>4 DEF Report
  <2>2. PICK floor \in FloorAfter(loss) : ReportWith(raw, loss, floor, d, use, gap)
    BY <2>1
  <2>3. loss \in Losses /\ floor \in Losses
    BY SmoothedOK
  <2> QED BY <2>2, <2>3, ReportOK
<1> QED BY <1>1, <1>2, <1>3, <1>4 DEF Next


LEMMA RateInductive == Spec => []RateInv
<1>1. RateInv /\ [Next]_vars => RateInv'
  BY StepRateInv
<1> QED BY <1>1, InitRateInv, PTL DEF Spec

(* RateController: whatever the reports, the rate stays between            *)
(* MIN_RATE_BPS and the cap and every variable keeps its type.             *)
THEOREM RateTypeOK == Spec => []TypeOK
<1>1. RateInv => TypeOK
  BY DEF RateInv, ControlOK, TypeOK, Samples
<1> QED BY <1>1, RateInductive, PTL

(* drain_feedback: the pacer runs at the controller's rate although        *)
(* on_report only hands out changes.                                       *)
THEOREM RatePacerFollows == Spec => []PacerFollows
<1>1. RateInv => PacerFollows
  BY DEF RateInv
<1> QED BY <1>1, RateInductive, PTL

(* on_report: a cut never leaves the rate above everything in the max      *)
(* filter, for any losses, deliveries and intervals.                       *)
THEOREM RateCutToDelivered == Spec => []CutToDelivered
<1>1. RateInv => CutToDelivered
  BY DEF RateInv
<1> QED BY <1>1, RateInductive, PTL

(* on_report: startup is left once, and never by raising the rate. *)
THEOREM RateStartupExit == Spec => StartupExit
<1> DEFINE Exit == /\ ~startup => ~startup'
                   /\ startup /\ ~startup' => rate' <= rate
<1>1. RateInv /\ [Next]_vars => [Exit]_vars
  BY StepRateInv DEF ExitOK
<1>2. Spec => [][Exit]_vars
  BY <1>1, RateInductive, PTL DEF Spec
<1> QED BY <1>2 DEF StartupExit

-----------------------------------------------------------------------------
(* The measures that make Descends and StartupFinite hold.                 *)

(* Each cut lowers the rate, unless it is at the minimum already. *)
CutLowers == cooldown' > cooldown => rate' = MinRate \/ rate' < rate

(* A decision of startup raises the best delivered rate, or counts a       *)
(* sample that did not, and it does not count past the exit.               *)
StartupCounts ==
  \/ UNCHANGED <<bestDelivered, stagnant>>
  \/ startup /\ bestDelivered' > bestDelivered
  \/ /\ startup /\ bestDelivered' = bestDelivered
     /\ stagnant' = stagnant + 1 /\ stagnant' <= StagnantExit

LEMMA DecideAdvances ==
  ASSUME ControlOK, cooldown = 0, NEW raw, NEW loss, NEW floor, NEW d \in Deliveries,
         NEW samples, MaxDelivered(samples) \in Nat, NEW saturated,
         Decide(raw, loss, floor, d, samples, saturated)
  PROVE  CutLowers /\ StartupCounts
<1>1. rate \in Nat /\ MinRate <= rate /\ 0 < MinRate /\ MinRate \in Nat
  BY RateBounds DEF ControlOK
<1>2. CASE CutRate(raw, loss, floor, samples)
  <2> DEFINE tenth == (rate * 9) \div 10
             hi == MaxOf(tenth, MinRate)
             r == Clamp(MaxDelivered(samples), MinRate, hi)
  <2>1. tenth \in Nat /\ tenth < rate
    BY <1>1
  <2>2. hi \in Nat /\ MinRate <= hi /\ (hi = MinRate \/ hi < rate)
    <3> HIDE DEF tenth
    <3> QED BY <1>1, <2>1 DEF MaxOf
  <2>3. r \in MinRate .. hi
    <3> HIDE DEF hi
    <3> QED BY <1>1, <2>2, ClampOK
  <2>4. r = MinRate \/ r < rate
    <3> HIDE DEF hi, r
    <3> QED BY <1>1, <2>2, <2>3
  <2>5. rate' = r /\ UNCHANGED <<bestDelivered, stagnant>>
    BY <1>2 DEF CutRate, SetRate
  <2> QED BY <2>4, <2>5 DEF CutLowers, StartupCounts
<1>3. CASE Hold \/ MiddleBand \/ SteadyGrowth(floor, samples)
  <2>1. UNCHANGED <<bestDelivered, stagnant, cooldown>>
    BY <1>3 DEF Hold, MiddleBand, SteadyGrowth
  <2> QED BY <2>1 DEF CutLowers, StartupCounts
<1>4. CASE StartupSample(d, samples)
  <2>1. cooldown' = 0 /\ startup
    BY <1>4 DEF StartupSample
  <2>2. bestDelivered \in Nat /\ d \in Nat /\ stagnant \in Nat /\ stagnant < StagnantExit
    <3>1. bestDelivered \in Nat /\ d \in Nat
      <4>1. Deliveries \subseteq Nat
        BY RateAssumption
      <4>2. bestDelivered = 0 \/ bestDelivered \in Deliveries
        BY DEF ControlOK
      <4>3. CASE bestDelivered = 0
        BY <4>1, <4>3
      <4>4. CASE bestDelivered \in Deliveries
        BY <4>1, <4>4, Zenon
      <4> QED BY <4>2, <4>3, <4>4
    <3>2. stagnant \in 0 .. StagnantExit /\ stagnant < StagnantExit
      BY <2>1 DEF ControlOK
    <3>3. stagnant \in Nat
      BY <3>2 DEF StagnantExit
    <3> QED BY <3>1, <3>2, <3>3
  <2>3. CASE 10 * d > 11 * bestDelivered /\ bestDelivered' = d
    BY <2>1, <2>2, <2>3 DEF StartupCounts, CutLowers
  <2>4. CASE stagnant' = stagnant + 1 /\ bestDelivered' = bestDelivered
    BY <2>1, <2>2, <2>4 DEF StartupCounts, CutLowers, StagnantExit
  <2> QED BY <1>4, <2>3, <2>4 DEF StartupSample
<1> QED BY <1>2, <1>3, <1>4 DEF Decide

LEMMA StepAdvances ==
  ASSUME RateInv, Next
  PROVE  CutLowers /\ StartupCounts
<1>1. ControlOK /\ cooldown \in Nat
  BY DEF RateInv, ControlOK
<1>2. CASE UNCHANGED <<rate, bestDelivered, stagnant>> /\ ~(cooldown' > cooldown)
  BY <1>2 DEF CutLowers, StartupCounts
<1>3. CASE FirstReport \/ \E gap \in Gaps : IdleReport(gap)
  BY <1>1, <1>2, <1>3 DEF FirstReport, IdleReport
<1>4. ASSUME NEW raw \in Losses, NEW d \in Deliveries, NEW use \in Uses, NEW gap \in Gaps,
             Report(raw, d, use, gap)
      PROVE  CutLowers /\ StartupCounts
  <2>1. PICK loss, floor : ReportWith(raw, loss, floor, d, use, gap)
    BY <1>4 DEF Report
  <2>2. MaxDelivered(Filtered(d, gap)) \in Nat
    BY FilteredOK DEF RateInv
  <2>3. CASE use = "limited" /\ Hold
    BY <1>1, <1>2, <2>3 DEF Hold, SetRate
  <2>4. CASE cooldown > 0 /\ cooldown' = cooldown - 1 /\ UNCHANGED <<rate, bestDelivered, stagnant>>
    BY <1>1, <1>2, <2>4
  <2>5. CASE cooldown = 0 /\ Decide(raw, loss, floor, d, Filtered(d, gap), use = "saturated")
    BY <1>1, <2>2, <2>5, DecideAdvances
  <2> QED BY <2>1, <2>3, <2>4, <2>5 DEF ReportWith
<1> QED BY <1>3, <1>4 DEF Next

(* on_report: whatever the delivered estimates say, a cut lowers the rate  *)
(* or leaves it at MIN_RATE_BPS, so a sender that is only cut comes down   *)
(* to the minimum (the step behind Descends).                              *)
THEOREM RateCutsDescend == Spec => [][CutLowers]_vars
<1>1. RateInv /\ [Next]_vars => [CutLowers]_vars
  BY StepAdvances
<1> QED BY <1>1, RateInductive, PTL DEF Spec

(* on_report: the best delivered rate and the count of stagnant samples    *)
(* only move in startup and only upwards, the count up to                  *)
(* STARTUP_STAGNANT_EXIT for each best rate (the measure behind            *)
(* StartupFinite).                                                         *)
THEOREM RateStartupCounts == Spec => [][StartupCounts]_vars
<1>1. RateInv /\ [Next]_vars => [StartupCounts]_vars
  BY StepAdvances
<1> QED BY <1>1, RateInductive, PTL DEF Spec

-----------------------------------------------------------------------------
(* The closed loop.                                                        *)

(* A share of m is no more than m. *)
LEMMA ShareBound ==
  ASSUME NEW b \in Nat, NEW m \in Nat, NEW s \in Nat, 0 < s, b <= s
  PROVE  (b * m) \div s \in 0 .. m
<1> DEFINE x == b * m
           q == x \div s
<1>1. x \in Nat /\ x <= s * m
  OBVIOUS
<1>2. q \in Nat /\ s * q <= x
  <2> HIDE DEF x
  <2> QED BY <1>1
<1>3. ASSUME m + 1 <= q PROVE FALSE
  <2> HIDE DEF q, x
  <2>1. s * (m + 1) <= s * q
    BY <1>2, <1>3
  <2>2. s * (m + 1) = s * m + s
    OBVIOUS
  <2>3. s * m \in Nat /\ s * q \in Nat
    BY <1>2
  <2> QED BY <1>1, <1>2, <2>1, <2>2, <2>3
<1> QED BY <1>2, <1>3

(* What the instance of the loop takes for the reports of RateControl. *)
LoopReports == /\ Losses = 0 .. 100 * Scale
               /\ Deliveries = 1 .. MaxRate
               /\ 1 \in Gaps

LEMMA PathOK ==
  ASSUME path \in Paths
  PROVE  /\ path.bottleneck \in Nat /\ 0 < path.bottleneck
         /\ path.loss \in Nat /\ path.loss <= 99 * Scale
         /\ path.duty \in Nat /\ path.duty <= 100
BY LoopAssumption, RateAssumption

LEMMA SentOK ==
  ASSUME ControlOK, path \in Paths
  PROVE  SentRate \in Nat /\ SentRate <= rate /\ rate \in Nat /\ rate <= MaxRate
<1>1. rate \in Nat /\ rate <= MaxRate
  BY RateBounds DEF ControlOK
<1>2. (path.duty * rate) \div 100 \in 0 .. rate
  BY <1>1, PathOK, ShareBound
<1>3. rate * path.duty = path.duty * rate
  BY <1>1, PathOK
<1> QED BY <1>1, <1>2, <1>3 DEF SentRate

(* The path's answer is a report. *)
LEMMA AnswerOK ==
  ASSUME ControlOK, path \in Paths, SentRate > 0, LoopReports
  PROVE  RawLoss \in Losses /\ DeliveredRate \in Deliveries /\ Use \in Uses
<1>1. /\ SentRate \in Nat /\ SentRate <= rate /\ rate \in Nat /\ rate <= MaxRate
      /\ MaxRate \in Nat /\ 0 < MaxRate /\ Scale \in Nat /\ 0 < Scale
  BY SentOK, RateBounds, RateAssumption
<1>2. RawLoss \in Losses
  <2>1. CASE SentRate <= path.bottleneck
    BY <1>1, <2>1, PathOK DEF RawLoss, LoopReports
  <2>2. CASE path.bottleneck < SentRate
    <3> DEFINE m == 100 * Scale - path.loss
    <3>1. m \in Nat /\ m <= 100 * Scale
      BY <1>1, PathOK
    <3>2. (path.bottleneck * m) \div SentRate \in 0 .. m
      <4> HIDE DEF m
      <4> QED BY <1>1, <2>2, <3>1, PathOK, ShareBound
    <3>3. RawLoss = 100 * Scale - (path.bottleneck * m) \div SentRate
      BY <1>1, <2>2, PathOK DEF RawLoss
    <3> HIDE DEF m
    <3> QED BY <1>1, <3>1, <3>2, <3>3 DEF LoopReports
  <2> QED BY <1>1, <2>1, <2>2, PathOK
<1>3. DeliveredRate \in Deliveries
  <2> DEFINE k == 100 - path.loss \div Scale
             n == MinOf(SentRate, path.bottleneck)
  <2>1. n \in Nat /\ n <= SentRate
    BY <1>1, PathOK DEF MinOf
  <2>2. k \in Nat /\ k <= 100
    <3>1. path.loss \div Scale \in Nat /\ Scale * (path.loss \div Scale) <= path.loss
      BY <1>1, PathOK
    <3>2. ASSUME 100 <= path.loss \div Scale PROVE FALSE
      <4>1. Scale * 100 <= Scale * (path.loss \div Scale)
        BY <1>1, <3>1, <3>2
      <4> QED BY <1>1, <3>1, <4>1, PathOK
    <3> QED BY <3>1, <3>2
  <2>3. (k * n) \div 100 \in 0 .. n
    <3> HIDE DEF k, n
    <3> QED BY <2>1, <2>2, ShareBound
  <2>4. n * k = k * n
    <3> HIDE DEF k, n
    <3> QED BY <2>1, <2>2
  <2>5. DeliveredRate = MaxOf(1, (n * k) \div 100)
    BY DEF DeliveredRate
  <2> HIDE DEF k, n
  <2> QED BY <1>1, <2>1, <2>3, <2>4, <2>5 DEF LoopReports, MaxOf
<1>4. Use \in Uses
  BY DEF Use, Uses
<1> QED BY <1>2, <1>3, <1>4

(* The fixed-point smoothing ends where RateControl lets it. *)
LEMMA SmoothingOK ==
  ASSUME RateInv, LoopReports, NEW raw \in Losses
  PROVE  /\ LossAfter(raw) \in Smoothed(raw)
         /\ FloorAt(LossAfter(raw)) \in FloorAfter(LossAfter(raw))
<1>1. Scale \in Nat /\ 0 < Scale /\ CutExcess \in Nat /\ 0 < CutExcess
  BY RateAssumption DEF CutExcess
<1>2. LossAfter(raw) \in Smoothed(raw) /\ LossAfter(raw) \in Losses
  BY <1>1 DEF RateInv, LoopReports, LossAfter, Smoothed, Between, MinOf, MaxOf
<1> DEFINE loss == LossAfter(raw)
<1>3. loss \in Nat /\ loss <= 100 * Scale
  BY <1>1, <1>2 DEF LoopReports
<1> HIDE DEF loss
<1>4. FloorAt(loss) \in FloorAfter(loss)
  <2>1. CASE lossFloor = None
    BY <2>1 DEF FloorAt, FloorAfter
  <2>2. CASE lossFloor # None
    <3>1. lossFloor \in Nat /\ lossFloor <= 100 * Scale
      BY <1>1, <2>2 DEF RateInv, LoopReports
    <3>2. CASE loss < lossFloor
      BY <1>1, <1>3, <2>2, <3>1, <3>2 DEF FloorAt, FloorAfter, Between, LoopReports
    <3>3. CASE lossFloor <= loss /\ cooldown > 0
      BY <1>1, <1>3, <2>2, <3>1, <3>3 DEF FloorAt, FloorAfter
    <3>4. CASE lossFloor <= loss /\ ~(cooldown > 0)
      <4> DEFINE g == MinOf(loss - lossFloor, CutExcess)
                 z == (g * Relax) \div 1000
      <4>1. g \in Nat /\ lossFloor + g <= loss /\ lossFloor + g <= lossFloor + CutExcess
        BY <1>1, <1>3, <3>1, <3>4 DEF MinOf
      <4>2. Relax = 20 \/ Relax = 4
        BY DEF Relax
      <4>3. z \in Nat /\ z <= g
        <5> HIDE DEF g
        <5> QED BY <4>1, <4>2
      <4>4. FloorAt(loss) = lossFloor + z
        BY <1>1, <1>3, <2>2, <3>1, <3>4 DEF FloorAt
      <4> HIDE DEF g, z
      <4>5. lossFloor + z \in Losses /\ lossFloor <= lossFloor + z
            /\ lossFloor + z <= MinOf(loss, lossFloor + CutExcess)
        BY <1>1, <1>3, <3>1, <4>1, <4>3 DEF LoopReports, MinOf
      <4>6. FloorAfter(loss) = Between(lossFloor, MinOf(loss, lossFloor + CutExcess))
        BY <1>1, <1>3, <2>2, <3>1, <3>4 DEF FloorAfter
      <4> QED BY <4>4, <4>5, <4>6 DEF Between
    <3> QED BY <1>3, <3>1, <3>2, <3>3, <3>4
  <2> QED BY <2>1, <2>2
<1> QED BY <1>2, <1>4 DEF loss


(* A step of the loop is a step of the controller. *)
LEMMA LoopStep ==
  ASSUME LoopReports, RateInv, path \in Paths, [LoopNext]_loopVars
  PROVE  [Next]_vars /\ (path \in Paths)'
<1>1. CASE UNCHANGED loopVars
  BY <1>1 DEF loopVars
<1>2. CASE LoopFirst
  BY <1>2 DEF LoopFirst, Next
<1>3. CASE LoopReport
  <2>1. RawLoss \in Losses /\ DeliveredRate \in Deliveries /\ Use \in Uses
    BY <1>3, AnswerOK DEF LoopReport, RateInv
  <2> DEFINE loss == LossAfter(RawLoss)
  <2>2. loss \in Smoothed(RawLoss) /\ FloorAt(loss) \in FloorAfter(loss)
    BY <2>1, SmoothingOK
  <2>3. ReportWith(RawLoss, loss, FloorAt(loss), DeliveredRate, Use, 1)
    BY <1>3 DEF LoopReport
  <2>4. Report(RawLoss, DeliveredRate, Use, 1)
    <3> HIDE DEF loss
    <3> QED BY <2>2, <2>3 DEF Report
  <2>5. 1 \in Gaps
    BY DEF LoopReports
  <2>6. Next
    BY <2>1, <2>4, <2>5 DEF Next
  <2> QED BY <1>3, <2>6 DEF LoopReport
<1>4. CASE LoopIdle
  BY <1>4 DEF LoopIdle, LoopReports, Next
<1>5. ASSUME NEW q \in Paths, Change(q) PROVE [Next]_vars /\ (path \in Paths)'
  BY <1>5 DEF Change
<1> QED BY <1>1, <1>2, <1>3, <1>4, <1>5 DEF LoopNext

(* The closed loop, with on_report's smoothing in fixed point and a path   *)
(* that answers its sending, implements the controller of RateControl,     *)
(* which leaves the smoothing and the reports open: what is proved of the  *)
(* controller holds in the loop.                                           *)
THEOREM LoopImplementsControl ==
  ASSUME LoopReports
  PROVE  LoopSpec => Spec
<1> DEFINE Inv == RateInv /\ path \in Paths
<1>1. LoopInit => Init /\ Inv
  BY InitRateInv DEF LoopInit
<1>2. Inv /\ [LoopNext]_loopVars => Inv' /\ [Next]_vars
  BY LoopStep, StepRateInv
<1> QED BY <1>1, <1>2, PTL DEF LoopSpec, Spec

-----------------------------------------------------------------------------
(* The pacer, for any cap.                                                 *)

(* The pacer runs at the controller's rate, or still at START_RATE_BPS     *)
(* because the rate has not changed since it was capped below that at the  *)
(* start; it is never at or below zero, where pace() does not wait at all. *)
PacerExact ==
  /\ pacer = rate \/ (pacer = StartRate /\ rate = MaxRate /\ MaxRate < StartRate)
  /\ 0 < pacer

(* A decision hands the pacer one rate. *)
LEMMA DecideSets ==
  ASSUME NEW raw, NEW loss, NEW floor, NEW d, NEW samples, NEW saturated,
         Decide(raw, loss, floor, d, samples, saturated)
  PROVE  \E r : SetRate(r)
<1>1. CASE CutRate(raw, loss, floor, samples)
  BY <1>1, Zenon DEF CutRate
<1>2. CASE Hold
  BY <1>2, Zenon DEF Hold
<1>3. CASE MiddleBand
  BY <1>3, Zenon DEF MiddleBand
<1>4. CASE StartupSample(d, samples)
  BY <1>4, Zenon DEF StartupSample
<1>5. CASE SteadyGrowth(floor, samples)
  BY <1>5, Zenon DEF SteadyGrowth
<1> QED BY <1>1, <1>2, <1>3, <1>4, <1>5, Zenon DEF Decide

LEMMA StepSets ==
  ASSUME [Next]_vars
  PROVE  UNCHANGED <<rate, pacer>> \/ \E r : SetRate(r)
<1>1. CASE UNCHANGED vars
  BY <1>1 DEF vars
<1>2. CASE FirstReport \/ \E gap \in Gaps : IdleReport(gap)
  BY <1>2 DEF FirstReport, IdleReport
<1>3. ASSUME NEW raw \in Losses, NEW d \in Deliveries, NEW use \in Uses, NEW gap \in Gaps,
             Report(raw, d, use, gap)
      PROVE  UNCHANGED <<rate, pacer>> \/ \E r : SetRate(r)
  <2>1. PICK loss, floor : ReportWith(raw, loss, floor, d, use, gap)
    BY <1>3 DEF Report
  <2>2. \/ Hold \/ UNCHANGED <<rate, pacer>>
        \/ Decide(raw, loss, floor, d, Filtered(d, gap), use = "saturated")
    BY <2>1 DEF ReportWith
  <2>3. Hold => \E r : SetRate(r)
    BY Zenon DEF Hold
  <2> QED BY <2>2, <2>3, DecideSets
<1> QED BY <1>1, <1>2, <1>3 DEF Next

(* drain_feedback and Pacer::pace, for any cap: the pacer differs from the *)
(* controller's rate only until the first change of a rate that the cap    *)
(* put below START_RATE_BPS, and the sender is never left unpaced.         *)
THEOREM RatePacerExact == Spec => []PacerExact
<1> DEFINE Lag == pacer = rate \/ (pacer = StartRate /\ rate = MaxRate /\ MaxRate < StartRate)
<1>1. Init => Lag
  BY RateAssumption, RateBounds DEF Init, MinOf
<1>2. Lag /\ [Next]_vars => Lag'
  <2> SUFFICES ASSUME Lag, [Next]_vars PROVE Lag'
    OBVIOUS
  <2>1. CASE UNCHANGED <<rate, pacer>>
    BY <2>1
  <2>2. ASSUME NEW r, SetRate(r) PROVE Lag'
    BY <2>2 DEF SetRate
  <2> QED BY <2>1, <2>2, StepSets
<1>3. RateInv /\ Lag => PacerExact
  BY RateAssumption, RateBounds DEF RateInv, ControlOK, PacerExact
<1> QED BY <1>1, <1>2, <1>3, RateInductive, PTL DEF Spec

-----------------------------------------------------------------------------
(* What the loop's controller knows of the path.                           *)

(* What the path delivers of a sending that fills it. *)
PathDelivers == MaxOf(1, (path.bottleneck * (100 - path.loss \div Scale)) \div 100)

(* A sample of the max filter that exceeds what the path delivers is older *)
(* than the path.                                                          *)
SamplesOfPath ==
  \A s \in delivered : s[2] <= PathDelivers \/ s[1] >= calm \/ s[1] = Window + 1

LoopInv == RateInv /\ path \in Paths /\ calm \in Nat /\ SamplesOfPath

(* A factor keeps the order. *)
LEMMA TimesMonotone ==
  ASSUME NEW a \in Nat, NEW b \in Nat, NEW k \in Nat, a <= b
  PROVE  a * k <= b * k /\ k * a <= k * b /\ a * k \in Nat /\ b * k \in Nat
OBVIOUS

LEMMA DivMonotone ==
  ASSUME NEW a \in Nat, NEW b \in Nat, a <= b
  PROVE  a \div 100 <= b \div 100 /\ a \div 100 \in Nat /\ b \div 100 \in Nat
OBVIOUS

(* The share of the sending that survives the path's own loss. *)
LEMMA ShareOK ==
  ASSUME path \in Paths
  PROVE  100 - path.loss \div Scale \in Nat
<1>1. Scale \in Nat /\ 0 < Scale /\ path.loss \in Nat /\ path.loss <= 99 * Scale
  BY RateAssumption, PathOK
<1> DEFINE q == path.loss \div Scale
<1>2. q \in Nat /\ Scale * q <= path.loss
  BY <1>1
<1>3. ASSUME 100 <= q PROVE FALSE
  <2> HIDE DEF q
  <2>1. Scale * 100 <= Scale * q
    BY <1>1, <1>2, <1>3
  <2> QED BY <1>1, <1>2, <2>1
<1> HIDE DEF q
<1>4. 100 - q \in Nat
  BY <1>2, <1>3
<1> QED BY <1>4 DEF q

(* A report shows no more than the path delivers. *)
LEMMA DeliversOK ==
  ASSUME ControlOK, path \in Paths
  PROVE  PathDelivers \in Nat /\ DeliveredRate \in Nat /\ DeliveredRate <= PathDelivers
<1> DEFINE k == 100 - path.loss \div Scale
           n == MinOf(SentRate, path.bottleneck)
           b == path.bottleneck
<1>1. k \in Nat
  BY ShareOK
<1>2. n \in Nat /\ b \in Nat /\ n <= b
  BY SentOK, PathOK DEF MinOf
<1>3. DeliveredRate = MaxOf(1, (n * k) \div 100) /\ PathDelivers = MaxOf(1, (b * k) \div 100)
  BY DEF DeliveredRate, PathDelivers
<1> HIDE DEF k, n, b
<1>4. n * k \in Nat /\ b * k \in Nat /\ n * k <= b * k
  BY <1>1, <1>2, TimesMonotone
<1> DEFINE x == n * k
           y == b * k
<1>5. x \div 100 \in Nat /\ y \div 100 \in Nat /\ x \div 100 <= y \div 100
  <2>1. x \in Nat /\ y \in Nat /\ x <= y
    BY <1>4
  <2> HIDE DEF x, y
  <2> QED BY <2>1, DivMonotone
<1> DEFINE u == x \div 100
           v == y \div 100
<1>6. DeliveredRate = MaxOf(1, u) /\ PathDelivers = MaxOf(1, v)
  BY <1>3
<1>7. u \in Nat /\ v \in Nat /\ u <= v
  BY <1>5
<1> HIDE DEF u, v
<1> QED BY <1>6, <1>7 DEF MaxOf

(* A report makes the samples and the path a unit older. *)
LEMMA AgedOfPath ==
  ASSUME LoopInv
  PROVE  \A s \in Aged(1) : \/ s[2] <= PathDelivers \/ s[1] >= MinOf(calm + 1, CalmReports)
                            \/ s[1] = Window + 1
<1> SUFFICES ASSUME NEW s \in delivered
             PROVE  \/ s[2] <= PathDelivers
                    \/ MinOf(s[1] + 1, Window + 1) >= MinOf(calm + 1, CalmReports)
                    \/ MinOf(s[1] + 1, Window + 1) = Window + 1
  BY DEF Aged
<1>1. s[1] \in Nat /\ Window \in Nat /\ calm \in Nat /\ CalmReports \in Nat
  BY RateAssumption, LoopAssumption DEF LoopInv, RateInv, Samples
<1>2. s[2] <= PathDelivers \/ s[1] >= calm \/ s[1] = Window + 1
  BY DEF LoopInv, SamplesOfPath
<1> DEFINE a == s[1]
<1>3. a >= calm \/ a = Window + 1
      => \/ MinOf(a + 1, Window + 1) >= MinOf(calm + 1, CalmReports)
         \/ MinOf(a + 1, Window + 1) = Window + 1
  <2>1. a \in Nat
    BY <1>1
  <2> HIDE DEF a
  <2> QED BY <1>1, <2>1 DEF MinOf
<1> QED BY <1>2, <1>3

(* On a path older than the window the max filter shows no more than the   *)
(* path delivers.                                                          *)
LEMMA FilterOfPath ==
  ASSUME LoopReports, LoopInv, SentRate > 0
  PROVE  /\ \A s \in Filtered(DeliveredRate, 1) :
               \/ s[2] <= PathDelivers \/ s[1] >= MinOf(calm + 1, CalmReports)
               \/ s[1] = Window + 1
         /\ MaxDelivered(Filtered(DeliveredRate, 1)) \in Nat
         /\ MinOf(calm + 1, CalmReports) > Window
              => MaxDelivered(Filtered(DeliveredRate, 1)) <= PathDelivers
<1> DEFINE F == Filtered(DeliveredRate, 1)
           c == MinOf(calm + 1, CalmReports)
<1>1. ControlOK /\ path \in Paths /\ IsFiniteSet(delivered) /\ delivered \subseteq Samples
  BY DEF LoopInv, RateInv
<1>2. DeliveredRate \in Deliveries /\ 1 \in Gaps
  BY <1>1, AnswerOK DEF LoopReports
<1>3. DeliveredRate <= PathDelivers /\ PathDelivers \in Nat
  BY <1>1, DeliversOK
<1>4. \A s \in F : \/ s[2] <= PathDelivers
                   \/ s \in Aged(1) /\ s[1] <= Window
  <2> SUFFICES ASSUME NEW s \in F PROVE s[2] <= PathDelivers \/ (s \in Aged(1) /\ s[1] <= Window)
    OBVIOUS
  <2>1. s = <<0, DeliveredRate>> \/ (s \in Aged(1) /\ s[1] <= Window)
    BY DEF Filtered
  <2> QED BY <1>3, <2>1
<1>5. \A s \in F : s[2] <= PathDelivers \/ s[1] >= c \/ s[1] = Window + 1
  <2> HIDE DEF F
  <2> QED BY <1>4, AgedOfPath
<1>6. MaxDelivered(F) \in Nat /\ F \subseteq Samples /\ \E s \in F : MaxDelivered(F) = s[2]
  BY <1>1, <1>2, FilteredOK
<1>7. ASSUME c > Window PROVE MaxDelivered(F) <= PathDelivers
  <2> HIDE DEF F
  <2>1. PICK s \in F : MaxDelivered(F) = s[2]
    BY <1>6
  <2>2. CASE s[2] <= PathDelivers
    BY <2>1, <2>2
  <2>3. CASE s \in Aged(1) /\ s[1] <= Window
    <3>1. s[1] \in Nat /\ Window \in Nat /\ c \in Nat
      BY <1>6, <2>1, RateAssumption, LoopAssumption DEF Samples, LoopInv, MinOf
    <3>2. ~(s[1] >= c) /\ s[1] # Window + 1
      <4> HIDE DEF c
      <4> QED BY <1>7, <2>3, <3>1
    <3> QED BY <1>5, <2>1, <3>2
  <2> QED BY <1>4, <2>1, <2>2, <2>3
<1> QED BY <1>5, <1>6, <1>7

(* What a decision does when the max filter's maximum is at most top: it   *)
(* comes down, by a cut or by leaving startup, to no more than that, and   *)
(* it grows fast only below that with the floor credited back.             *)
Grounded(floor, top) ==
  /\ cooldown' > cooldown \/ (startup /\ ~startup') => rate' <= MaxOf(MinRate, top)
  /\ ~startup /\ rate' > Grown(GrowthSlow)
       => rate * (100 * Scale - MinOf(floor, 50 * Scale)) < 100 * Scale * top

(* A growth does not lower the rate. *)
LEMMA GrownAtLeast ==
  ASSUME ControlOK
  PROVE  rate <= Grown(GrowthSlow) /\ Grown(GrowthSlow) \in Nat /\ rate \in Nat
<1>1. rate \in Nat /\ rate <= MaxRate /\ MaxRate \in Nat
  BY RateBounds DEF ControlOK
<1>2. (rate * 101 + 99) \div 100 \in Nat /\ (rate * 101 + 99) \div 100 >= rate
  BY <1>1
<1> QED BY <1>1, <1>2 DEF Grown, GrowthSlow, MinOf

(* A step that does not change the rate, or lowers it, and neither cuts    *)
(* nor leaves startup.                                                     *)
LEMMA CalmGrounded ==
  ASSUME ControlOK, NEW floor, NEW top, rate' <= Grown(GrowthSlow),
         cooldown' \in Nat, cooldown' <= cooldown, startup' = startup, rate' \in Nat
  PROVE  Grounded(floor, top)
<1>1. ~(cooldown' > cooldown) /\ ~(startup /\ ~startup')
  BY DEF ControlOK
<1>2. ~(rate' > Grown(GrowthSlow))
  BY GrownAtLeast
<1> QED BY <1>1, <1>2 DEF Grounded

LEMMA DecideGrounded ==
  ASSUME ControlOK, cooldown = 0, NEW raw, NEW loss, NEW floor \in Nat, NEW d \in Deliveries,
         NEW samples, MaxDelivered(samples) \in Nat, NEW saturated,
         Decide(raw, loss, floor, d, samples, saturated)
  PROVE  Grounded(floor, MaxDelivered(samples))
<1> DEFINE top == MaxDelivered(samples)
<1>1. /\ rate \in Nat /\ MinRate \in Nat /\ MinRate <= rate /\ top \in Nat
      /\ rate <= Grown(GrowthSlow) /\ Grown(GrowthSlow) \in Nat
  BY RateBounds, GrownAtLeast DEF ControlOK
<1>2. CASE CutRate(raw, loss, floor, samples)
  <2> DEFINE hi == MaxOf((rate * 9) \div 10, MinRate)
             r == Clamp(top, MinRate, hi)
  <2>1. hi \in Nat /\ MinRate <= hi /\ hi <= rate
    BY <1>1 DEF MaxOf
  <2>2. r \in MinRate .. hi /\ (r = MinRate \/ r <= top)
    <3> HIDE DEF hi, top
    <3> QED BY <1>1, <2>1, ClampOK
  <2>3. rate' = r
    BY <1>2 DEF CutRate, SetRate
  <2> HIDE DEF r, hi
  <2>4. rate' <= MaxOf(MinRate, top) /\ ~(rate' > Grown(GrowthSlow))
    <3> HIDE DEF top
    <3> QED BY <1>1, <2>1, <2>2, <2>3 DEF MaxOf
  <2> QED BY <2>4 DEF Grounded
<1>3. CASE Hold
  <2>1. rate' = rate /\ cooldown' = cooldown /\ startup' = startup
    BY <1>3 DEF Hold, SetRate
  <2> QED BY <1>1, <2>1, CalmGrounded
<1>4. CASE MiddleBand
  <2>1. (rate' = rate \/ rate' = Grown(GrowthSlow)) /\ cooldown' = cooldown /\ startup' = startup
    BY <1>4 DEF MiddleBand, SetRate
  <2> QED BY <1>1, <2>1, CalmGrounded
<1>5. CASE StartupSample(d, samples)
  <2>1. startup /\ cooldown' = cooldown
    BY <1>5 DEF StartupSample
  <2>2. ASSUME ~startup' PROVE rate' <= MaxOf(MinRate, top)
    <3>1. rate' = Clamp(top, MinRate, MaxOf(rate, MinRate))
      BY <1>5, <2>1, <2>2 DEF StartupSample, SetRate
    <3>2. MaxOf(rate, MinRate) = rate
      BY <1>1 DEF MaxOf
    <3> HIDE DEF top
    <3>3. rate' \in MinRate .. rate /\ (rate' = MinRate \/ rate' <= top)
      BY <1>1, <3>1, <3>2, ClampOK
    <3> QED BY <1>1, <3>3 DEF MaxOf
  <2>3. ~(cooldown' > cooldown)
    BY <2>1
  <2> QED BY <2>1, <2>2, <2>3 DEF Grounded
<1>6. CASE SteadyGrowth(floor, samples)
  <2>1. startup' = startup /\ cooldown' = cooldown
    BY <1>6 DEF SteadyGrowth
  <2>2. CASE Proven(floor, samples)
    <3>1. rate' = Grown(GrowthSlow)
      BY <1>6, <2>2 DEF SteadyGrowth, SetRate
    <3> QED BY <1>1, <2>1, <3>1, CalmGrounded
  <2>3. CASE ~Proven(floor, samples)
    <3> DEFINE x == rate * (100 * Scale - MinOf(floor, 50 * Scale))
               y == 100 * Scale * top
    <3>1. x \in Int /\ y \in Int
      BY <1>1, RateAssumption DEF MinOf
    <3>2. ~(x >= y)
      BY <2>3 DEF Proven
    <3>3. x < y
      <4> HIDE DEF x, y
      <4> QED BY <3>1, <3>2
    <3>4. ~(cooldown' > cooldown) /\ ~(startup /\ ~startup')
      BY <2>1
    <3> QED BY <3>3, <3>4 DEF Grounded
  <2> QED BY <2>2, <2>3
<1> QED BY <1>2, <1>3, <1>4, <1>5, <1>6 DEF Decide

(* A higher top asks for less. *)
LEMMA GroundedWeakens ==
  ASSUME NEW floor \in Nat, NEW top \in Nat, NEW more \in Nat, top <= more,
         rate \in Nat, rate' \in Nat, Grounded(floor, top)
  PROVE  Grounded(floor, more)
<1>1. MinRate \in Nat /\ Scale \in Nat
  BY RateAssumption
<1>2. MaxOf(MinRate, top) <= MaxOf(MinRate, more)
      /\ MaxOf(MinRate, top) \in Nat /\ MaxOf(MinRate, more) \in Nat
  BY <1>1 DEF MaxOf
<1>3. cooldown' > cooldown \/ (startup /\ ~startup') => rate' <= MaxOf(MinRate, more)
  <2> DEFINE u == MaxOf(MinRate, top)
             v == MaxOf(MinRate, more)
  <2>1. cooldown' > cooldown \/ (startup /\ ~startup') => rate' <= u
    BY DEF Grounded
  <2>2. u <= v /\ u \in Nat /\ v \in Nat
    BY <1>2
  <2> HIDE DEF u, v
  <2>3. rate' <= u => rate' <= v
    BY <2>2
  <2>4. cooldown' > cooldown \/ (startup /\ ~startup') => rate' <= v
    BY <2>1, <2>3, Zenon
  <2> QED BY <2>4 DEF v
<1> DEFINE x == rate * (100 * Scale - MinOf(floor, 50 * Scale))
           k == 100 * Scale
<1>4. x \in Int /\ k \in Nat
  BY <1>1 DEF MinOf
<1>5. x < k * top => x < k * more
  <2> HIDE DEF x, k
  <2>1. k * top <= k * more /\ k * top \in Nat /\ k * more \in Nat
    BY <1>4, TimesMonotone
  <2> QED BY <1>4, <2>1
<1>6. ~startup /\ rate' > Grown(GrowthSlow) => x < k * top
  BY DEF Grounded
<1>7. ~startup /\ rate' > Grown(GrowthSlow) => x < k * more
  <2> HIDE DEF x, k
  <2> QED BY <1>5, <1>6, Zenon
<1> QED BY <1>3, <1>7 DEF Grounded

(* on_report's step in the loop: on a path older than the window a cut, or *)
(* the end of startup, brings the rate down to what the path delivers, and *)
(* fast growth stops at that rate with the floor credited back.            *)
GroundedOnPath == calm' > Window => Grounded(lossFloor', PathDelivers)

LEMMA LoopReportOfPath ==
  ASSUME LoopReports, LoopInv, LoopReport
  PROVE  SamplesOfPath' /\ GroundedOnPath
<1> DEFINE loss == LossAfter(RawLoss)
           floor == FloorAt(loss)
           F == Filtered(DeliveredRate, 1)
<1>1. SentRate > 0 /\ path' = path /\ calm' = MinOf(calm + 1, CalmReports)
      /\ ReportWith(RawLoss, loss, floor, DeliveredRate, Use, 1)
  BY DEF LoopReport
<1>2. RateInv /\ ControlOK /\ path \in Paths
  BY DEF LoopInv, RateInv
<1>3. RawLoss \in Losses /\ DeliveredRate \in Deliveries /\ Use \in Uses /\ 1 \in Gaps
  BY <1>1, <1>2, AnswerOK DEF LoopReports
<1>4. floor \in Losses /\ loss \in Losses
  BY <1>2, <1>3, SmoothingOK, SmoothedOK
<1>5. floor \in Nat
  <2> HIDE DEF floor
  <2> QED BY <1>4, RateAssumption
<1> HIDE DEF loss, floor
<1>6. RateInv'
  BY <1>1, <1>2, <1>3, <1>4, ReportOK
<1>7. PathDelivers' = PathDelivers /\ PathDelivers \in Nat
  BY <1>1, <1>2, DeliversOK DEF PathDelivers
<1>8. rate \in Nat /\ rate' \in Nat /\ cooldown' \in Nat /\ cooldown \in Nat
  BY <1>2, <1>6, RateBounds DEF RateInv, ControlOK
<1>9. lossFloor' = floor
  BY <1>1 DEF ReportWith
<1>10. delivered' = Aged(1) \/ delivered' = F
  BY <1>1 DEF ReportWith
<1>11. SamplesOfPath'
  <2>1. \A s \in Aged(1) : s[2] <= PathDelivers \/ s[1] >= calm' \/ s[1] = Window + 1
    BY <1>1, AgedOfPath
  <2>2. \A s \in F : s[2] <= PathDelivers \/ s[1] >= calm' \/ s[1] = Window + 1
    BY <1>1, FilterOfPath
  <2> HIDE DEF F
  <2>3. \A s \in delivered' : s[2] <= PathDelivers \/ s[1] >= calm' \/ s[1] = Window + 1
    BY <1>10, <2>1, <2>2, Zenon
  <2> QED BY <1>7, <2>3 DEF SamplesOfPath
<1>12. GroundedOnPath
  <2> SUFFICES ASSUME calm' > Window PROVE Grounded(floor, PathDelivers)
    BY <1>9 DEF GroundedOnPath
  <2>1. MaxDelivered(F) \in Nat /\ MaxDelivered(F) <= PathDelivers
    BY <1>1, FilterOfPath
  <2> HIDE DEF F
  <2>2. CASE Hold
    <3>1. rate' = rate /\ cooldown' = cooldown /\ startup' = startup
      BY <2>2 DEF Hold, SetRate
    <3> QED BY <1>2, <1>8, <3>1, CalmGrounded, GrownAtLeast
  <2>3. CASE cooldown' = cooldown - 1 /\ UNCHANGED <<rate, startup>>
    BY <1>2, <1>8, <2>3, CalmGrounded, GrownAtLeast
  <2>4. CASE cooldown = 0 /\ Decide(RawLoss, loss, floor, DeliveredRate, F, Use = "saturated")
    <3>1. Grounded(floor, MaxDelivered(F))
      BY <1>2, <1>3, <1>5, <2>1, <2>4, DecideGrounded
    <3> QED BY <1>5, <1>7, <1>8, <2>1, <3>1, GroundedWeakens
  <2> QED BY <1>1, <2>2, <2>3, <2>4 DEF ReportWith, F
<1> QED BY <1>11, <1>12

LEMMA LoopStepOfPath ==
  ASSUME LoopReports, LoopInv, [LoopNext]_loopVars
  PROVE  LoopInv' /\ [GroundedOnPath]_loopVars
<1>1. RateInv' /\ (path \in Paths)'
  BY LoopStep, StepRateInv DEF LoopInv
<1>2. calm \in Nat /\ Window \in Nat /\ CalmReports \in Nat
  BY RateAssumption, LoopAssumption DEF LoopInv
<1>3. CASE UNCHANGED loopVars
  BY <1>3 DEF loopVars, vars, LoopInv, RateInv, ControlOK, PacerFollows, CutToDelivered,
              SamplesOfPath, PathDelivers
<1>4. CASE LoopFirst
  <2>1. UNCHANGED <<rate, startup, cooldown, delivered, path, calm>>
    BY <1>4 DEF LoopFirst, FirstReport
  <2>2. SamplesOfPath' /\ calm' \in Nat
    BY <2>1 DEF LoopInv, SamplesOfPath, PathDelivers
  <2>3. GroundedOnPath
    <3>1. ControlOK /\ cooldown \in Nat
      BY DEF LoopInv, RateInv, ControlOK
    <3> QED BY <2>1, <3>1, CalmGrounded, GrownAtLeast DEF GroundedOnPath
  <2> QED BY <1>1, <2>2, <2>3 DEF LoopInv
<1>5. CASE LoopReport
  <2>1. calm' \in Nat
    BY <1>2, <1>5 DEF LoopReport, MinOf
  <2> QED BY <1>1, <1>5, <2>1, LoopReportOfPath DEF LoopInv
<1>6. CASE LoopIdle
  <2>1. /\ UNCHANGED <<rate, startup, cooldown, path>> /\ delivered' = Aged(1)
        /\ calm' = MinOf(calm + 1, CalmReports)
    BY <1>6 DEF LoopIdle, IdleReport
  <2>2. calm' \in Nat
    BY <1>2, <2>1 DEF MinOf
  <2>3. PathDelivers' = PathDelivers
    BY <2>1 DEF PathDelivers
  <2>4. \A s \in Aged(1) : s[2] <= PathDelivers \/ s[1] >= calm' \/ s[1] = Window + 1
    BY <2>1, AgedOfPath
  <2>5. SamplesOfPath'
    BY <2>1, <2>3, <2>4 DEF SamplesOfPath
  <2>6. GroundedOnPath
    <3>1. ControlOK /\ cooldown \in Nat
      BY DEF LoopInv, RateInv, ControlOK
    <3> QED BY <2>1, <3>1, CalmGrounded, GrownAtLeast DEF GroundedOnPath
  <2> QED BY <1>1, <2>2, <2>5, <2>6 DEF LoopInv
<1>7. ASSUME NEW q \in Paths, Change(q) PROVE LoopInv' /\ GroundedOnPath
  <2>1. calm' = 0 /\ delivered' = delivered
    BY <1>7 DEF Change, vars
  <2>2. ~(calm' > Window) /\ calm' \in Nat
    BY <1>2, <2>1
  <2>3. \A s \in delivered : s[1] >= 0
    BY RateAssumption DEF LoopInv, RateInv, Samples
  <2>4. SamplesOfPath'
    BY <2>1, <2>3 DEF SamplesOfPath
  <2> QED BY <1>1, <2>2, <2>4 DEF LoopInv, GroundedOnPath
<1> QED BY <1>3, <1>4, <1>5, <1>6, <1>7 DEF LoopNext

LEMMA LoopInductive ==
  ASSUME LoopReports
  PROVE  LoopSpec => []LoopInv
<1>1. LoopInit => LoopInv
  <2> SUFFICES ASSUME LoopInit PROVE LoopInv
    OBVIOUS
  <2>1. RateInv
    BY InitRateInv DEF LoopInit
  <2>2. path \in Paths /\ calm \in Nat /\ delivered = {}
    BY DEF LoopInit, Init
  <2> QED BY <2>1, <2>2 DEF LoopInv, SamplesOfPath
<1>2. LoopInv /\ [LoopNext]_loopVars => LoopInv'
  BY LoopStepOfPath
<1> QED BY <1>1, <1>2, PTL DEF LoopSpec

(* on_report's max filter in the loop: whatever the path was before, a     *)
(* sample above what the present path delivers is at least as old as the   *)
(* path, so none is left in the window of an older path.                   *)
THEOREM LoopSamplesOfPath ==
  ASSUME LoopReports
  PROVE  LoopSpec => []SamplesOfPath
<1>1. LoopInv => SamplesOfPath
  BY DEF LoopInv
<1> QED BY <1>1, LoopInductive, PTL

(* The steps behind NoRatchet, for any constants: on a path older than     *)
(* DELIVERED_WINDOW_MS a cut of on_report, or the end of its startup,      *)
(* lands at or below what the path delivers (or at MIN_RATE_BPS), and a    *)
(* growth by more than GROWTH_SLOW starts below that rate with at most     *)
(* half of it credited back for the floor.                                 *)
THEOREM LoopGrounded ==
  ASSUME LoopReports
  PROVE  LoopSpec => [][GroundedOnPath]_loopVars
<1>1. LoopInv /\ [LoopNext]_loopVars => [GroundedOnPath]_loopVars
  BY LoopStepOfPath
<1> QED BY <1>1, LoopInductive, PTL DEF LoopSpec

-----------------------------------------------------------------------------
(* A path's own loss is not congestion.                                    *)

(* The smoothed loss and the floor are the path's loss from the first      *)
(* sample on, and nothing was cut.                                         *)
Undisturbed ==
  /\ cooldown = 0
  /\ lossEwma \in {None, path.loss} /\ lossFloor = lossEwma

(* The smoothing of a loss that does not change. *)
LEMMA SteadySmoothing ==
  ASSUME Undisturbed, path \in Paths
  PROVE  LossAfter(path.loss) = path.loss /\ FloorAt(path.loss) = path.loss
<1> DEFINE l == path.loss
<1>1. l \in Nat /\ CutExcess \in Nat
  BY PathOK, RateAssumption DEF CutExcess
<1>2. cooldown = 0 /\ (lossEwma = None \/ lossEwma = l) /\ lossFloor = lossEwma
  BY DEF Undisturbed
<1> HIDE DEF l
<1>3. LossAfter(l) = l
  BY <1>1, <1>2 DEF LossAfter
<1>4. FloorAt(l) = l
  <2>1. CASE lossFloor = None
    BY <2>1 DEF FloorAt
  <2>2. CASE lossFloor # None
    <3>1. lossFloor = l /\ l >= lossFloor /\ ~(cooldown > 0)
      BY <1>1, <1>2, <2>2
    <3>2. FloorAt(l) = lossFloor + (MinOf(l - lossFloor, CutExcess) * Relax) \div 1000
      BY <2>2, <3>1 DEF FloorAt
    <3>3. MinOf(l - lossFloor, CutExcess) = 0
      BY <1>1, <3>1 DEF MinOf
    <3>4. (0 * Relax) \div 1000 = 0
      <4>1. Relax = 20 \/ Relax = 4
        BY DEF Relax
      <4> QED BY <4>1
    <3>5. FloorAt(l) = l + 0
      BY <3>1, <3>2, <3>3, <3>4
    <3> QED BY <1>1, <3>5
  <2> QED BY <2>1, <2>2
<1> QED BY <1>3, <1>4 DEF l

LEMMA StepUndisturbed ==
  ASSUME path \in Paths, Undisturbed, SentRate <= path.bottleneck,
         [LoopNext]_loopVars, path' = path
  PROVE  Undisturbed'
<1>1. CASE UNCHANGED <<cooldown, lossEwma, lossFloor>>
  BY <1>1 DEF Undisturbed
<1>2. CASE LoopReport
  <2>1. RawLoss = path.loss
    BY DEF RawLoss
  <2> DEFINE l == path.loss
             F == Filtered(DeliveredRate, 1)
  <2>2. ReportWith(l, l, l, DeliveredRate, Use, 1)
    BY <1>2, <2>1, SteadySmoothing DEF LoopReport
  <2>3. lossEwma' = l /\ lossFloor' = l
    BY <2>2 DEF ReportWith
  <2>4. ~(l - l >= CutExcess) /\ ~(l - l >= AbortExcess)
    BY PathOK, RateAssumption DEF CutExcess, AbortExcess
  <2>5. ~CutRate(l, l, l, F)
    <3> HIDE DEF l, F
    <3> QED BY <2>4 DEF CutRate
  <2>6. Decide(l, l, l, DeliveredRate, F, Use = "saturated") => cooldown' = cooldown
    <3> HIDE DEF l, F
    <3> QED BY <2>5 DEF Decide, Hold, MiddleBand, StartupSample, SteadyGrowth
  <2>7. ~(cooldown > 0) /\ cooldown = 0
    BY DEF Undisturbed
  <2>8. cooldown' = cooldown
    <3> HIDE DEF l
    <3> QED BY <2>2, <2>6, <2>7 DEF ReportWith, Hold
  <2> QED BY <2>3, <2>7, <2>8 DEF Undisturbed
<1>3. CASE UNCHANGED loopVars \/ LoopFirst \/ LoopIdle \/ \E q \in Paths : Change(q)
  BY <1>1, <1>3 DEF loopVars, vars, LoopFirst, FirstReport, LoopIdle, IdleReport, Change
<1> QED BY <1>2, <1>3 DEF LoopNext

(* Only a change of the path changes it. *)
LEMMA PathKept ==
  ASSUME [LoopNext]_loopVars, changes = 0, changes' = 0
  PROVE  path' = path
<1>1. ASSUME NEW q \in Paths, Change(q) PROVE FALSE
  <2>1. changes' = changes + 1
    BY <1>1 DEF Change
  <2> QED BY <2>1
<1> QED BY <1>1 DEF LoopNext, loopVars, LoopFirst, LoopReport, LoopIdle

LEMMA InitUndisturbed == LoopInit => Undisturbed
BY DEF LoopInit, Init, Undisturbed

(* on_report's floor: as long as the path is the first one and the sender  *)
(* has not exceeded its bottleneck, the path's own loss, however high, is  *)
(* never taken for congestion: the floor and the smoothed loss equal it    *)
(* and the rate is not cut.                                                *)
THEOREM LoopLossNotBlamed ==
  ASSUME LoopReports
  PROVE  LoopSpec /\ [](changes = 0 /\ SentRate <= path.bottleneck) => []Undisturbed
<1> DEFINE Below == changes = 0 /\ SentRate <= path.bottleneck
<1>1. LoopInv /\ Undisturbed /\ Below /\ Below' /\ [LoopNext]_loopVars => Undisturbed'
  BY StepUndisturbed, PathKept DEF LoopInv
<1> HIDE DEF Below
<1>2. LoopSpec /\ []Below => []Undisturbed
  BY <1>1, InitUndisturbed, LoopInductive, PTL DEF LoopSpec
<1> QED BY <1>2 DEF Below

(* A first path that is faster than the cap. *)
CapNeverCuts == changes = 0 /\ MaxRate <= path.bottleneck => Undisturbed

(* on_report with --max-rate-mbps at or below the bottleneck: no loss of   *)
(* the path leads to a cut, in any reachable state.                        *)
THEOREM LoopCapNeverCuts ==
  ASSUME LoopReports
  PROVE  LoopSpec => []CapNeverCuts
<1>1. LoopInit => CapNeverCuts /\ changes \in Nat
  BY InitUndisturbed DEF LoopInit, CapNeverCuts
<1>2. changes \in Nat /\ [LoopNext]_loopVars => changes' \in Nat /\ changes' >= changes
  BY DEF LoopNext, loopVars, LoopFirst, LoopReport, LoopIdle, Change
<1>3. LoopInv /\ changes \in Nat /\ CapNeverCuts /\ [LoopNext]_loopVars => CapNeverCuts'
  <2> SUFFICES ASSUME LoopInv, changes \in Nat, CapNeverCuts, [LoopNext]_loopVars,
                      changes' = 0, (MaxRate <= path.bottleneck)'
               PROVE  Undisturbed'
    BY DEF CapNeverCuts
  <2>1. changes = 0
    BY <1>2
  <2>2. path' = path /\ path \in Paths /\ ControlOK
    BY <2>1, PathKept DEF LoopInv, RateInv
  <2>3. MaxRate <= path.bottleneck
    BY <2>2 DEF MaxRate, MaxOf
  <2>4. SentRate <= path.bottleneck
    BY <2>2, <2>3, SentOK, PathOK, RateBounds
  <2>5. Undisturbed
    BY <2>1, <2>3 DEF CapNeverCuts
  <2> QED BY <2>2, <2>4, <2>5, StepUndisturbed
<1>4. changes \in Nat /\ [LoopNext]_loopVars => (changes \in Nat)'
  BY <1>2
<1> QED BY <1>1, <1>3, <1>4, LoopInductive, PTL DEF LoopSpec

=============================================================================
