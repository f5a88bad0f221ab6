---------------------------- MODULE PacerProofs -----------------------------
(***************************************************************************)
(* Proofs about Pacer: for every burst allowance, set of rates, batch      *)
(* sizes and delays, the sender keeps to a token bucket, loses no send     *)
(* time it can make up, and never sleeps longer than its own batch takes.  *)
(***************************************************************************)
EXTENDS Pacer, TLAPS

(* The entry of the batch in hand. *)
InHand(e) == phase \in {"sent", "gone"} /\ e.at <= now /\ e.total = total

(* The flushes that have been paced have been charged to the schedule.  A  *)
(* batch in hand has not, and without a schedule nothing has been charged. *)
Charged ==
  \A e \in log :
    /\ e.at <= now
    /\ next = None /\ rate > 0 => InHand(e)
    /\ next # None => \/ InHand(e)
                      \/ total - e.total <= (next - e.at) + MaxBurst

(* The sender is never ahead of its schedule except when it sleeps. *)
NotAhead ==
  /\ next # None /\ phase # "asleep" => next <= now
  /\ phase = "asleep" => next > now /\ rate > 0 /\ next - now <= len \div rate
  /\ next = None => total = 0 /\ first = None /\ phase # "asleep"
  /\ next # None => rate > 0 /\ first # None

PacerInv == TypeOK /\ Charged /\ NotAhead /\ OnSchedule

(* Dividing naturals gives a natural: the time a batch takes. *)
LEMMA DurNat == ASSUME NEW n \in Nat, NEW r \in Nat, r > 0 PROVE n \div r \in Nat
  OBVIOUS

LEMMA PacerInit == Init => PacerInv
<1> SUFFICES ASSUME Init PROVE PacerInv
  OBVIOUS
<1>1. TypeOK
  <2>1. late \in BOOLEAN
    BY DEF Init
  <2>2. QED
    BY <2>1, PacerAssumption DEF Init, TypeOK, None
<1>2. Charged /\ OnSchedule
  BY DEF Init, Charged, OnSchedule
<1>3. NotAhead
  BY DEF Init, NotAhead
<1>4. QED
  BY <1>1, <1>2, <1>3 DEF PacerInv

(* What the due time guarantees: it charges the whole batch, gives at most *)
(* MaxBurst back, and within that keeps to the schedule.                   *)
LEMMA DueBounds ==
  ASSUME TypeOK, NotAhead, NEW t \in Nat, NEW dur \in Nat, t >= now, phase = "sent"
  PROVE  /\ Due(t, dur) \in Nat
         /\ Due(t, dur) <= t + dur
         /\ Due(t, dur) + MaxBurst >= t + dur
         /\ next # None => Due(t, dur) >= next + dur
         /\ next # None /\ t - next <= MaxBurst /\ t >= MaxBurst => Due(t, dur) = next + dur
         /\ next = None => Due(t, dur) = t + dur
  BY PacerAssumption DEF TypeOK, NotAhead, Due, Floor, MaxOf, None

LEMMA PacerStep == PacerInv /\ [Next]_vars => PacerInv'
<1> SUFFICES ASSUME PacerInv, [Next]_vars PROVE PacerInv'
  OBVIOUS
<1> USE PacerAssumption
<1>1. ASSUME NEW r \in Rates, SetRate(r) PROVE PacerInv'
  <2>1. TypeOK'
    BY <1>1 DEF PacerInv, TypeOK, SetRate
  <2>2. Charged' /\ NotAhead' /\ OnSchedule'
    BY <1>1 DEF PacerInv, TypeOK, Charged, InHand, NotAhead, OnSchedule, SetRate
  <2>3. QED
    BY <2>1, <2>2 DEF PacerInv
<1>2. ASSUME NEW n \in Lens, NEW w \in Delays, Flush(n, w) PROVE PacerInv'
  <2>1. TypeOK'
    BY <1>2 DEF PacerInv, TypeOK, Flush
  <2>2. Charged'
    BY <1>2 DEF PacerInv, TypeOK, Charged, InHand, Flush
  <2>3. NotAhead' /\ OnSchedule'
    BY <1>2 DEF PacerInv, TypeOK, NotAhead, OnSchedule, Flush, None
  <2>4. QED
    BY <2>1, <2>2, <2>3 DEF PacerInv
<1>3. ASSUME NEW w \in Delays, Fail(w) PROVE PacerInv'
  <2>1. TypeOK'
    BY <1>3 DEF PacerInv, TypeOK, Fail
  <2>2. Charged'
    BY <1>3 DEF PacerInv, TypeOK, Charged, InHand, Fail
  <2>3. NotAhead' /\ OnSchedule'
    BY <1>3 DEF PacerInv, TypeOK, NotAhead, OnSchedule, Fail, None
  <2>4. QED
    BY <2>1, <2>2, <2>3 DEF PacerInv
<1>4. ASSUME NEW w \in Delays, Pace(w) PROVE PacerInv'
  <2> DEFINE t == now + w
             dur == len \div rate
  <2>1. t \in Nat /\ dur \in Nat /\ t >= now
    BY <1>4, DurNat DEF PacerInv, TypeOK, Pace
  <2>2. /\ now' = t /\ next' = Due(t, dur) /\ total' = total + dur
        /\ first' = (IF first = None THEN t ELSE first)
        /\ late' = (late \/ (next # None /\ (t - next > MaxBurst \/ t < MaxBurst)))
        /\ phase' = (IF Due(t, dur) > t THEN "asleep" ELSE "ready")
        /\ UNCHANGED <<rate, len, flushes, log>>
        /\ phase = "sent" /\ rate > 0
    BY <1>4 DEF Pace
  <2>3. /\ Due(t, dur) \in Nat
        /\ Due(t, dur) <= t + dur
        /\ Due(t, dur) + MaxBurst >= t + dur
        /\ next # None => Due(t, dur) >= next + dur
        /\ next # None /\ t - next <= MaxBurst /\ t >= MaxBurst => Due(t, dur) = next + dur
        /\ next = None => Due(t, dur) = t + dur
    BY <2>1, <2>2, DueBounds DEF PacerInv
  <2> HIDE DEF t, dur
  <2>4. TypeOK'
    <3>1. late' \in BOOLEAN
      BY <2>2
    <3>2. QED
      BY <2>1, <2>2, <2>3, <3>1 DEF PacerInv, TypeOK
  <2>5. Charged'
    BY <2>1, <2>2, <2>3 DEF PacerInv, TypeOK, Charged, InHand, None
  <2>6. NotAhead'
    <3>1. dur = len' \div rate'
      BY <2>2 DEF dur
    <3>2. QED
      BY <2>1, <2>2, <2>3, <3>1 DEF PacerInv, TypeOK, NotAhead, None
  <2>7. OnSchedule'
    <3>1. CASE next = None
      BY <2>1, <2>2, <2>3, <3>1 DEF PacerInv, TypeOK, NotAhead, OnSchedule, None
    <3>2. CASE next # None /\ ~late'
      <4>1. ~late /\ ~(t - next > MaxBurst) /\ ~(t < MaxBurst)
        BY <2>2, <3>2
      <4>2. next = first + total /\ next \in Nat
        BY <3>2, <4>1 DEF PacerInv, OnSchedule, TypeOK
      <4>3. Due(t, dur) = next + dur
        BY <2>1, <2>3, <3>2, <4>1, <4>2
      <4>4. next' = first' + total'
        BY <2>1, <2>2, <3>2, <4>2, <4>3 DEF PacerInv, TypeOK, NotAhead
      <4>5. QED
        BY <4>4 DEF OnSchedule
    <3>3. CASE late'
      BY <3>3 DEF OnSchedule
    <3>4. QED
      BY <3>1, <3>2, <3>3
  <2>8. QED
    BY <2>4, <2>5, <2>6, <2>7 DEF PacerInv
<1>5. ASSUME NEW w \in Delays, Unpaced(w) PROVE PacerInv'
  <2>1. TypeOK'
    BY <1>5 DEF PacerInv, TypeOK, Unpaced
  <2>2. Charged' /\ NotAhead' /\ OnSchedule'
    BY <1>5 DEF PacerInv, TypeOK, Charged, NotAhead, OnSchedule, Unpaced, None
  <2>3. QED
    BY <2>1, <2>2 DEF PacerInv
<1>6. ASSUME NEW w \in Delays, Wake(w) PROVE PacerInv'
  <2>1. TypeOK'
    BY <1>6 DEF PacerInv, TypeOK, NotAhead, Wake, None
  <2>2. Charged'
    BY <1>6 DEF PacerInv, TypeOK, Charged, InHand, NotAhead, Wake, None
  <2>3. NotAhead' /\ OnSchedule'
    BY <1>6 DEF PacerInv, TypeOK, NotAhead, OnSchedule, Wake, None
  <2>4. QED
    BY <2>1, <2>2, <2>3 DEF PacerInv
<1>7. CASE UNCHANGED vars
  BY <1>7 DEF vars, PacerInv, TypeOK, Charged, InHand, NotAhead, OnSchedule
<1>8. QED
  BY <1>1, <1>2, <1>3, <1>4, <1>5, <1>6, <1>7 DEF Next

LEMMA PacerInvariant == Spec => []PacerInv
<1>1. QED
  BY PacerInit, PacerStep, PTL DEF Spec

-----------------------------------------------------------------------------
(* The pacer's state keeps its type. *)
THEOREM PacerTypeOK == Spec => []TypeOK
<1>1. PacerInv => TypeOK
  BY DEF PacerInv
<1>2. QED
  BY <1>1, PacerInvariant, PTL

(* flush_batch and pace keep every two flushes within a token bucket. *)
THEOREM PacerTokenBucket == Spec => []TokenBucket
<1>1. PacerInv => TokenBucket
  BY PacerAssumption DEF PacerInv, TypeOK, Charged, InHand, NotAhead, TokenBucket, None
<1>2. QED
  BY <1>1, PacerInvariant, PTL

(* A sender never paced more than MAX_BURST late is exactly on schedule. *)
THEOREM PacerOnSchedule == Spec => []OnSchedule
<1>1. PacerInv => OnSchedule
  BY DEF PacerInv
<1>2. QED
  BY <1>1, PacerInvariant, PTL

(* pace never sleeps longer than the batch in hand takes. *)
THEOREM PacerSleepBounded == Spec => []SleepBounded
<1>1. PacerInv => SleepBounded
  BY DEF PacerInv, NotAhead, SleepBounded
<1>2. QED
  BY <1>1, PacerInvariant, PTL

=============================================================================
