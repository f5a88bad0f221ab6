------------------------------- MODULE Pacer --------------------------------
(***************************************************************************)
(* The pacer of src/src/rate.rs as flush_batch (src/src/send.rs) drives    *)
(* it: a batch is handed to the kernel and then slept off, so that the     *)
(* bytes sent follow the current rate.                                     *)
(*                                                                         *)
(* Instants are whole ticks; 0 is the earliest instant the clock can name. *)
(* A rate is a number of bytes per tick, and 0 stands for the rates that   *)
(* mean "unpaced".  What happens between two flushes (encoding, draining   *)
(* feedback, settling) is a wait before the flush, and the kernel may take *)
(* its time over the batch.  A sleep never ends early and may end late.    *)
(***************************************************************************)
EXTENDS Integers

CONSTANTS MaxBurst,    \* MAX_BURST
          Start,       \* the instant the spray begins
          Rates,       \* rates the pacer is given
          Lens,        \* sizes of a batch
          Delays,      \* possible waits, kernel times and late wake-ups
          MaxFlushes   \* bound on the number of flushes

ASSUME PacerAssumption ==
  /\ MaxBurst \in Nat /\ Start \in Nat /\ MaxFlushes \in Nat
  /\ Rates \subseteq Nat /\ Lens \subseteq Nat \ {0} /\ Delays \subseteq Nat

None == -1

VARIABLES now,      \* the clock
          rate,     \* Pacer.bytes_per_sec
          next,     \* Pacer.next: when the next send is allowed, or None
          phase,    \* "ready", "sent", "asleep" or "gone"
          len,      \* size of the batch in hand
          flushes,  \* number of batches handed to the kernel
          total,    \* send time of everything paced so far, at its rate
          log,      \* every flush: when, and after how much send time
          first,    \* when the first batch was paced, or None
          late      \* some batch was paced more than MaxBurst late, or
                    \* before the clock could name the instant MaxBurst ago

vars == <<now, rate, next, phase, len, flushes, total, log, first, late>>

MaxOf(a, b) == IF a >= b THEN a ELSE b

-----------------------------------------------------------------------------
(* Pacer::new_mbps for a fixed rate, Pacer::new_bps for an adaptive one. *)
Init ==
  /\ now = Start
  /\ rate \in Rates
  /\ next = None
  /\ phase = "ready"
  /\ len = 0 /\ flushes = 0 /\ total = 0 /\ log = {}
  /\ first = None /\ late = FALSE

(* Pacer::set_rate_bps, from drain_feedback: never within a flush, and     *)
(* only for a rate controller, whose rates are positive.                   *)
SetRate(r) ==
  /\ phase = "ready" /\ rate > 0 /\ r > 0
  /\ rate' = r
  /\ UNCHANGED <<now, next, phase, len, flushes, total, log, first, late>>

(* flush_batch hands a batch of n bytes to the kernel after a wait. *)
Flush(n, wait) ==
  /\ phase = "ready" /\ flushes < MaxFlushes
  /\ now' = now + wait
  /\ len' = n
  /\ flushes' = flushes + 1
  /\ log' = log \cup {[at |-> now + wait, total |-> total]}
  /\ phase' = "sent"
  /\ UNCHANGED <<rate, next, total, first, late>>

(* The kernel refuses the batch: flush_batch returns without pacing, and   *)
(* the spray is over.                                                      *)
Fail(wait) ==
  /\ phase = "sent"
  /\ now' = now + wait
  /\ phase' = "gone"
  /\ UNCHANGED <<rate, next, len, flushes, total, log, first, late>>

(* now.checked_sub(MAX_BURST).unwrap_or(now) *)
Floor(t) == IF t >= MaxBurst THEN t - MaxBurst ELSE t

(* Dues that forgive all lag, none of it, charge a batch twice, or give    *)
(* the first batch a burst credit it has not earned.                       *)
StrictDue(t, dur) == t + dur
LaxDue(t, dur)    == IF next = None THEN t + dur ELSE next + dur
(* When the next send is allowed, for a batch that takes dur and is paced  *)
(* at t: the schedule goes on from the last due time, or from MaxBurst ago *)
(* if the sender has fallen further behind than that.                      *)
Due(t, dur) == (IF next = None THEN t ELSE MaxOf(next, Floor(t))) + dur

(* Pacer::pace at a positive rate, once the kernel has taken the batch. *)
Pace(wait) ==
  /\ phase = "sent" /\ rate > 0
  /\ LET t   == now + wait
         dur == len \div rate
     IN  /\ now' = t
         /\ next' = Due(t, dur)
         /\ total' = total + dur
         /\ first' = IF first = None THEN t ELSE first
         /\ late' = (late \/ (next # None /\ (t - next > MaxBurst \/ t < MaxBurst)))
         /\ phase' = IF Due(t, dur) > t THEN "asleep" ELSE "ready"
  /\ UNCHANGED <<rate, len, flushes, log>>

(* Pacer::pace at rate 0 returns at once. *)
Unpaced(wait) ==
  /\ phase = "sent" /\ rate = 0
  /\ now' = now + wait
  /\ phase' = "ready"
  /\ UNCHANGED <<rate, next, len, flushes, total, log, first, late>>

(* The sleep of Pacer::pace ends. *)
Wake(wait) ==
  /\ phase = "asleep"
  /\ now' = next + wait
  /\ phase' = "ready"
  /\ UNCHANGED <<rate, next, len, flushes, total, log, first, late>>

Next ==
  \/ \E r \in Rates : SetRate(r)
  \/ \E n \in Lens, w \in Delays : Flush(n, w)
  \/ \E w \in Delays : Fail(w) \/ Pace(w) \/ Unpaced(w) \/ Wake(w)

Spec == Init /\ [][Next]_vars

-----------------------------------------------------------------------------
(* The variables have their types. *)
TypeOK ==
  /\ now \in Nat /\ rate \in Rates
  /\ next \in Nat \cup {None} /\ first \in Nat \cup {None}
  /\ phase \in {"ready", "sent", "asleep", "gone"}
  /\ len \in Lens \cup {0} /\ flushes \in 0 .. MaxFlushes
  /\ total \in Nat
  /\ log \subseteq [at : Nat, total : Nat]
  /\ late \in BOOLEAN

(* The token bucket: between any two flushes the sender hands the kernel   *)
(* no more than the elapsed time and MAX_BURST allow at the rates in force,*)
(* whatever the rate changes, idle periods, slow sends and late wake-ups.  *)
TokenBucket ==
  phase \in {"ready", "sent"} =>
    \A e \in log : total - e.total <= (now - e.at) + MaxBurst

(* A sender never paced more than MAX_BURST late loses no send time: the   *)
(* schedule stands exactly where the bytes sent so far put it, so every    *)
(* late wake-up and slow send has been caught up.                          *)
OnSchedule ==
  next # None /\ ~late => next = first + total

(* A sleep is never longer than its own batch takes: no earlier batch, and *)
(* no earlier slower rate, leaves a debt that a later flush sleeps off.    *)
SleepBounded == phase = "asleep" => next - now <= len \div rate

=============================================================================
