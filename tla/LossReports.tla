---------------------------- MODULE LossReports -----------------------------
(***************************************************************************)
(* How the sender learns what is lost, and how much repair it sends: the   *)
(* counters of handle_transfer (src/src/recv.rs) and SymbolOpener::seq_span*)
(* (src/src/sealed.rs) in Progress reports, drain_feedback and             *)
(* LossEstimator (src/src/send.rs) at the other end, and a network that    *)
(* loses and overtakes in between.                                         *)
(*                                                                         *)
(* Fractions are per mille.  A datagram is its sequence number, which      *)
(* plaintext datagrams do not carry; the payload is left out.              *)
(***************************************************************************)
EXTENDS Integers, Sequences, FiniteSets

CONSTANTS Modes,       \* a subset of {"sealed", "plain"}
          Tiny,        \* the least interval that update samples (50)
          Counts,      \* possible numbers of packets of a block
          MaxSent,     \* bound on datagrams
          MaxReports,  \* bound on reports on their way
          MaxLost,     \* bound on lost datagrams
          MaxDups,     \* bound on duplicated datagrams
          Overtake,    \* how many datagrams one may overtake
          Ks           \* block lengths, in symbols, for which repair is sized

ASSUME LossAssumption ==
  /\ Modes \subseteq {"sealed", "plain"}
  /\ Tiny \in Nat \ {0} /\ Counts \subseteq Nat \ {0} /\ Ks \subseteq Nat \ {0}
  /\ MaxSent \in Nat /\ MaxReports \in Nat /\ MaxLost \in Nat /\ MaxDups \in Nat
  /\ Overtake \in Nat

VARIABLES mode,
          sent,      \* packets_sent
          inFlight,  \* datagrams on the wire, which were sent in the order of their numbers
          lost,      \* datagrams the network, or --test-drop, dropped
          dups,      \* how many datagrams the network duplicated
          pkts,      \* datagrams the receiver opened
          span,      \* highest sequence number opened, plus one
          reports,   \* Progress frames on their way, <<pkts, span>>, and Overtaken
          est,       \* LossEstimator
          quiet      \* samples in a row that miss no datagram, lost or overtaken, at most 3

vars == <<mode, sent, inFlight, lost, dups, pkts, span, reports, est, quiet>>

MinOf(a, b) == IF a <= b THEN a ELSE b
MaxOf(a, b) == IF a >= b THEN a ELSE b
Clamp(x, lo, hi) == MaxOf(lo, MinOf(x, hi))
SaturatingSub(a, b) == MaxOf(a - b, 0)

(* No last report yet. *)
None == <<>>

-----------------------------------------------------------------------------
(* LossEstimator.                                                          *)

NewEstimator == [ewma |-> 0, primed |-> FALSE, last |-> None]

(* The loss of an interval. *)
Sample(received, total) == Clamp(1000 - (received * 1000) \div total, 0, 900)

First(e, received, total) ==
  IF total > 0
  THEN [ewma |-> Sample(received, total), primed |-> TRUE, last |-> <<received, total>>]
  ELSE [e EXCEPT !.last = <<received, total>>]

(* An estimator over the whole transfer. *)
LifetimeUpdate(e, received, total) ==
  IF e.last = None THEN First(e, received, total)
  ELSE IF SaturatingSub(total, e.last[2]) < Tiny THEN e
  ELSE [ewma |-> IF e.primed THEN (7 * e.ewma + 3 * Sample(received, total)) \div 10
                 ELSE Sample(received, total),
        primed |-> TRUE, last |-> <<received, total>>]

Update(e, received, total) ==
  IF e.last = None THEN First(e, received, total)
  ELSE LET dr == SaturatingSub(received, e.last[1])
           ds == SaturatingSub(total, e.last[2])
       IN IF ds < Tiny THEN e
          ELSE [ewma |-> IF e.primed THEN (7 * e.ewma + 3 * Sample(dr, ds)) \div 10
                         ELSE Sample(dr, ds),
                primed |-> TRUE, last |-> <<received, total>>]

(* x per mille of k, rounded up. *)
CeilOf(k, x) == (k * x + 999) \div 1000

Round0Frac(e, cli) ==
  Clamp(MaxOf(cli, IF e.primed THEN (3 * e.ewma) \div 2 + 20 ELSE 0), 0, 800)

RepairFrac(e) == Clamp(IF e.primed THEN (3 * e.ewma) \div 2 ELSE 0, 50, 800)

(* Repair symbols of a block of k source symbols in round 0. *)
Round0Overhead(e, cli, k) == MaxOf(CeilOf(k, Round0Frac(e, cli)), 2)

(* Repair that does not escalate. *)
FlatExtra(e, k, round) == MaxOf(CeilOf(k, RepairFrac(e)), 8)

(* Repair symbols in a later round. *)
Extra(e, k, round) ==
  MaxOf(CeilOf(k, (RepairFrac(e) * (4 + MinOf(round, 4))) \div 4), 8)

-----------------------------------------------------------------------------
Init ==
  /\ mode \in Modes
  /\ sent = 0 /\ inFlight = {} /\ lost = {} /\ dups = 0
  /\ pkts = 0 /\ span = 0 /\ reports = <<>>
  /\ est = NewEstimator /\ quiet = 0

(* The n packets of a block go on the wire, but for the ones --test-drop   *)
(* picks: these count as sent and burn their sequence numbers.             *)
Spray(n, drop) ==
  /\ sent + n <= MaxSent /\ Cardinality(lost) + Cardinality(drop) <= MaxLost
  /\ sent' = sent + n
  /\ inFlight' = inFlight \cup ((sent .. sent + n - 1) \ drop)
  /\ lost' = lost \cup drop
  /\ UNCHANGED <<mode, dups, pkts, span, reports, est, quiet>>

(* The members of S below n. *)
Below(S, n) == {s \in S : s < n}

(* The datagrams that may be next out of the network. *)
Reach == {s \in inFlight : Cardinality(Below(inFlight, s)) <= Overtake}

(* The network loses a datagram; which one is settled when it would arrive. *)
Lose(s) ==
  /\ s \in Reach /\ Cardinality(lost) < MaxLost
  /\ lost' = lost \cup {s} /\ inFlight' = inFlight \ {s}
  /\ UNCHANGED <<mode, sent, dups, pkts, span, reports, est, quiet>>

(* A receiver that takes a count of its own for the span. *)
CountingDeliver(s) ==
  /\ s \in Reach
  /\ pkts' = pkts + 1 /\ span' = span + 1
  /\ inFlight' = inFlight \ {s}
  /\ UNCHANGED <<mode, sent, lost, dups, reports, est, quiet>>

(* The receiver opens a datagram. *)
Deliver(s) ==
  /\ s \in Reach
  /\ pkts' = pkts + 1 /\ span' = MaxOf(span, s + 1)
  /\ inFlight' = inFlight \ {s}
  /\ UNCHANGED <<mode, sent, lost, dups, reports, est, quiet>>

(* A duplicate arrives: a plaintext one is counted again, and a sealed one *)
(* is refused by the replay window, which changes nothing.                 *)
Duplicate ==
  /\ mode = "plain" /\ pkts > 0 /\ dups < MaxDups
  /\ dups' = dups + 1 /\ pkts' = pkts + 1
  /\ UNCHANGED <<mode, sent, inFlight, lost, span, reports, est, quiet>>

(* How many datagrams in flight are below the span. *)
Overtaken == Cardinality(Below(inFlight, span))

(* The ticker of handle_transfer. *)
Tick ==
  /\ pkts > 0 /\ Len(reports) < MaxReports
  /\ reports' = Append(reports, <<pkts, span, Overtaken>>)
  /\ UNCHANGED <<mode, sent, inFlight, lost, dups, pkts, span, est, quiet>>

(* What update compares the count of a report with: its span, or in        *)
(* plaintext mode packets_sent.                                            *)
Total(r) == IF mode = "sealed" THEN r[2] ELSE sent

(* One report of drain_feedback. *)
Progress ==
  /\ reports # <<>>
  /\ LET r == Head(reports)
         e == Update(est, r[1], Total(r))
         from == IF est.last = None THEN 0 ELSE est.last[2]
         complete == r[3] = 0 /\ lost \cap (from .. Total(r) - 1) = {}
     IN /\ est' = e
        /\ quiet' = IF e.last = est.last THEN quiet
                    ELSE IF complete THEN MinOf(quiet + 1, 3) ELSE 0
  /\ reports' = Tail(reports)
  /\ UNCHANGED <<mode, sent, inFlight, lost, dups, pkts, span>>

Next ==
  \/ \E n \in Counts : \E drop \in SUBSET (sent .. sent + n - 1) : Spray(n, drop)
  \/ \E s \in inFlight : Lose(s) \/ Deliver(s)
  \/ Duplicate \/ Tick \/ Progress

Spec == Init /\ [][Next]_vars

-----------------------------------------------------------------------------
(* The reports that are on their way or were last sampled. *)
Known == {reports[i] : i \in DOMAIN reports}
           \cup (IF est.last = None THEN {} ELSE {est.last})

(* seq_span: a sealed report never hides a loss below its span, and what   *)
(* it counts as lost beyond that are the few datagrams that were overtaken *)
(* and were still in flight; the many behind the span do not skew it.      *)
ExactWireLoss ==
  mode = "sealed" =>
    \A r \in Known :
      r[2] - r[1] - Cardinality(Below(lost, r[2])) \in 0 .. Overtake

(* LossEstimator is about intervals: after three samples in a row that     *)
(* miss nothing the estimate is down to 0.7^3 of its maximum, whatever the *)
(* losses of the startup were.                                             *)
Forgets == mode = "sealed" /\ quiet >= 3 => est.ewma <= 309

(* The symbols of a block of k in round 0 and six repair rounds. *)
Sprayed(k) ==
  k + Round0Overhead(est, 0, k)
    + Extra(est, k, 1) + Extra(est, k, 2) + Extra(est, k, 3) + 3 * Extra(est, k, 4)

(* repair_frac and its escalation: round 0 and six repair rounds suffice   *)
(* for every block while the path loses no more than the estimate, up to   *)
(* the highest one of 90%.  A block of k symbols counts as served with k,  *)
(* the number these shares are sized for; for the rare block that takes a  *)
(* symbol more the rounds go on (Transfer).                                *)
RepairConverges ==
  est.primed => \A k \in Ks : LET n == Sprayed(k)
                              IN n - CeilOf(n, est.ewma) >= k

=============================================================================
