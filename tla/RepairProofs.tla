---------------------------- MODULE RepairProofs ----------------------------
(***************************************************************************)
(* Proofs about the sender's repair: what LossReports says of the loss the *)
(* sender learns of and of the repair it sizes by it, for every wire,      *)
(* however much is lost or overtaken and in whatever mode; and what        *)
(* EncoderCache says of the encoders the repair rounds use, for every      *)
(* number of blocks and every ENCODER_CACHE.                               *)
(***************************************************************************)
EXTENDS LossReports, EncoderCache, FiniteSetTheorems, SequenceTheorems, TLAPS

-----------------------------------------------------------------------------
(* The invariant of LossReports.                                           *)

(* An estimate is at most 90%. *)
Estimates  == 0 .. 900
Estimators == [ewma : Estimates, primed : BOOLEAN, last : {None} \cup (Nat \X Nat)]

(* Types, and what the wire holds: a datagram is lost, in flight or opened. *)
WireTyped ==
  /\ mode \in {"sealed", "plain"}
  /\ sent \in Nat /\ dups \in Nat /\ pkts \in Nat /\ span \in Nat
  /\ inFlight \subseteq 0 .. sent - 1 /\ lost \subseteq 0 .. sent - 1
  /\ inFlight \cap lost = {}
  /\ reports \in Seq(Nat \X Nat \X Nat)
  /\ est \in Estimators /\ (est.last = None => est.ewma = 0)
  /\ quiet \in 0 .. 3

(* Of the first n datagrams, those lost or in flight. *)
Missing(n) == Cardinality(Below(lost, n)) + Cardinality(Below(inFlight, n))

(* Everything from the span on is lost or in flight, and everything below  *)
(* it that is neither was counted.                                         *)
SpanExact ==
  /\ span <= sent
  /\ \A s \in span .. sent - 1 : s \in lost \cup inFlight
  /\ pkts + Missing(span) = span
  /\ Cardinality(Below(inFlight, span)) <= Overtake

(* What a report <<p, n>> tells: it does not hide a loss below its span,   *)
(* and what it counts as missing beyond the losses was overtaken.          *)
Tells(p, n, overtaken) ==
  /\ n <= span
  /\ Missing(n) <= n - p
  /\ n - p <= Cardinality(Below(lost, n)) + overtaken

ReportsTell ==
  \A i \in 1 .. Len(reports) :
    /\ Tells(reports[i][1], reports[i][2], reports[i][3])
    /\ reports[i][3] <= Overtake

LastTells == est.last # None => Tells(est.last[1], est.last[2], Overtake)

(* An estimate of at most 90% after one, two and three complete samples. *)
Decayed(q, m) == (q = 1 => m <= 630) /\ (q = 2 => m <= 441) /\ (q = 3 => m <= 309)

Decays == Decayed(quiet, est.ewma)

LossInv ==
  /\ WireTyped
  /\ mode = "sealed" => SpanExact /\ ReportsTell /\ LastTells /\ Decays

-----------------------------------------------------------------------------
(* Counting.                                                               *)

(* What is below a bound is finite. *)
LEMMA BelowFinite ==
  ASSUME NEW n \in Int, NEW S \in SUBSET (0 .. n - 1), NEW m
  PROVE  /\ IsFiniteSet(S) /\ IsFiniteSet(Below(S, m))
         /\ Cardinality(Below(S, m)) \in Nat
<1>1. IsFiniteSet(0 .. n - 1)
  BY FS_Interval
<1>2. IsFiniteSet(S)
  BY <1>1, FS_Subset
<1>3. Below(S, m) \in SUBSET S
  BY DEF Below
<1>4. IsFiniteSet(Below(S, m))
  BY <1>2, <1>3, FS_Subset
<1>5. QED
  BY <1>2, <1>4, FS_CardinalityType

(* One more. *)
LEMMA BelowAdd ==
  ASSUME NEW S, NEW x, x \notin S, NEW m, IsFiniteSet(Below(S, m))
  PROVE  Cardinality(Below(S \cup {x}, m))
           = IF x < m THEN Cardinality(Below(S, m)) + 1 ELSE Cardinality(Below(S, m))
<1>1. x \notin Below(S, m)
  BY DEF Below
<1>2. CASE x < m
  <2>1. Below(S \cup {x}, m) = Below(S, m) \cup {x}
    BY <1>2 DEF Below
  <2>2. QED
    BY <1>1, <1>2, <2>1, FS_AddElement
<1>3. CASE ~(x < m)
  <2>1. Below(S \cup {x}, m) = Below(S, m)
    BY <1>3 DEF Below
  <2>2. QED
    BY <1>3, <2>1
<1>4. QED
  BY <1>2, <1>3

(* One less. *)
LEMMA BelowRemove ==
  ASSUME NEW S, NEW x \in S, NEW m, IsFiniteSet(Below(S, m))
  PROVE  Cardinality(Below(S \ {x}, m))
           = IF x < m THEN Cardinality(Below(S, m)) - 1 ELSE Cardinality(Below(S, m))
<1>1. CASE x < m
  <2>1. Below(S \ {x}, m) = Below(S, m) \ {x} /\ x \in Below(S, m)
    BY <1>1 DEF Below
  <2>2. QED
    BY <1>1, <2>1, FS_RemoveElement
<1>2. CASE ~(x < m)
  <2>1. Below(S \ {x}, m) = Below(S, m)
    BY <1>2 DEF Below
  <2>2. QED
    BY <1>2, <2>1
<1>3. QED
  BY <1>1, <1>2

(* A gap in S. *)
LEMMA BelowGap ==
  ASSUME NEW S \in SUBSET Int, NEW a \in Int, NEW b \in Int, a <= b,
         S \cap (a .. b - 1) = {}
  PROVE  Below(S, b) = Below(S, a)
<1>1. ASSUME NEW s \in S
      PROVE  s < b <=> s < a
  <2>1. s \in Int /\ s \notin a .. b - 1
    OBVIOUS
  <2>2. QED
    BY <2>1
<1>2. QED
  BY <1>1 DEF Below

-----------------------------------------------------------------------------
(* Steps of the wire.                                                      *)

(* Counts of the invariant's sets. *)
LEMMA CountsTyped ==
  ASSUME WireTyped
  PROVE  \A m \in Nat : /\ Cardinality(Below(lost, m)) \in Nat
                        /\ Cardinality(Below(inFlight, m)) \in Nat
                        /\ IsFiniteSet(Below(lost, m)) /\ IsFiniteSet(Below(inFlight, m))
<1>1. /\ sent \in Int
      /\ lost \in SUBSET (0 .. sent - 1) /\ inFlight \in SUBSET (0 .. sent - 1)
  BY DEF WireTyped
<1>2. QED
  BY <1>1, BelowFinite, Zenon

(* Where there is nothing but lost datagrams and ones in flight from the   *)
(* span up to n, each of them is missing.                                  *)
LEMMA SpanCover ==
  ASSUME WireTyped, NEW n \in Nat, span <= n,
         \A s \in span .. n - 1 : s \in lost \cup inFlight
  PROVE  Missing(n) = Missing(span) + (n - span)
<1>0. span \in Nat /\ lost \subseteq Int /\ inFlight \subseteq Int
  BY DEF WireTyped
<1> DEFINE Both(m) == Below(lost, m) \cup Below(inFlight, m)
<1>1. ASSUME NEW m \in Nat
      PROVE  Cardinality(Both(m)) = Missing(m) /\ IsFiniteSet(Both(m)) /\ Missing(m) \in Nat
  <2>1. Below(lost, m) \cap Below(inFlight, m) = {}
    BY DEF Below, WireTyped
  <2>2. IsFiniteSet(Below(lost, m)) /\ IsFiniteSet(Below(inFlight, m))
    BY CountsTyped
  <2>3. Cardinality(Below(lost, m)) \in Nat /\ Cardinality(Below(inFlight, m)) \in Nat
    BY CountsTyped
  <2>4. Cardinality(Below(lost, m) \cap Below(inFlight, m)) = 0
    BY <2>1, FS_EmptySet
  <2>5. QED
    BY <2>2, <2>3, <2>4, FS_Union DEF Missing
<1>2. Both(n) = Both(span) \cup (span .. n - 1)
  <2>1. ASSUME NEW s \in span .. n - 1
        PROVE  s \in Both(n)
    <3>1. s < n /\ s \in lost \cup inFlight
      OBVIOUS
    <3>2. QED
      BY <3>1 DEF Below
  <2>2. ASSUME NEW s \in Both(span)
        PROVE  s \in Both(n)
    <3>1. s \in Int /\ s < span
      BY <1>0 DEF Below
    <3>2. s < n
      BY <1>0, <3>1
    <3>3. QED
      BY <3>2 DEF Below
  <2>3. ASSUME NEW s \in Both(n), s \notin Both(span)
        PROVE  s \in span .. n - 1
    <3>1. s \in Int /\ s < n /\ ~(s < span)
      BY <1>0, <2>3 DEF Below
    <3>2. QED
      BY <1>0, <3>1
  <2>4. QED
    BY <2>1, <2>2, <2>3
<1>3. Both(span) \cap (span .. n - 1) = {}
  BY <1>0 DEF Below
<1>4. IsFiniteSet(span .. n - 1) /\ Cardinality(span .. n - 1) = n - span
  <2>1. span \in Int /\ n - 1 \in Int
    BY <1>0
  <2>2. /\ IsFiniteSet(span .. n - 1)
        /\ Cardinality(span .. n - 1) = IF span > n - 1 THEN 0 ELSE (n - 1) - span + 1
    BY <2>1, FS_Interval, Zenon
  <2>3. QED
    BY <1>0, <2>2
<1>5. Cardinality(Both(span) \cap (span .. n - 1)) = 0
  BY <1>3, FS_EmptySet
<1>6. Cardinality(Both(span)) \in Nat
  BY <1>0, <1>1
<1> HIDE DEF Both
<1>7. Cardinality(Both(span) \cup (span .. n - 1)) = Cardinality(Both(span)) + (n - span) - 0
  <2>1. IsFiniteSet(Both(span))
    BY <1>0, <1>1
  <2>2. Cardinality(Both(span) \cup (span .. n - 1))
          = Cardinality(Both(span)) + Cardinality(span .. n - 1)
              - Cardinality(Both(span) \cap (span .. n - 1))
    BY <1>4, <2>1, FS_Union, Zenon
  <2>3. QED
    BY <1>4, <1>5, <2>2, Zenon
<1>8. Cardinality(Both(n)) = Cardinality(Both(span)) + (n - span)
  BY <1>0, <1>2, <1>6, <1>7
<1>9. QED
  BY <1>0, <1>1, <1>8

(* A step of the wire that below the span only loses or delivers keeps     *)
(* what reports tell.                                                      *)
LEMMA TellsKept ==
  ASSUME WireTyped, WireTyped', span <= span',
         \A m \in 0 .. span :
           /\ Cardinality(Below(lost, m)) <= Cardinality(Below(lost', m))
           /\ Missing(m)' <= Missing(m),
         NEW p \in Nat, NEW n \in Nat, NEW o \in Nat, Tells(p, n, o)
  PROVE  Tells(p, n, o)'
<1>1. n \in 0 .. span /\ n <= span'
  BY DEF Tells, WireTyped
<1>2. /\ Cardinality(Below(lost, n)) \in Nat /\ Cardinality(Below(lost', n)) \in Nat
      /\ Cardinality(Below(inFlight, n)) \in Nat /\ Cardinality(Below(inFlight', n)) \in Nat
  <2>1. Cardinality(Below(lost, n)) \in Nat /\ Cardinality(Below(inFlight, n)) \in Nat
    BY CountsTyped
  <2>2. Cardinality(Below(lost', n)) \in Nat /\ Cardinality(Below(inFlight', n)) \in Nat
    <3>1. sent' \in Nat
      BY DEF WireTyped
    <3>2. lost' \in SUBSET (0 .. sent' - 1) /\ inFlight' \in SUBSET (0 .. sent' - 1)
      BY Zenon DEF WireTyped
    <3>3. sent' \in Int
      BY <3>1
    <3>4. QED
      BY <3>2, <3>3, BelowFinite, Zenon
  <2>3. QED
    BY <2>1, <2>2
<1>3. /\ Cardinality(Below(lost, n)) <= Cardinality(Below(lost', n))
      /\ Missing(n)' <= Missing(n)
  BY <1>1
<1>4. QED
  BY <1>1, <1>2, <1>3 DEF Tells, Missing

LEMMA AllTellsKept ==
  ASSUME WireTyped, WireTyped', span <= span', UNCHANGED <<reports, est>>,
         \A m \in 0 .. span :
           /\ Cardinality(Below(lost, m)) <= Cardinality(Below(lost', m))
           /\ Missing(m)' <= Missing(m),
         ReportsTell, LastTells
  PROVE  ReportsTell' /\ LastTells'
<1>1. ReportsTell'
  <2>1. ASSUME NEW i \in 1 .. Len(reports)
        PROVE  Tells(reports[i][1], reports[i][2], reports[i][3])'
    <3>1. /\ reports[i][1] \in Nat /\ reports[i][2] \in Nat /\ reports[i][3] \in Nat
      BY SMTT(20) DEF WireTyped
    <3>2. \A p, n, o \in Nat : Tells(p, n, o) => Tells(p, n, o)'
      BY TellsKept
    <3>3. QED
      BY <2>1, <3>1, <3>2 DEF ReportsTell
  <2>2. QED
    BY <2>1 DEF ReportsTell
<1>2. LastTells'
  <2>1. \A p, n, o \in Nat : Tells(p, n, o) => Tells(p, n, o)'
    BY TellsKept
  <2>2. est.last # None => est.last[1] \in Nat /\ est.last[2] \in Nat
    BY DEF WireTyped, Estimators
  <2>3. QED
    BY <2>1, <2>2, LossAssumption DEF LastTells
<1>3. QED
  BY <1>1, <1>2

LEMMA LossInit == Init => LossInv
<1> SUFFICES ASSUME Init PROVE LossInv
  OBVIOUS
<1>1. WireTyped
  BY LossAssumption DEF Init, WireTyped, NewEstimator, Estimators, Estimates
<1>2. Below(inFlight, span) = {} /\ Below(lost, span) = {}
  BY DEF Init, Below
<1>3. SpanExact
  <2>1. Cardinality(Below(inFlight, span)) = 0 /\ Cardinality(Below(lost, span)) = 0
    BY <1>2, FS_EmptySet
  <2>2. QED
    BY <2>1, LossAssumption DEF Init, SpanExact, Missing
<1>4. ReportsTell /\ LastTells /\ Decays
  BY DEF Init, ReportsTell, LastTells, Decays, Decayed, NewEstimator
<1>5. QED
  BY <1>1, <1>3, <1>4 DEF LossInv

(* The packets of a block leave everything below the span alone. *)
LEMMA SprayStep ==
  ASSUME LossInv, NEW n \in Counts, NEW drop \in SUBSET (sent .. sent + n - 1), Spray(n, drop)
  PROVE  LossInv'
<1>1. n \in Nat
  BY LossAssumption
<1>2. WireTyped'
  BY <1>1 DEF LossInv, WireTyped, Spray
<1>3. ASSUME mode = "sealed"
      PROVE  (SpanExact /\ ReportsTell /\ LastTells /\ Decays)'
  <2>1. WireTyped /\ SpanExact /\ ReportsTell /\ LastTells /\ Decays
    BY <1>3 DEF LossInv
  <2>2. ASSUME NEW m \in 0 .. span
        PROVE  Below(lost', m) = Below(lost, m) /\ Below(inFlight', m) = Below(inFlight, m)
    <3>1. m <= sent
      BY <2>1 DEF SpanExact, WireTyped
    <3>2. \A s \in sent .. sent + n - 1 : ~(s < m)
      BY <2>1, <3>1, <1>1 DEF WireTyped
    <3>3. QED
      BY <3>2 DEF Spray, Below
  <2>3. \A m \in 0 .. span : Missing(m)' = Missing(m)
    BY <2>2 DEF Missing
  <2>4. \A m \in 0 .. span : Cardinality(Below(lost, m)) \in Nat /\ Missing(m) \in Nat
    <3>1. \A m \in 0 .. span : m \in Nat
      BY <2>1 DEF WireTyped
    <3>2. QED
      BY <2>1, <3>1, CountsTyped DEF Missing
  <2>5. SpanExact'
    <3>1. span' = span /\ pkts' = pkts /\ span \in 0 .. span /\ span <= sent'
      BY <1>1, <2>1 DEF Spray, SpanExact, WireTyped
    <3>2. \A s \in span' .. sent' - 1 : s \in lost' \cup inFlight'
      BY <1>1, <2>1 DEF Spray, SpanExact, WireTyped
    <3>3. Missing(span)' = Missing(span)
      BY <2>2, <3>1 DEF Missing
    <3>4. QED
      BY <2>1, <2>2, <3>1, <3>2, <3>3 DEF SpanExact
  <2>6. ReportsTell' /\ LastTells'
    <3>1. span <= span' /\ UNCHANGED <<reports, est>>
      BY <2>1 DEF Spray, WireTyped
    <3>2. \A m \in 0 .. span :
            /\ Cardinality(Below(lost, m)) <= Cardinality(Below(lost', m))
            /\ Missing(m)' <= Missing(m)
      BY <2>2, <2>3, <2>4
    <3>3. QED
      BY <1>2, <2>1, <3>1, <3>2, AllTellsKept
  <2>7. Decays'
    BY <2>1 DEF Decays, Spray
  <2>8. QED
    BY <2>5, <2>6, <2>7
<1>4. QED
  BY <1>2, <1>3 DEF LossInv, Spray

(* A datagram in flight below the span moves to the lost ones, so that     *)
(* nothing changes in what is missing.                                     *)
LEMMA LoseStep ==
  ASSUME LossInv, NEW s \in inFlight, Lose(s)
  PROVE  LossInv'
<1>1. WireTyped'
  BY DEF LossInv, WireTyped, Lose
<1>2. ASSUME mode = "sealed"
      PROVE  (SpanExact /\ ReportsTell /\ LastTells /\ Decays)'
  <2>1. WireTyped /\ SpanExact /\ ReportsTell /\ LastTells /\ Decays
    BY <1>2 DEF LossInv
  <2>2. s \notin lost /\ lost' = lost \cup {s} /\ inFlight' = inFlight \ {s}
    BY <2>1 DEF WireTyped, Lose
  <2>3. ASSUME NEW m \in Nat
        PROVE  /\ Cardinality(Below(lost, m)) <= Cardinality(Below(lost', m))
               /\ Cardinality(Below(inFlight', m)) <= Cardinality(Below(inFlight, m))
               /\ Cardinality(Below(inFlight', m)) \in Int
               /\ Missing(m)' = Missing(m)
    <3>1. /\ Cardinality(Below(lost, m)) \in Nat /\ Cardinality(Below(inFlight, m)) \in Nat
          /\ IsFiniteSet(Below(lost, m)) /\ IsFiniteSet(Below(inFlight, m))
      BY <2>1, CountsTyped
    <3>2. Cardinality(Below(lost', m))
            = IF s < m THEN Cardinality(Below(lost, m)) + 1 ELSE Cardinality(Below(lost, m))
      BY <2>2, <3>1, BelowAdd
    <3>3. Cardinality(Below(inFlight', m))
            = IF s < m THEN Cardinality(Below(inFlight, m)) - 1 ELSE Cardinality(Below(inFlight, m))
      BY <2>2, <3>1, BelowRemove
    <3>4. QED
      BY <3>1, <3>2, <3>3 DEF Missing
  <2>4. /\ span' = span /\ pkts' = pkts /\ sent' = sent /\ span \in Nat
        /\ UNCHANGED <<reports, est, quiet>>
    BY <2>1 DEF Lose, WireTyped
  <2>5. SpanExact'
    <3>1. \A t \in span' .. sent' - 1 : t \in lost' \cup inFlight'
      BY <2>1, <2>2, <2>4 DEF SpanExact
    <3>2. Missing(span)' = Missing(span) /\ Cardinality(Below(inFlight', span)) <= Overtake
      <4>1. /\ Cardinality(Below(inFlight', span)) <= Cardinality(Below(inFlight, span))
            /\ Missing(span)' = Missing(span)
        BY <2>3, <2>4 DEF Missing
      <4>2. Cardinality(Below(inFlight, span)) \in Nat /\ Cardinality(Below(inFlight', span)) \in Int
        BY <2>1, <2>3, <2>4, CountsTyped
      <4>3. QED
        BY <2>1, <4>1, <4>2, LossAssumption DEF SpanExact
    <3>3. QED
      BY <2>1, <2>4, <3>1, <3>2 DEF SpanExact
  <2>6. ReportsTell' /\ LastTells'
    <3>1. \A m \in 0 .. span :
            /\ Cardinality(Below(lost, m)) <= Cardinality(Below(lost', m))
            /\ Missing(m)' <= Missing(m)
      BY <2>1, <2>3, <2>4, CountsTyped DEF Missing
    <3>2. QED
      BY <1>1, <2>1, <2>4, <3>1, AllTellsKept
  <2>7. Decays'
    BY <2>1, <2>4 DEF Decays
  <2>8. QED
    BY <2>5, <2>6, <2>7
<1>3. QED
  BY <1>1, <1>2 DEF LossInv, Lose

(* A datagram is opened: below the span it leaves the ones in flight, and  *)
(* above it the span moves over datagrams that are all lost or in flight.  *)
LEMMA DeliverStep ==
  ASSUME LossInv, NEW s \in inFlight, Deliver(s)
  PROVE  LossInv'
<1>1. s \in Nat /\ s < sent /\ s \notin lost
  BY DEF LossInv, WireTyped
<1>2. span' \in Nat /\ span <= span' /\ (span' = span \/ span' = s + 1)
  BY <1>1 DEF LossInv, WireTyped, Deliver, MaxOf
<1>3. WireTyped'
  BY <1>2 DEF LossInv, WireTyped, Deliver
<1>4. ASSUME mode = "sealed"
      PROVE  (SpanExact /\ ReportsTell /\ LastTells /\ Decays)'
  <2>1. WireTyped /\ SpanExact /\ ReportsTell /\ LastTells /\ Decays
    BY <1>4 DEF LossInv
  <2>2. /\ UNCHANGED <<sent, lost, reports, est, quiet>> /\ inFlight' = inFlight \ {s}
        /\ span \in Nat /\ sent \in Nat /\ pkts \in Nat /\ pkts' = pkts + 1
    BY <2>1 DEF Deliver, WireTyped
  <2>3. ASSUME NEW m \in Nat
        PROVE  /\ Cardinality(Below(lost, m)) \in Nat /\ Cardinality(Below(inFlight, m)) \in Nat
               /\ Cardinality(Below(inFlight', m))
                    = IF s < m THEN Cardinality(Below(inFlight, m)) - 1
                      ELSE Cardinality(Below(inFlight, m))
    <3>1. /\ Cardinality(Below(lost, m)) \in Nat /\ Cardinality(Below(inFlight, m)) \in Nat
          /\ IsFiniteSet(Below(inFlight, m))
      BY <2>1, CountsTyped
    <3>2. QED
      BY <2>2, <3>1, BelowRemove
  <2>4. SpanExact'
    <3>1. span' <= sent'
      BY <1>1, <1>2, <2>1, <2>2 DEF SpanExact
    <3>2. \A t \in span' .. sent' - 1 : t \in lost' \cup inFlight'
      <4>1. ASSUME NEW t \in span' .. sent' - 1
            PROVE  t \in lost' \cup inFlight'
        <5>1. t \in span .. sent - 1 /\ t # s
          BY <1>1, <1>2, <2>2 DEF Deliver, MaxOf
        <5>2. QED
          BY <2>1, <2>2, <5>1 DEF SpanExact
      <4>2. QED
        BY <4>1
    <3>3. CASE s < span
      <4>1. span' = span
        BY <1>1, <2>2, <3>3 DEF Deliver, MaxOf
      <4>2. /\ Cardinality(Below(lost, span)) \in Nat /\ Cardinality(Below(inFlight, span)) \in Nat
            /\ Cardinality(Below(inFlight', span)) = Cardinality(Below(inFlight, span)) - 1
        BY <2>2, <2>3, <3>3
      <4>3. /\ pkts + (Cardinality(Below(lost, span)) + Cardinality(Below(inFlight, span))) = span
            /\ Cardinality(Below(inFlight, span)) <= Overtake
        BY <2>1 DEF SpanExact, Missing
      <4>4. /\ pkts' + (Cardinality(Below(lost, span)) + Cardinality(Below(inFlight', span))) = span
            /\ Cardinality(Below(inFlight', span)) <= Overtake
        BY <2>2, <4>2, <4>3, LossAssumption
      <4>5. QED
        BY <2>2, <3>1, <3>2, <4>1, <4>4 DEF SpanExact, Missing
    <3>4. CASE ~(s < span)
      <4>9. PICK n \in Nat : n = s + 1
        BY <1>1
      <4>1. span' = n /\ n \in Nat /\ span <= n /\ s < n /\ n <= sent
        BY <1>1, <2>2, <3>4, <4>9 DEF Deliver, MaxOf
      <4>2. Below(inFlight', n) = Below(inFlight, s)
        <5>1. \A t \in inFlight : t \in Int
          BY <2>1 DEF WireTyped
        <5>2. \A t \in inFlight : t < n /\ t # s <=> t < s
          BY <1>1, <4>9, <5>1
        <5>3. QED
          BY <2>2, <5>2 DEF Below
      <4>3. Cardinality(Below(inFlight', n)) <= Overtake
        BY <4>2 DEF Deliver, Reach
      <4>4. Missing(n) = Missing(span) + (n - span)
        <5>1. \A t \in span .. n - 1 : t \in lost \cup inFlight
          BY <2>1, <2>2, <4>1 DEF SpanExact
        <5>2. QED
          BY <2>1, <4>1, <5>1, SpanCover
      <4>5. /\ Cardinality(Below(lost, span)) \in Nat /\ Cardinality(Below(inFlight, span)) \in Nat
            /\ Cardinality(Below(lost, n)) \in Nat /\ Cardinality(Below(inFlight, n)) \in Nat
            /\ Cardinality(Below(inFlight', n)) = Cardinality(Below(inFlight, n)) - 1
        BY <2>2, <2>3, <4>1
      <4>6. pkts + Missing(span) = span
        BY <2>1 DEF SpanExact
      <4>7. pkts' + (Cardinality(Below(lost, n)) + Cardinality(Below(inFlight', n))) = n
        <5>1. PICK a \in Nat, b \in Nat, c \in Nat, d \in Nat :
                /\ a = Cardinality(Below(lost, span)) /\ b = Cardinality(Below(inFlight, span))
                /\ c = Cardinality(Below(lost, n)) /\ d = Cardinality(Below(inFlight, n))
          BY <4>5
        <5>2. pkts + (a + b) = span /\ c + d = (a + b) + (n - span)
          BY <4>4, <4>6, <5>1 DEF Missing
        <5>3. (pkts + 1) + (c + (d - 1)) = n
          BY <2>2, <5>2
        <5>4. QED
          BY <2>2, <4>5, <5>1, <5>3
      <4>8. QED
        BY <2>2, <3>1, <3>2, <4>1, <4>3, <4>7 DEF SpanExact, Missing
    <3>5. QED
      BY <3>3, <3>4
  <2>5. ReportsTell' /\ LastTells'
    <3>1. \A m \in 0 .. span :
            /\ Cardinality(Below(lost, m)) <= Cardinality(Below(lost', m))
            /\ Missing(m)' <= Missing(m)
      <4>1. ASSUME NEW m \in 0 .. span
            PROVE  /\ Cardinality(Below(lost, m)) <= Cardinality(Below(lost', m))
                   /\ Missing(m)' <= Missing(m)
        <5>1. m \in Nat
          BY <2>2
        <5>2. /\ Cardinality(Below(lost, m)) \in Nat /\ Cardinality(Below(inFlight, m)) \in Nat
              /\ Cardinality(Below(inFlight', m))
                   = IF s < m THEN Cardinality(Below(inFlight, m)) - 1
                     ELSE Cardinality(Below(inFlight, m))
          BY <2>3, <5>1
        <5>3. lost' = lost
          BY <2>2
        <5>4. QED
          BY <5>2, <5>3 DEF Missing
      <4>2. QED
        BY <4>1
    <3>2. QED
      BY <1>2, <1>3, <2>1, <2>2, <3>1, AllTellsKept
  <2>6. Decays'
    BY <2>1, <2>2 DEF Decays
  <2>7. QED
    BY <2>4, <2>5, <2>6
<1>5. QED
  BY <1>3, <1>4 DEF LossInv, Deliver

(* Only plaintext duplicates count. *)
LEMMA DuplicateStep == LossInv /\ Duplicate => LossInv'
  BY DEF LossInv, WireTyped, Duplicate

(* A report tells what is missing below the span. *)
LEMMA TickStep == LossInv /\ Tick => LossInv'
<1> SUFFICES ASSUME LossInv, Tick PROVE LossInv'
  OBVIOUS
<1>1. WireTyped
  BY DEF LossInv
<1>2. Overtaken \in Nat
  BY <1>1, CountsTyped DEF Overtaken, WireTyped
<1>3. <<pkts, span, Overtaken>> \in Nat \X Nat \X Nat
  BY <1>1, <1>2 DEF WireTyped
<1>4. /\ reports' \in Seq(Nat \X Nat \X Nat) /\ Len(reports') = Len(reports) + 1
      /\ \A i \in 1 .. Len(reports) : reports'[i] = reports[i]
      /\ reports'[Len(reports) + 1] = <<pkts, span, Overtaken>>
  BY <1>1, <1>3 DEF Tick, WireTyped
<1>5. WireTyped'
  BY <1>1, <1>4 DEF WireTyped, Tick
<1>6. ASSUME mode = "sealed"
      PROVE  (SpanExact /\ ReportsTell /\ LastTells /\ Decays)'
  <2>1. SpanExact /\ ReportsTell /\ LastTells /\ Decays
    BY <1>6 DEF LossInv
  <2>2. UNCHANGED <<sent, inFlight, lost, pkts, span, est, quiet>>
    BY DEF Tick
  <2>3. Tells(pkts, span, Overtaken) /\ Overtaken <= Overtake
    <3>1. Cardinality(Below(lost, span)) \in Nat /\ Cardinality(Below(inFlight, span)) \in Nat
      BY <1>1, CountsTyped DEF WireTyped
    <3>2. QED
      BY <1>1, <2>1, <3>1 DEF Tells, SpanExact, Missing, Overtaken, WireTyped
  <2>4. ReportsTell'
    <3>1. ASSUME NEW i \in 1 .. Len(reports')
          PROVE  /\ Tells(reports'[i][1], reports'[i][2], reports'[i][3])
                 /\ reports'[i][3] <= Overtake
      <4>1. CASE i \in 1 .. Len(reports)
        BY <1>4, <2>1, <4>1 DEF ReportsTell
      <4>2. CASE i = Len(reports) + 1
        BY <1>4, <2>3, <4>2
      <4>3. QED
        BY <1>1, <1>4, <4>1, <4>2 DEF WireTyped
    <3>2. QED
      BY <2>2, <3>1 DEF ReportsTell, Tells, Missing
  <2>5. (SpanExact /\ LastTells /\ Decays)'
    BY <2>1, <2>2 DEF SpanExact, LastTells, Decays, Tells, Missing
  <2>6. QED
    BY <2>4, <2>5
<1>7. QED
  BY <1>5, <1>6 DEF LossInv, Tick

-----------------------------------------------------------------------------
(* LossEstimator.                                                          *)

LEMMA Quotient ==
  ASSUME NEW a \in Nat, NEW b \in Nat \ {0}
  PROVE  a \div b \in Nat /\ (a \div b) * b <= a /\ a < (a \div b) * b + b
<1>1. a \div b \in Int /\ a = b * (a \div b) + (a % b) /\ a % b \in 0 .. b - 1
  OBVIOUS
<1>2. a \div b \in Nat
  OBVIOUS
<1>3. b * (a \div b) = (a \div b) * b
  BY <1>1
<1>4. QED
  BY <1>1, <1>2, <1>3

LEMMA MulOrder ==
  ASSUME NEW w \in Nat, NEW p \in Nat, NEW q \in Nat, p <= q
  PROVE  p * w \in Nat /\ q * w \in Nat /\ p * w <= q * w
<1>1. (q - p) * w >= 0
  OBVIOUS
<1>2. (q - p) * w = q * w - p * w
  OBVIOUS
<1>3. p * w \in Nat /\ q * w \in Nat
  OBVIOUS
<1>4. QED
  BY <1>1, <1>2, <1>3

(* A sample is at most 90%, and nothing if the interval is complete. *)
LEMMA SampleBounds ==
  ASSUME NEW d \in Nat, NEW t \in Nat \ {0}
  PROVE  Sample(d, t) \in Estimates /\ (t <= d => Sample(d, t) = 0)
<1> DEFINE q == (d * 1000) \div t
<1>1. q \in Nat /\ q * t <= d * 1000 /\ d * 1000 < q * t + t
  BY Quotient
<1> HIDE DEF q
<1>2. Sample(d, t) = Clamp(1000 - q, 0, 900)
  BY DEF Sample, q
<1>3. ASSUME t <= d
      PROVE  1000 <= q
  <2>1. SUFFICES ASSUME q + 1 <= 1000 PROVE FALSE
    BY <1>1
  <2>2. (q + 1) * t <= 1000 * t
    BY <1>1, <2>1, MulOrder
  <2>3. (q + 1) * t = q * t + t /\ q * t \in Nat
    BY <1>1
  <2>4. QED
    BY <1>1, <1>3, <2>2, <2>3
<1>4. QED
  BY <1>1, <1>2, <1>3 DEF Clamp, MinOf, MaxOf, Estimates

(* The estimate after a sample x (LOSS_EWMA_ALPHA). *)
Blended(primed, m, x) == IF primed THEN (7 * m + 3 * x) \div 10 ELSE x

LEMMA Blend ==
  ASSUME NEW primed \in BOOLEAN, NEW m \in Estimates, NEW x \in Estimates
  PROVE  /\ Blended(primed, m, x) \in Estimates
         /\ x = 0 => 10 * Blended(primed, m, x) <= 7 * m
<1> DEFINE a == 7 * m + 3 * x
<1>1. a \in Nat /\ a <= 9000 /\ (x = 0 => a = 7 * m)
  BY DEF Estimates
<1>2. a \div 10 \in Nat /\ (a \div 10) * 10 <= a
  BY <1>1, Quotient
<1> HIDE DEF a
<1>3. a \div 10 \in Estimates /\ (x = 0 => 10 * (a \div 10) <= 7 * m)
  BY <1>1, <1>2 DEF Estimates
<1>4. Blended(primed, m, x) = IF primed THEN a \div 10 ELSE x
  BY DEF Blended, a
<1>5. CASE primed
  BY <1>3, <1>4, <1>5
<1>6. CASE ~primed
  BY <1>4, <1>6 DEF Estimates
<1>7. QED
  BY <1>5, <1>6

(* So does every complete sample. *)
LEMMA DecayOnce ==
  ASSUME NEW q \in 0 .. 3, NEW m \in Estimates, NEW y \in Estimates,
         10 * y <= 7 * m, Decayed(q, m)
  PROVE  Decayed(MinOf(q + 1, 3), y)
<1>1. y <= 630 /\ (q = 1 => y <= 441) /\ (q \in {2, 3} => y <= 309)
  BY DEF Decayed, Estimates
<1>2. q \in {0, 1, 2, 3}
  OBVIOUS
<1>3. QED
  BY <1>1, <1>2 DEF Decayed, MinOf

(* The interval from the last report to a report <<p, n>> is complete. *)
Whole(e, p, n) ==
  IF e.last = None THEN n <= p ELSE n - e.last[2] <= p - e.last[1]

(* What update does to e: nothing, or a sample of the interval that ends   *)
(* with the report; a complete interval takes 3/10 off the estimate.       *)
Sampled(e, p, n, u) ==
  /\ u \in Estimators /\ (u.last = None => u.ewma = 0)
  /\ u.last = e.last => u = e
  /\ u.last # e.last =>
       /\ u.last = <<p, n>>
       /\ e.last # None => e.last[2] < n
       /\ Whole(e, p, n) => 10 * u.ewma <= 7 * e.ewma

LEMMA UpdateSamples ==
  ASSUME NEW e \in Estimators, e.last = None => e.ewma = 0,
         NEW p \in Nat, NEW n \in Nat
  PROVE  Sampled(e, p, n, Update(e, p, n))
<1> DEFINE u == Update(e, p, n)
<1> HIDE DEF u
<1>0. SUFFICES Sampled(e, p, n, u)
  BY DEF u
<1> USE DEF Sampled
<1>1. /\ e.ewma \in Estimates /\ e.primed \in BOOLEAN
      /\ e.last = None \/ e.last \in Nat \X Nat
  BY DEF Estimators
<1>2. <<p, n>> \in Nat \X Nat /\ <<p, n>> # None
  BY DEF None
<1>3. CASE e.last = None /\ n = 0
  <2>1. u = [e EXCEPT !.last = <<p, n>>]
    BY <1>3 DEF u, Update, First
  <2>2. u \in Estimators /\ u.ewma = 0 /\ e.ewma = 0 /\ u.last = <<p, n>>
    BY <1>1, <1>2, <1>3, <2>1 DEF Estimators
  <2>3. QED
    BY <1>2, <1>3, <2>2
<1>4. CASE e.last = None /\ n # 0
  <2>1. u = [ewma |-> Sample(p, n), primed |-> TRUE, last |-> <<p, n>>]
    BY <1>4 DEF u, Update, First
  <2>2. Sample(p, n) \in Estimates /\ (n <= p => Sample(p, n) = 0)
    BY <1>4, SampleBounds
  <2>3. u \in Estimators /\ u.last = <<p, n>> /\ u.ewma = Sample(p, n)
    BY <1>2, <2>1, <2>2 DEF Estimators
  <2>4. u.last # None /\ u.last # e.last
    BY <1>2, <1>4, <2>3, Zenon
  <2>5. Whole(e, p, n) => u.ewma = 0 /\ e.ewma = 0
    BY <1>4, <2>2, <2>3, Zenon DEF Whole
  <2>6. Whole(e, p, n) => 10 * u.ewma <= 7 * e.ewma
    BY <2>5
  <2>7. QED
    BY <1>4, <2>3, <2>4, <2>6, Zenon
<1>5. CASE e.last # None
  <2> DEFINE dr == SaturatingSub(p, e.last[1])
             ds == SaturatingSub(n, e.last[2])
  <2>1. e.last[1] \in Nat /\ e.last[2] \in Nat
    BY <1>1, <1>5
  <2>2. /\ dr \in Nat /\ ds \in Nat
        /\ ds > 0 => ds = n - e.last[2]
        /\ p - e.last[1] <= dr
    BY <2>1 DEF SaturatingSub, MaxOf
  <2> HIDE DEF dr, ds
  <2>3. CASE ds < Tiny
    <3>1. u = e
      BY <1>5, <2>3 DEF u, Update, dr, ds
    <3>2. QED
      BY <1>5, <3>1
  <2>4. CASE ~(ds < Tiny)
    <3> DEFINE x == Sample(dr, ds)
               w == Blended(e.primed, e.ewma, x)
    <3>1. ds \in Nat \ {0} /\ e.last[2] < n
      BY <2>1, <2>2, <2>4, LossAssumption
    <3>2. x \in Estimates /\ (ds <= dr => x = 0)
      BY <2>2, <3>1, SampleBounds
    <3>3. u = [ewma |-> w, primed |-> TRUE, last |-> <<p, n>>]
      BY <1>5, <2>4 DEF u, Update, dr, ds, Blended
    <3> HIDE DEF x
    <3>4. w \in Estimates /\ (x = 0 => 10 * w <= 7 * e.ewma)
      BY <1>1, <3>2, Blend
    <3>5. Whole(e, p, n) => x = 0
      BY <1>5, <2>1, <2>2, <3>1, <3>2 DEF Whole
    <3> HIDE DEF w
    <3>6. u \in Estimators /\ u.last = <<p, n>> /\ u.ewma = w
      BY <1>2, <3>3, <3>4 DEF Estimators
    <3>7. u.last # e.last
      BY <2>1, <3>1, <3>6
    <3>8. QED
      BY <1>2, <1>5, <3>1, <3>4, <3>5, <3>6, <3>7
  <2>5. QED
    BY <2>3, <2>4
<1>6. QED
  BY <1>3, <1>4, <1>5

(* A report of drain_feedback. *)
LEMMA ProgressStep == LossInv /\ Progress => LossInv'
<1> SUFFICES ASSUME LossInv, Progress PROVE LossInv'
  OBVIOUS
<1>1. WireTyped
  BY DEF LossInv
<1>2. /\ reports # <<>> /\ reports \in Seq(Nat \X Nat \X Nat)
      /\ UNCHANGED <<mode, sent, inFlight, lost, dups, pkts, span>>
  BY <1>1 DEF Progress, WireTyped
<1>3. PICK r \in Nat \X Nat \X Nat : r = Head(reports) /\ r = reports[1] /\ Len(reports) \in Nat \ {0}
  BY <1>2
<1>4. /\ reports' \in Seq(Nat \X Nat \X Nat) /\ Len(reports') = Len(reports) - 1
      /\ \A i \in 1 .. Len(reports') : reports'[i] = reports[i + 1] /\ i + 1 \in 1 .. Len(reports)
  BY <1>2, <1>3 DEF Progress
<1>5. PICK p \in Nat, n \in Nat, o \in Nat : r = <<p, n, o>>
  BY <1>3
<1>6. PICK t \in Nat : t = Total(r) /\ (mode = "sealed" => t = n)
  BY <1>1, <1>5 DEF Total, WireTyped
<1> DEFINE from == IF est.last = None THEN 0 ELSE est.last[2]
           complete == o = 0 /\ lost \cap (from .. t - 1) = {}
<1>7. /\ est' = Update(est, p, t)
      /\ quiet' = IF est'.last = est.last THEN quiet
                  ELSE IF complete THEN MinOf(quiet + 1, 3) ELSE 0
  <2>1. /\ est' = Update(est, r[1], Total(r))
        /\ quiet' = IF est'.last = est.last THEN quiet
                    ELSE IF r[3] = 0 /\ lost \cap (from .. Total(r) - 1) = {}
                         THEN MinOf(quiet + 1, 3) ELSE 0
    BY <1>3, Zenon DEF Progress
  <2>2. r[1] = p /\ r[3] = o /\ Total(r) = t
    BY <1>5, <1>6
  <2>3. QED
    BY <2>1, <2>2, Zenon
<1>8. /\ est' \in Estimators /\ (est'.last = None => est'.ewma = 0)
      /\ est'.last = est.last => est' = est
      /\ est'.last # est.last =>
           /\ est'.last = <<p, t>>
           /\ est.last # None => est.last[2] < t
           /\ Whole(est, p, t) => 10 * est'.ewma <= 7 * est.ewma
  <2>1. est \in Estimators /\ (est.last = None => est.ewma = 0)
    BY <1>1 DEF WireTyped
  <2>2. est' = Update(est, p, t)
    BY <1>7
  <2>3. Sampled(est, p, t, est')
    BY <2>1, <2>2, UpdateSamples, Zenon
  <2>4. QED
    BY <2>3, Zenon DEF Sampled
<1>9. quiet' \in 0 .. 3
  BY <1>1, <1>7 DEF WireTyped, MinOf
<1>10. WireTyped'
  BY <1>1, <1>2, <1>4, <1>8, <1>9 DEF WireTyped
<1>11. ASSUME mode = "sealed"
       PROVE  (SpanExact /\ ReportsTell /\ LastTells /\ Decays)'
  <2>1. SpanExact /\ ReportsTell /\ LastTells /\ Decays
    BY <1>11 DEF LossInv
  <2>2. t = n
    BY <1>6, <1>11
  <2>3. SpanExact'
    BY <1>2, <2>1 DEF SpanExact, Missing
  <2>4. ReportsTell'
    <3>1. ASSUME NEW i \in 1 .. Len(reports')
          PROVE  /\ Tells(reports'[i][1], reports'[i][2], reports'[i][3])
                 /\ reports'[i][3] <= Overtake
      BY <1>4, <2>1 DEF ReportsTell
    <3>2. QED
      BY <1>2, <3>1 DEF ReportsTell, Tells, Missing
  <2>5. Tells(p, n, o) /\ o <= Overtake
    BY <1>3, <1>5, <2>1 DEF ReportsTell
  <2>6. Cardinality(Below(lost, n)) \in Nat /\ Cardinality(Below(inFlight, n)) \in Nat
    BY <1>1, CountsTyped
  <2>7. LastTells'
    <3>1. CASE est'.last = est.last
      BY <1>2, <1>8, <2>1, <3>1 DEF LastTells, Tells, Missing
    <3>2. CASE est'.last # est.last
      <4>1. est'.last[1] = p /\ est'.last[2] = n
        BY <1>8, <2>2, <3>2
      <4>2. Tells(p, n, Overtake)
        BY <2>5, <2>6, LossAssumption DEF Tells
      <4>3. QED
        BY <1>2, <4>1, <4>2 DEF LastTells, Tells, Missing
    <3>3. QED
      BY <3>1, <3>2
  <2>8. ASSUME est'.last # est.last, complete
        PROVE  Whole(est, p, t)
    <3>1. lost \subseteq Int
      BY <1>1 DEF WireTyped
    <3>2. n - p <= Cardinality(Below(lost, n))
      BY <2>5, <2>6, <2>8 DEF Tells
    <3>3. CASE est.last = None
      <4>1. Below(lost, n) = {}
        <5>1. lost \cap (0 .. n - 1) = {}
          BY <2>2, <2>8, <3>3
        <5>2. \A s \in lost : s \in Nat
          BY <1>1 DEF WireTyped
        <5>3. QED
          BY <5>1, <5>2 DEF Below
      <4>2. QED
        BY <2>2, <3>2, <3>3, <4>1, FS_EmptySet DEF Whole
    <3>4. CASE est.last # None
      <4>1. PICK a \in Nat, b \in Nat : a = est.last[1] /\ b = est.last[2]
        BY <1>1, <3>4 DEF WireTyped, Estimators
      <4>2. b < n
        BY <1>8, <2>2, <2>8, <3>4, <4>1
      <4>3. lost \cap (b .. n - 1) = {}
        BY <2>2, <2>8, <3>4, <4>1
      <4>4. Below(lost, n) = Below(lost, b)
        BY <3>1, <4>2, <4>3, BelowGap
      <4>5. Missing(b) <= b - a
        BY <2>1, <3>4, <4>1 DEF LastTells, Tells
      <4>6. Cardinality(Below(lost, b)) \in Nat /\ Cardinality(Below(inFlight, b)) \in Nat
        BY <1>1, CountsTyped
      <4>7. n - b <= p - a
        BY <3>2, <4>4, <4>5, <4>6 DEF Missing
      <4>8. QED
        BY <2>2, <3>4, <4>1, <4>7 DEF Whole
    <3>5. QED
      BY <3>3, <3>4
  <2>9. Decays'
    <3>1. est.ewma \in Estimates /\ quiet \in 0 .. 3 /\ est'.ewma \in Estimates
      BY <1>1, <1>8 DEF WireTyped, Estimators
    <3>2. CASE est'.last = est.last
      BY <1>7, <1>8, <2>1, <3>2 DEF Decays
    <3>3. CASE est'.last # est.last /\ complete
      <4>1. 10 * est'.ewma <= 7 * est.ewma
        BY <1>8, <2>8, <3>3
      <4>2. quiet' = MinOf(quiet + 1, 3)
        BY <1>7, <3>3
      <4>3. QED
        BY <2>1, <3>1, <4>1, <4>2, DecayOnce DEF Decays
    <3>4. CASE est'.last # est.last /\ ~complete
      BY <1>7, <3>4 DEF Decays, Decayed
    <3>5. QED
      BY <3>2, <3>3, <3>4
  <2>10. QED
    BY <2>3, <2>4, <2>7, <2>9
<1>12. QED
  BY <1>2, <1>10, <1>11 DEF LossInv

-----------------------------------------------------------------------------
LEMMA LossStep == LossInv /\ [Next]_vars => LossInv'
<1> SUFFICES ASSUME LossInv, [Next]_vars PROVE LossInv'
  OBVIOUS
<1>1. ASSUME NEW n \in Counts, NEW drop \in SUBSET (sent .. sent + n - 1), Spray(n, drop)
      PROVE  LossInv'
  BY <1>1, SprayStep
<1>2. ASSUME NEW s \in inFlight, Lose(s)
      PROVE  LossInv'
  BY <1>2, LoseStep
<1>3. ASSUME NEW s \in inFlight, Deliver(s)
      PROVE  LossInv'
  BY <1>3, DeliverStep
<1>4. CASE Duplicate
  BY <1>4, DuplicateStep
<1>5. CASE Tick
  BY <1>5, TickStep
<1>6. CASE Progress
  BY <1>6, ProgressStep
<1>7. CASE UNCHANGED vars
  BY <1>7 DEF vars, LossInv, WireTyped, SpanExact, ReportsTell, LastTells, Decays,
              Tells, Missing
<1>8. QED
  BY <1>1, <1>2, <1>3, <1>4, <1>5, <1>6, <1>7 DEF Next

LEMMA LossInvariant == Spec => []LossInv
<1>1. QED
  BY LossInit, LossStep, PTL DEF Spec

(* A sealed report never hides a loss, and counts beyond the losses only   *)
(* the few datagrams that were overtaken: the counters of SymbolOpener and *)
(* handle_transfer, for every pattern of loss and overtaking.              *)
THEOREM WireLossExact == Spec => []ExactWireLoss
<1>1. LossInv => ExactWireLoss
  <2> SUFFICES ASSUME LossInv, mode = "sealed", NEW r \in Known
               PROVE  r[2] - r[1] - Cardinality(Below(lost, r[2])) \in 0 .. Overtake
    BY DEF ExactWireLoss
  <2>1. WireTyped /\ ReportsTell /\ LastTells
    BY DEF LossInv
  <2>2. PICK p \in Nat, n \in Nat : p = r[1] /\ n = r[2] /\ Tells(p, n, Overtake)
    <3>1. CASE \E i \in DOMAIN reports : r = reports[i]
      <4>1. PICK i \in 1 .. Len(reports) : r = reports[i]
        BY <2>1, <3>1 DEF WireTyped
      <4>2. r \in Nat \X Nat \X Nat
        BY <2>1, <4>1 DEF WireTyped
      <4>3. Tells(r[1], r[2], r[3]) /\ r[3] <= Overtake
        BY <2>1, <4>1 DEF ReportsTell
      <4>4. Cardinality(Below(lost, r[2])) \in Nat
        BY <2>1, <4>2, CountsTyped
      <4>5. Tells(r[1], r[2], Overtake)
        BY <4>2, <4>3, <4>4, LossAssumption DEF Tells
      <4>6. QED
        BY <4>2, <4>5
    <3>2. CASE est.last # None /\ r = est.last
      BY <2>1, <3>2 DEF LastTells, WireTyped, Estimators
    <3>3. QED
      BY <3>1, <3>2 DEF Known
  <2>3. Cardinality(Below(lost, n)) \in Nat /\ Cardinality(Below(inFlight, n)) \in Nat
    BY <2>1, CountsTyped
  <2>4. n - p - Cardinality(Below(lost, n)) \in 0 .. Overtake
    BY <2>2, <2>3, LossAssumption DEF Tells, Missing
  <2>5. QED
    BY <2>2, <2>4
<1>2. QED
  BY <1>1, LossInvariant, PTL

(* Three complete samples take the estimate below 31%, whatever the        *)
(* startup lost: update takes intervals and not lifetime counts.           *)
THEOREM EstimateForgets == Spec => []Forgets
<1>1. LossInv => Forgets
  BY DEF LossInv, Forgets, Decays, Decayed, WireTyped
<1>2. QED
  BY <1>1, LossInvariant, PTL

-----------------------------------------------------------------------------
(* How much repair is sent.                                                *)

(* c is x per mille of k, rounded up. *)
IsCeil(k, x, c) == c \in Nat /\ k * x <= 1000 * c /\ 1000 * c <= k * x + 999

LEMMA CeilBounds ==
  ASSUME NEW k \in Nat, NEW x \in Nat
  PROVE  IsCeil(k, x, CeilOf(k, x))
<1> DEFINE a == k * x + 999
<1>1. a \in Nat /\ k * x \in Nat
  OBVIOUS
<1>2. a \div 1000 \in Nat /\ (a \div 1000) * 1000 <= a /\ a < (a \div 1000) * 1000 + 1000
  BY <1>1, Quotient
<1>3. CeilOf(k, x) = a \div 1000
  BY DEF CeilOf
<1>4. QED
  BY <1>1, <1>2, <1>3 DEF IsCeil

(* The fractions of round0_frac and repair_frac at an estimate of m. *)
Frac0(m) == Clamp(MaxOf(0, (3 * m) \div 2 + 20), 0, 800)
Frac(m)  == Clamp((3 * m) \div 2, 50, 800)

(* What repair_frac is multiplied to in a round. *)
Escalated(f, round) == (f * (4 + MinOf(round, 4))) \div 4

(* Per mille of a block sent in round 0 and six repair rounds, at least. *)
Weight(m) ==
  1000 + Frac0(m) + Escalated(Frac(m), 1) + Escalated(Frac(m), 2) + Escalated(Frac(m), 3)
    + 3 * Escalated(Frac(m), 4)

LEMMA FracBounds ==
  ASSUME NEW m \in Estimates
  PROVE  /\ Frac0(m) \in 20 .. 800 /\ Frac(m) \in 50 .. 800
         /\ m >= 353 => Frac0(m) >= 549 /\ Frac(m) >= 529
         /\ m >= 860 => Frac0(m) = 800 /\ Frac(m) = 800
<1> DEFINE h == (3 * m) \div 2
<1>1. h \in Nat /\ h * 2 <= 3 * m /\ 3 * m < h * 2 + 2
  BY Quotient DEF Estimates
<1>2. Frac0(m) = Clamp(MaxOf(0, h + 20), 0, 800) /\ Frac(m) = Clamp(h, 50, 800)
  BY DEF Frac0, Frac
<1> HIDE DEF h
<1>3. QED
  BY <1>1, <1>2, SMTT(20) DEF Clamp, MaxOf, MinOf, Estimates

LEMMA EscalatedBounds ==
  ASSUME NEW f \in Nat
  PROVE  /\ Escalated(f, 1) \in Nat /\ 5 * f <= 4 * Escalated(f, 1) + 3
         /\ Escalated(f, 2) \in Nat /\ 6 * f <= 4 * Escalated(f, 2) + 3
         /\ Escalated(f, 3) \in Nat /\ 7 * f <= 4 * Escalated(f, 3) + 3
         /\ Escalated(f, 4) \in Nat /\ 8 * f <= 4 * Escalated(f, 4) + 3
<1>1. ASSUME NEW i \in 1 .. 4
      PROVE  Escalated(f, i) \in Nat /\ f * (4 + i) <= 4 * Escalated(f, i) + 3
  <2> DEFINE a == f * (4 + i)
  <2>1. a \in Nat
    OBVIOUS
  <2>2. Escalated(f, i) = a \div 4
    BY DEF Escalated, MinOf
  <2>3. a \div 4 \in Nat /\ a < (a \div 4) * 4 + 4
    BY <2>1, Quotient
  <2> HIDE DEF a
  <2>4. Escalated(f, i) \in Nat /\ a <= 4 * Escalated(f, i) + 3
    BY <2>1, <2>2, <2>3
  <2>5. QED
    BY <2>4 DEF a
<1>2. QED
  BY <1>1

(* w per mille are enough when m per mille of them are lost. *)
Enough(w, m) == 1000 * 1000 <= w * (1000 - m)

(* What is sent in all suffices for a path that loses m per mille. *)
LEMMA WeightSuffices ==
  ASSUME NEW m \in Estimates
  PROVE  Weight(m) \in Nat /\ Enough(Weight(m), m)
<1> USE DEF Enough
<1>1. PICK r \in Nat, f \in Nat :
        /\ r = Frac0(m) /\ f = Frac(m) /\ r >= 20 /\ f >= 50
        /\ m >= 353 => r >= 549 /\ f >= 529
        /\ m >= 860 => r = 800 /\ f = 800
  <2>1. /\ Frac0(m) \in Nat /\ Frac(m) \in Nat /\ Frac0(m) >= 20 /\ Frac(m) >= 50
        /\ m >= 353 => Frac0(m) >= 549 /\ Frac(m) >= 529
        /\ m >= 860 => Frac0(m) = 800 /\ Frac(m) = 800
    BY FracBounds, SMTT(20)
  <2>2. QED
    BY <2>1
<1>2. PICK a \in Nat, b \in Nat, c \in Nat, d \in Nat :
        /\ a = Escalated(f, 1) /\ b = Escalated(f, 2)
        /\ c = Escalated(f, 3) /\ d = Escalated(f, 4)
        /\ 5 * f <= 4 * a + 3 /\ 6 * f <= 4 * b + 3 /\ 7 * f <= 4 * c + 3 /\ 8 * f <= 4 * d + 3
  BY EscalatedBounds
<1>3. Weight(m) = 1000 + r + a + b + c + 3 * d
  BY <1>1, <1>2 DEF Weight
<1>4. PICK w \in Nat, g \in Nat : w = Weight(m) /\ g = 1000 - m /\ g >= 100
  BY <1>3 DEF Estimates
<1>5. CASE m <= 352
  <2>1. r >= 20 /\ f >= 50
    BY <1>1
  <2>2. w >= 1544 /\ g >= 648
    BY <1>2, <1>3, <1>4, <1>5, <2>1 DEF Estimates
  <2>3. 1544 * g <= w * g
    BY <2>2, MulOrder
  <2>4. QED
    BY <1>4, <2>2, <2>3
<1>6. CASE 353 <= m /\ m <= 859
  <2>1. r >= 549 /\ f >= 529
    BY <1>1, <1>6 DEF Estimates
  <2>2. w >= 7102 /\ g >= 141
    BY <1>2, <1>3, <1>4, <1>6, <2>1 DEF Estimates
  <2>3. 7102 * g <= w * g
    BY <2>2, MulOrder
  <2>4. QED
    BY <1>4, <2>2, <2>3
<1>7. CASE 860 <= m
  <2>1. r = 800 /\ f = 800
    BY <1>1, <1>7 DEF Estimates
  <2>2. w >= 10200
    BY <1>2, <1>3, <1>4, <2>1
  <2>3. 10200 * g <= w * g
    BY <2>2, MulOrder
  <2>4. QED
    BY <1>4, <2>3
<1>8. QED
  BY <1>5, <1>6, <1>7 DEF Estimates

(* n symbols of which m per mille are lost leave k, if n weighs enough. *)
LEMMA EnoughLeft ==
  ASSUME NEW m \in Estimates, NEW k \in Nat, NEW n \in Nat, NEW w \in Nat,
         k * w <= 1000 * n, Enough(w, m)
  PROVE  n - CeilOf(n, m) >= k
<1>1. PICK g \in Nat : g = 1000 - m
  BY DEF Estimates
<1>2. (k * w) * g <= (1000 * n) * g
  BY MulOrder
<1>3. (k * w) * g = (w * g) * k /\ (1000 * n) * g = 1000 * (n * g)
  OBVIOUS
<1>4. 1000 * 1000 * k <= (w * g) * k
  BY <1>1, MulOrder DEF Enough
<1>5. PICK t \in Nat : t = n * g
  OBVIOUS
<1>6. 1000 * k <= t
  BY <1>2, <1>3, <1>4, <1>5
<1>7. PICK l \in Nat : l = n * m
  BY DEF Estimates
<1>8. t = 1000 * n - l
  BY <1>1, <1>5, <1>7 DEF Estimates
<1>9. PICK c \in Nat : c = CeilOf(n, m) /\ 1000 * c <= l + 999
  <2>1. m \in Nat
    BY DEF Estimates
  <2>2. IsCeil(n, m, CeilOf(n, m))
    BY <2>1, CeilBounds
  <2>3. QED
    BY <1>7, <2>2 DEF IsCeil
<1>10. n - c >= k
  BY <1>6, <1>8, <1>9
<1>11. QED
  BY <1>9, <1>10

(* Every block is sent often enough. *)
LEMMA SprayedEnough ==
  ASSUME WireTyped, est.primed, NEW k \in Nat \ {0}
  PROVE  Sprayed(k) - CeilOf(Sprayed(k), est.ewma) >= k
<1>1. PICK m \in Estimates : m = est.ewma
  BY DEF WireTyped, Estimators
<1>2. m \in Nat /\ m >= 0 /\ m <= 900
  BY DEF Estimates
<1>3. Round0Frac(est, 0) = Frac0(m) /\ RepairFrac(est) = Frac(m)
  BY <1>1 DEF Round0Frac, RepairFrac, Frac0, Frac
<1>4. PICK r \in Nat, f \in Nat : r = Frac0(m) /\ f = Frac(m)
  <2>1. Frac0(m) \in Nat /\ Frac(m) \in Nat
    BY FracBounds
  <2>2. QED
    BY <2>1
<1>5. PICK a \in Nat, b \in Nat, c \in Nat, d \in Nat :
        /\ a = Escalated(f, 1) /\ b = Escalated(f, 2)
        /\ c = Escalated(f, 3) /\ d = Escalated(f, 4)
  BY EscalatedBounds
<1>6. ASSUME NEW x \in Nat, NEW lo \in Nat
      PROVE  MaxOf(CeilOf(k, x), lo) \in Nat /\ k * x <= 1000 * MaxOf(CeilOf(k, x), lo)
  <2>1. IsCeil(k, x, CeilOf(k, x)) /\ k * x \in Nat
    BY CeilBounds
  <2>2. QED
    BY <2>1 DEF MaxOf, IsCeil
<1>7. PICK n0 \in Nat : n0 = Round0Overhead(est, 0, k) /\ k * r <= 1000 * n0
  <2>1. Round0Overhead(est, 0, k) = MaxOf(CeilOf(k, r), 2)
    BY <1>3, <1>4 DEF Round0Overhead
  <2>2. QED
    BY <1>6, <2>1
<1>8. ASSUME NEW i \in 1 .. 4, NEW x \in Nat, x = Escalated(f, i)
      PROVE  Extra(est, k, i) \in Nat /\ k * x <= 1000 * Extra(est, k, i)
  <2>1. Extra(est, k, i) = MaxOf(CeilOf(k, x), 8)
    BY <1>3, <1>4, <1>8 DEF Extra, Escalated
  <2>2. QED
    BY <1>6, <2>1
<1>9. PICK n1 \in Nat, n2 \in Nat, n3 \in Nat, n4 \in Nat :
        /\ n1 = Extra(est, k, 1) /\ k * a <= 1000 * n1
        /\ n2 = Extra(est, k, 2) /\ k * b <= 1000 * n2
        /\ n3 = Extra(est, k, 3) /\ k * c <= 1000 * n3
        /\ n4 = Extra(est, k, 4) /\ k * d <= 1000 * n4
  <2>1. Extra(est, k, 1) \in Nat /\ k * a <= 1000 * Extra(est, k, 1)
    BY <1>5, <1>8
  <2>2. Extra(est, k, 2) \in Nat /\ k * b <= 1000 * Extra(est, k, 2)
    BY <1>5, <1>8
  <2>3. Extra(est, k, 3) \in Nat /\ k * c <= 1000 * Extra(est, k, 3)
    BY <1>5, <1>8
  <2>4. Extra(est, k, 4) \in Nat /\ k * d <= 1000 * Extra(est, k, 4)
    BY <1>5, <1>8
  <2>5. QED
    BY <2>1, <2>2, <2>3, <2>4
<1>10. PICK n \in Nat : n = Sprayed(k) /\ n = k + n0 + n1 + n2 + n3 + 3 * n4
  BY <1>7, <1>9 DEF Sprayed
<1>11. PICK w \in Nat : w = Weight(m) /\ w = 1000 + r + a + b + c + 3 * d
  BY <1>4, <1>5 DEF Weight
<1>12. k * w <= 1000 * n
  <2>1. k * w = 1000 * k + k * r + k * a + k * b + k * c + 3 * (k * d)
    BY <1>11
  <2>2. /\ k * r \in Nat /\ k * a \in Nat /\ k * b \in Nat /\ k * c \in Nat /\ k * d \in Nat
        /\ k * w \in Nat
    OBVIOUS
  <2>3. QED
    BY <1>7, <1>9, <1>10, <2>1, <2>2
<1>13. Enough(w, m)
  BY <1>11, WeightSuffices
<1>14. n - CeilOf(n, m) >= k
  BY <1>12, <1>13, EnoughLeft
<1>15. QED
  BY <1>1, <1>10, <1>14

(* Round 0 and six escalating repair rounds carry every block, of whatever *)
(* length, over a path that loses what the estimate says: repair_frac and  *)
(* the escalation of the round loop, up to the highest estimate of 90%.    *)
THEOREM RepairSuffices == Spec => []RepairConverges
<1>1. LossInv => RepairConverges
  <2> SUFFICES ASSUME LossInv, est.primed, NEW k \in Ks
               PROVE  Sprayed(k) - CeilOf(Sprayed(k), est.ewma) >= k
    BY DEF RepairConverges
  <2>1. k \in Nat \ {0}
    BY LossAssumption
  <2>2. QED
    BY <2>1, SprayedEnough DEF LossInv
<1>2. QED
  BY <1>1, LossInvariant, PTL

(* What a round sends for a block, with any --overhead of cli: at least    *)
(* two symbols in round 0 and eight later, never more than 4/5 and 8/5 of  *)
(* the block (beyond that least number), and no less the later the round.  *)
SizedFor(k, cli, round) ==
  /\ Round0Overhead(est, cli, k) \in Nat /\ Round0Overhead(est, cli, k) >= 2
  /\ 1000 * Round0Overhead(est, cli, k) <= MaxOf(2000, 800 * k + 999)
  /\ Extra(est, k, round) \in Nat /\ Extra(est, k, round) >= 8
  /\ 1000 * Extra(est, k, round) <= MaxOf(8000, 1600 * k + 999)
  /\ Extra(est, k, round) <= Extra(est, k, round + 1)

RepairSized == \A k \in Ks, cli \in Nat, round \in Nat : SizedFor(k, cli, round)

(* c is at most x per mille of k, rounded up. *)
AtMost(k, x, c) == 1000 * c <= k * x + 999

(* A larger share is no smaller number. *)
LEMMA CeilMonotone ==
  ASSUME NEW k \in Nat, NEW x \in Nat, NEW y \in Nat, x <= y
  PROVE  /\ CeilOf(k, x) \in Nat /\ CeilOf(k, y) \in Nat /\ CeilOf(k, x) <= CeilOf(k, y)
         /\ AtMost(k, y, CeilOf(k, x))
<1> DEFINE a == k * x
           b == k * y
<1>1. a \in Nat /\ b \in Nat /\ a <= b
  BY MulOrder
<1>2. IsCeil(k, x, CeilOf(k, x)) /\ IsCeil(k, y, CeilOf(k, y))
  BY CeilBounds
<1>3. PICK c, e : c = CeilOf(k, x) /\ e = CeilOf(k, y)
  OBVIOUS
<1>4. c \in Nat /\ e \in Nat /\ 1000 * c <= a + 999 /\ b <= 1000 * e
  BY <1>2, <1>3 DEF IsCeil
<1> HIDE DEF a, b
<1>5. c <= e /\ 1000 * c <= b + 999
  BY <1>1, <1>4
<1> QED BY <1>3, <1>4, <1>5 DEF b, AtMost

(* The clamps of round0_frac and repair_frac. *)
Shares0 == 0 .. 800
Shares  == 50 .. 800

(* The fractions stay within their clamps, whatever the estimate. *)
LEMMA FracsClamped ==
  ASSUME NEW e, NEW cli \in Nat, e.primed => e.ewma \in Nat
  PROVE  Round0Frac(e, cli) \in Shares0 /\ RepairFrac(e) \in Shares
<1> DEFINE x == MaxOf(cli, IF e.primed THEN (3 * e.ewma) \div 2 + 20 ELSE 0)
           y == IF e.primed THEN (3 * e.ewma) \div 2 ELSE 0
<1>1. x \in Nat /\ y \in Nat
  <2>1. CASE e.primed
    <3>1. PICK m \in Nat : m = e.ewma
      BY <2>1
    <3>2. (3 * m) \div 2 \in Nat
      OBVIOUS
    <3> QED BY <2>1, <3>1, <3>2 DEF MaxOf
  <2>2. CASE ~e.primed
    BY <2>2 DEF MaxOf
  <2> QED BY <2>1, <2>2
<1>2. Round0Frac(e, cli) = Clamp(x, 0, 800) /\ RepairFrac(e) = Clamp(y, 50, 800)
  BY DEF Round0Frac, RepairFrac
<1> HIDE DEF x, y
<1> QED BY <1>1, <1>2 DEF Clamp, MaxOf, MinOf, Shares0, Shares

(* The escalation doubles a fraction at most and never lowers it. *)
LEMMA EscalatedGrows ==
  ASSUME NEW f \in Nat, NEW round \in Nat
  PROVE  /\ Escalated(f, round) \in Nat /\ Escalated(f, round) <= 2 * f
         /\ Escalated(f, round + 1) \in Nat
         /\ Escalated(f, round) <= Escalated(f, round + 1)
<1> DEFINE i == 4 + MinOf(round, 4)
           j == 4 + MinOf(round + 1, 4)
<1>1. i \in Nat /\ j \in Nat /\ i <= j /\ i <= 8
  BY DEF MinOf
<1> DEFINE a == f * i
           b == f * j
<1>2. a \in Nat /\ b \in Nat /\ a <= b /\ a <= 8 * f
  <2> HIDE DEF i, j
  <2>1. f * i \in Nat /\ f * j \in Nat /\ f * i <= f * j
    BY <1>1, MulOrder
  <2>2. f * i <= f * 8
    BY <1>1, MulOrder
  <2> QED BY <2>1, <2>2
<1>3. Escalated(f, round) = a \div 4 /\ Escalated(f, round + 1) = b \div 4
  BY DEF Escalated
<1> HIDE DEF a, b
<1>4. a \div 4 \in Nat /\ b \div 4 \in Nat /\ a \div 4 <= b \div 4 /\ a \div 4 <= 2 * f
  BY <1>2
<1> QED BY <1>3, <1>4

(* round0_overhead and the round loop: in every reachable state of the     *)
(* estimator each round sends a block some repair (what Transfer assumes   *)
(* of it), a bounded multiple of the block, and later rounds no less.      *)
THEOREM RepairIsSized == Spec => []RepairSized
<1>1. LossInv => RepairSized
  <2> SUFFICES ASSUME LossInv, NEW k \in Ks, NEW cli \in Nat, NEW round \in Nat
               PROVE  SizedFor(k, cli, round)
    BY DEF RepairSized
  <2>1. k \in Nat
    BY LossAssumption
  <2>2. Round0Frac(est, cli) \in Shares0 /\ RepairFrac(est) \in Shares
    <3>1. est \in Estimators
      BY DEF LossInv, WireTyped
    <3>2. est.primed => est.ewma \in Nat
      BY <3>1 DEF Estimators, Estimates
    <3> QED BY <3>2, FracsClamped, Zenon
  <2> DEFINE f == RepairFrac(est)
             c == CeilOf(k, Round0Frac(est, cli))
             d == CeilOf(k, Escalated(f, round))
             e == CeilOf(k, Escalated(f, round + 1))
  <2>3. c \in Nat /\ 1000 * c <= k * 800 + 999
    <3>1. PICK x : x = Round0Frac(est, cli)
      OBVIOUS
    <3>2. PICK y \in Nat : y = 800
      OBVIOUS
    <3>3. x \in Shares0
      BY <2>2, <3>1, Zenon
    <3>4. x \in Nat /\ x <= y
      BY <3>2, <3>3 DEF Shares0
    <3>5. CeilOf(k, x) \in Nat /\ AtMost(k, y, CeilOf(k, x))
      BY <2>1, <3>4, CeilMonotone
    <3>6. c = CeilOf(k, x)
      BY <3>1
    <3> HIDE DEF c
    <3> QED BY <3>2, <3>5, <3>6 DEF AtMost
  <2>4. /\ f \in Nat /\ Escalated(f, round) \in Nat /\ Escalated(f, round + 1) \in Nat
        /\ Escalated(f, round) <= Escalated(f, round + 1) /\ Escalated(f, round) <= 1600
    <3>1. f \in Shares
      BY <2>2
    <3> HIDE DEF f
    <3>2. f \in Nat /\ f <= 800
      BY <3>1 DEF Shares
    <3> QED BY <3>2, EscalatedGrows
  <2>5. d \in Nat /\ e \in Nat /\ d <= e
    <3> HIDE DEF f
    <3> QED BY <2>1, <2>4, CeilMonotone
  <2>6. 1000 * d <= k * 1600 + 999
    <3>1. PICK x \in Nat, y \in Nat : x = Escalated(f, round) /\ y = 1600 /\ x <= y
      BY <2>4
    <3>2. AtMost(k, y, CeilOf(k, x))
      BY <2>1, <3>1, CeilMonotone
    <3>3. d = CeilOf(k, x)
      BY <3>1
    <3> HIDE DEF d
    <3> QED BY <3>1, <3>2, <3>3 DEF AtMost
  <2>7. /\ Round0Overhead(est, cli, k) = MaxOf(c, 2)
        /\ Extra(est, k, round) = MaxOf(d, 8) /\ Extra(est, k, round + 1) = MaxOf(e, 8)
    BY DEF Round0Overhead, Extra, Escalated
  <2> HIDE DEF c, d, e
  <2> QED BY <2>1, <2>3, <2>5, <2>6, <2>7 DEF MaxOf, SizedFor
<1> QED BY <1>1, LossInvariant, PTL

-----------------------------------------------------------------------------
(* The invariant of EncoderCache.                                          *)

(* Every encoder is its block's, and no block has two. *)
CacheTyped ==
  /\ spc \in {"top", "spray", "flush", "wait"} /\ settled \in BOOLEAN
  /\ acked \subseteq Blocks /\ sprayed \subseteq Blocks
  /\ pending \subseteq Blocks /\ todo \subseteq pending
  /\ cache \in Seq(Blocks \X Blocks) /\ Len(cache) <= Cap
  /\ \A i \in 1 .. Len(cache) : cache[i][2] = cache[i][1]
  /\ \A i, j \in 1 .. Len(cache) : cache[i][1] = cache[j][1] => i = j
  /\ current # Idle => current[1] = current[2]

(* The blocks the round has come to fill the front of the cache. *)
Fronted(n) ==
  /\ n \in 0 .. Len(cache)
  /\ \A i \in 1 .. n : cache[i][1] \in pending \ todo
  /\ \A b \in (pending \ todo) \ acked : \E i \in 1 .. n : cache[i][1] = b

RoundKept ==
  spc \in {"spray", "flush"} =>
    /\ Blocks \ acked \subseteq pending
    /\ Cardinality(pending) <= Cap => \E n \in Nat : Fronted(n)

(* Once settled, every block still to be repaired has its encoder. *)
SettledKept == settled => \A b \in Blocks \ acked : \E i \in 1 .. Len(cache) : cache[i][1] = b

CacheInv == CacheTyped /\ RoundKept /\ SettledKept

(* An entry of the cache that is found is moved to the front. *)
Moved(c, i) == <<c[i]>> \o Remove(c, i)

LEMMA MovedToFront ==
  ASSUME NEW S, NEW c \in Seq(S), NEW i \in 1 .. Len(c)
  PROVE  LET d == Moved(c, i)
         IN  /\ d \in Seq(S) /\ Len(d) = Len(c) /\ d[1] = c[i]
             /\ \A j \in 2 .. i : d[j] = c[j - 1]
             /\ \A j \in i + 1 .. Len(c) : d[j] = c[j]
<1> DEFINE d == Moved(c, i)
           x == SubSeq(c, 1, i - 1)
           y == SubSeq(c, i + 1, Len(c))
<1>1. c[i] \in S /\ Len(c) \in Nat
  OBVIOUS
<1>2. /\ x \in Seq(S) /\ Len(x) = i - 1
      /\ \A j \in 1 .. i - 1 : x[j] = c[j]
  OBVIOUS
<1>3. /\ y \in Seq(S) /\ Len(y) = Len(c) - i
      /\ \A j \in 1 .. Len(c) - i : y[j] = c[i + j]
  OBVIOUS
<1> DEFINE z == x \o y
           w == <<c[i]>>
<1>4. d = w \o z
  BY DEF Remove, Moved
<1>w. w \in Seq(S) /\ Len(w) = 1 /\ w[1] = c[i]
  BY <1>1
<1> HIDE DEF x, y, d
<1>5. /\ z \in Seq(S) /\ Len(z) = Len(x) + Len(y)
      /\ \A j \in 1 .. Len(x) + Len(y) : z[j] = IF j <= Len(x) THEN x[j] ELSE y[j - Len(x)]
  BY <1>2, <1>3, ConcatProperties
<1> HIDE DEF z, w
<1>6. /\ d \in Seq(S) /\ Len(d) = Len(w) + Len(z)
      /\ \A j \in 1 .. Len(w) + Len(z) : d[j] = IF j <= Len(w) THEN w[j] ELSE z[j - Len(w)]
  <2>1. /\ w \o z \in Seq(S) /\ Len(w \o z) = Len(w) + Len(z)
        /\ \A j \in 1 .. Len(w) + Len(z) : (w \o z)[j] = IF j <= Len(w) THEN w[j] ELSE z[j - Len(w)]
    <3>1. w \in Seq(S) /\ z \in Seq(S)
      BY <1>5, <1>w
    <3>2. QED
      BY <3>1, ConcatProperties, Zenon
  <2>2. QED
    BY <1>4, <2>1, Zenon
<1>7. d \in Seq(S) /\ Len(d) = Len(c) /\ d[1] = c[i]
  BY <1>1, <1>2, <1>3, <1>5, <1>6, <1>w
<1>8. ASSUME NEW j \in 2 .. i
      PROVE  d[j] = c[j - 1]
  <2>1. d[j] = z[j - 1]
    <3>1. j \in 1 .. Len(w) + Len(z) /\ ~(j <= Len(w)) /\ j - Len(w) = j - 1
      BY <1>1, <1>2, <1>3, <1>5, <1>w
    <3>2. QED
      BY <1>6, <3>1
  <2>2. z[j - 1] = x[j - 1]
    <3>1. j - 1 \in 1 .. Len(x) + Len(y) /\ j - 1 <= Len(x)
      BY <1>1, <1>2, <1>3
    <3>2. QED
      BY <1>5, <3>1
  <2>3. QED
    BY <1>1, <1>2, <2>1, <2>2
<1>9. ASSUME NEW j \in i + 1 .. Len(c)
      PROVE  d[j] = c[j]
  <2>1. d[j] = z[j - 1]
    BY <1>1, <1>2, <1>3, <1>5, <1>6, <1>w
  <2>2. z[j - 1] = y[j - i]
    <3>1. j - 1 \in 1 .. Len(x) + Len(y) /\ ~(j - 1 <= Len(x)) /\ (j - 1) - Len(x) = j - i
      BY <1>1, <1>2, <1>3
    <3>2. QED
      BY <1>5, <3>1
  <2>3. y[j - i] = c[j]
    <3>1. j - i \in 1 .. Len(c) - i /\ i + (j - i) = j
      BY <1>1
    <3>2. QED
      BY <1>3, <3>1
  <2>4. QED
    BY <2>1, <2>2, <2>3
<1>10. QED
  BY <1>7, <1>8, <1>9, Zenon DEF d

(* A new entry is put to the front, and the last one may fall off. *)
LEMMA PutToFront ==
  ASSUME NEW S, NEW c \in Seq(S), NEW x \in S, NEW m \in Nat \ {0}, Len(c) <= m,
         NEW d, d = Truncate(<<x>> \o c, m)
  PROVE  /\ d \in Seq(S) /\ d[1] = x
         /\ Len(d) = IF Len(c) < m THEN Len(c) + 1 ELSE m
         /\ \A j \in 2 .. Len(d) : d[j] = c[j - 1]
<1> DEFINE y == <<x>> \o c
<1>1. /\ y \in Seq(S) /\ Len(y) = Len(c) + 1 /\ y[1] = x /\ Len(c) \in Nat
      /\ \A j \in 2 .. Len(c) + 1 : y[j] = c[j - 1]
  OBVIOUS
<1> HIDE DEF y
<1>2. d = IF Len(y) <= m THEN y ELSE SubSeq(y, 1, m)
  BY DEF Truncate, y
<1>3. CASE Len(c) < m
  BY <1>1, <1>2, <1>3, SMTT(20)
<1>4. CASE ~(Len(c) < m)
  <2>1. d = SubSeq(y, 1, m) /\ m <= Len(y)
    BY <1>1, <1>2, <1>4
  <2>2. d \in Seq(S) /\ Len(d) = m /\ \A j \in 1 .. m : d[j] = y[j]
    <3>1. \A j \in 1 .. m : y[j] \in S
      BY <1>1, <2>1
    <3>2. /\ d \in Seq(S) /\ Len(d) = IF 1 <= m THEN m - 1 + 1 ELSE 0
          /\ \A j \in 1 .. m - 1 + 1 : d[j] = y[1 + j - 1]
      BY <2>1, <3>1, SubSeqProperties
    <3>3. QED
      BY <3>2
  <2>3. QED
    BY <1>1, <1>4, <2>2
<1>5. QED
  BY <1>3, <1>4

(* The cache after get_encoder found the entry i of block b. *)
FoundAt(b, i) ==
  /\ cache' \in Seq(Blocks \X Blocks) /\ Len(cache') = Len(cache) /\ cache'[1] = cache[i]
  /\ \A j \in 2 .. i : cache'[j] = cache[j - 1]
  /\ \A j \in i + 1 .. Len(cache) : cache'[j] = cache[j]

LEMMA EncoderFound ==
  ASSUME CacheTyped, NEW b \in Blocks, GetEncoder(b),
         NEW i \in 1 .. Len(cache), cache[i][1] = b
  PROVE  FoundAt(b, i)
<1>1. cache \in Seq(Blocks \X Blocks)
  BY DEF CacheTyped
<1>2. Position(b) = {i}
  BY <1>1 DEF CacheTyped, Position
<1>3. (CHOOSE k \in Position(b) : TRUE) = i
  BY <1>2
<1>4. cache' = Moved(cache, i)
  BY <1>2, <1>3 DEF GetEncoder, Moved
<1>5. QED
  BY <1>1, <1>4, MovedToFront, Zenon DEF FoundAt

(* The cache after get_encoder built the entry of block b. *)
Built(b) ==
  /\ cache' \in Seq(Blocks \X Blocks) /\ cache'[1] = <<b, b>>
  /\ Len(cache') = IF Len(cache) < Cap THEN Len(cache) + 1 ELSE Cap
  /\ \A j \in 2 .. Len(cache') : cache'[j] = cache[j - 1]

LEMMA EncoderBuilt ==
  ASSUME CacheTyped, NEW b \in Blocks, GetEncoder(b),
         \A i \in 1 .. Len(cache) : cache[i][1] # b
  PROVE  Built(b)
<1>1. cache \in Seq(Blocks \X Blocks) /\ Len(cache) <= Cap
  BY DEF CacheTyped
<1>2. Position(b) = {}
  BY <1>1 DEF Position
<1>3. cache' = Truncate(<<<<b, b>>>> \o cache, Cap)
  BY <1>2 DEF GetEncoder
<1>4. <<b, b>> \in Blocks \X Blocks
  OBVIOUS
<1>5. QED
  BY <1>1, <1>3, <1>4, PutToFront, CacheAssumption, SMTT(20) DEF Built

(* get_encoder returns an encoder of its block, whichever way it took, and *)
(* leaves the cache without duplicates.                                    *)
LEMMA EncoderRight ==
  ASSUME CacheTyped, NEW b \in Blocks, GetEncoder(b)
  PROVE  /\ cache' \in Seq(Blocks \X Blocks) /\ Len(cache') <= Cap
         /\ \A i \in 1 .. Len(cache') : cache'[i][2] = cache'[i][1]
         /\ \A i, j \in 1 .. Len(cache') : cache'[i][1] = cache'[j][1] => i = j
         /\ current' = <<b, b>>
<1>1. /\ cache \in Seq(Blocks \X Blocks) /\ Len(cache) <= Cap /\ Len(cache) \in Nat
      /\ \A i \in 1 .. Len(cache) : cache[i][2] = cache[i][1]
      /\ \A i, j \in 1 .. Len(cache) : cache[i][1] = cache[j][1] => i = j
  BY DEF CacheTyped
<1>2. current' = <<b, cache'[1][2]>>
  BY DEF GetEncoder
<1>3. ASSUME NEW k \in 1 .. Len(cache), cache[k][1] = b
      PROVE  /\ cache' \in Seq(Blocks \X Blocks) /\ Len(cache') <= Cap
             /\ \A i \in 1 .. Len(cache') : cache'[i][2] = cache'[i][1]
             /\ \A i, j \in 1 .. Len(cache') : cache'[i][1] = cache'[j][1] => i = j
             /\ cache'[1][2] = b
  <2> DEFINE From(j) == IF j = 1 THEN k ELSE IF j <= k THEN j - 1 ELSE j
  <2>1. FoundAt(b, k)
    BY <1>3, EncoderFound
  <2>2. ASSUME NEW j \in 1 .. Len(cache)
        PROVE  From(j) \in 1 .. Len(cache) /\ cache'[j] = cache[From(j)]
    BY <1>1, <2>1 DEF FoundAt
  <2>3. ASSUME NEW i \in 1 .. Len(cache), NEW j \in 1 .. Len(cache), From(i) = From(j)
        PROVE  i = j
    BY <1>1, <2>3
  <2>4. cache' \in Seq(Blocks \X Blocks) /\ Len(cache') = Len(cache) /\ cache'[1] = cache[k]
    BY <2>1 DEF FoundAt
  <2> HIDE DEF From
  <2>5. \A i \in 1 .. Len(cache') : cache'[i][2] = cache'[i][1]
    BY <1>1, <2>2, <2>4
  <2>6. ASSUME NEW i \in 1 .. Len(cache'), NEW j \in 1 .. Len(cache'),
               cache'[i][1] = cache'[j][1]
        PROVE  i = j
    <3>1. i \in 1 .. Len(cache) /\ j \in 1 .. Len(cache)
      BY <2>4
    <3>2. cache[From(i)][1] = cache[From(j)][1]
      BY <2>2, <2>6, <3>1
    <3>3. From(i) = From(j)
      BY <1>1, <2>2, <3>1, <3>2
    <3>4. QED
      BY <2>3, <3>1, <3>3
  <2>7. QED
    BY <1>1, <1>3, <2>4, <2>5, <2>6
<1>4. ASSUME \A i \in 1 .. Len(cache) : cache[i][1] # b
      PROVE  /\ cache' \in Seq(Blocks \X Blocks) /\ Len(cache') <= Cap
             /\ \A i \in 1 .. Len(cache') : cache'[i][2] = cache'[i][1]
             /\ \A i, j \in 1 .. Len(cache') : cache'[i][1] = cache'[j][1] => i = j
             /\ cache'[1][2] = b
  <2>1. Built(b)
    BY <1>4, EncoderBuilt
  <2>2. /\ cache' \in Seq(Blocks \X Blocks) /\ Len(cache') <= Cap /\ Len(cache') \in Nat
        /\ Len(cache') <= Len(cache) + 1 /\ cache'[1] = <<b, b>>
    BY <1>1, <2>1, CacheAssumption DEF Built
  <2>3. ASSUME NEW j \in 2 .. Len(cache')
        PROVE  j - 1 \in 1 .. Len(cache) /\ cache'[j] = cache[j - 1]
    BY <1>1, <2>1, <2>2 DEF Built
  <2>4. ASSUME NEW i \in 1 .. Len(cache')
        PROVE  cache'[i][2] = cache'[i][1]
    <3>1. CASE i = 1
      BY <2>2, <3>1
    <3>2. CASE i \in 2 .. Len(cache')
      BY <1>1, <2>3, <3>2
    <3>3. QED
      BY <2>2, <3>1, <3>2
  <2>5. ASSUME NEW i \in 1 .. Len(cache'), NEW j \in 1 .. Len(cache'),
               cache'[i][1] = cache'[j][1]
        PROVE  i = j
    <3>1. CASE i = 1 /\ j # 1
      <4>1. j \in 2 .. Len(cache')
        BY <2>2, <3>1
      <4>2. QED
        BY <1>4, <2>2, <2>3, <2>5, <3>1, <4>1, SMTT(20)
    <3>2. CASE i # 1 /\ j = 1
      <4>1. i \in 2 .. Len(cache')
        BY <2>2, <3>2
      <4>2. QED
        BY <1>4, <2>2, <2>3, <2>5, <3>2, <4>1
    <3>3. CASE i # 1 /\ j # 1
      <4>1. i \in 2 .. Len(cache') /\ j \in 2 .. Len(cache')
        BY <2>2, <3>3
      <4>2. cache[i - 1][1] = cache[j - 1][1]
        BY <2>3, <2>5, <4>1
      <4>3. i - 1 = j - 1
        BY <1>1, <2>3, <4>1, <4>2
      <4>4. QED
        BY <2>2, <4>3
    <3>4. QED
      BY <3>1, <3>2, <3>3
  <2>6. QED
    BY <2>2, <2>4, <2>5
<1>5. QED
  BY <1>2, <1>3, <1>4

(* The front of the cache leaves room for the block the round comes to. *)
LEMMA FrontRoom ==
  ASSUME CacheTyped, NEW n \in Nat, Fronted(n), NEW b \in todo
  PROVE  n + 1 <= Cardinality(pending)
<1> DEFINE T == pending \ todo
           f == [i \in 1 .. n |-> cache[i][1]]
<1>1. /\ IsFiniteSet(pending) /\ b \in pending /\ Cardinality(pending) \in Nat
  <2>1. IsFiniteSet(Blocks)
    BY FS_Interval, CacheAssumption DEF Blocks
  <2>2. QED
    BY <2>1, FS_Subset, FS_CardinalityType DEF CacheTyped
<1>2. IsFiniteSet(T) /\ Cardinality(T) \in Nat
  BY <1>1, FS_Subset, FS_CardinalityType
<1>3. f \in Injection(1 .. n, T)
  <2>1. f \in [1 .. n -> T]
    BY DEF Fronted
  <2>2. \A i, j \in 1 .. n : f[i] = f[j] => i = j
    BY DEF Fronted, CacheTyped
  <2>3. QED
    BY <2>1, <2>2 DEF Injection, IsInjective
<1>4. Cardinality(1 .. n) = n
  BY FS_Interval
<1>5. n <= Cardinality(T)
  BY <1>2, <1>3, <1>4, FS_Injection
<1>6. Cardinality(T \cup {b}) = Cardinality(T) + 1
  BY <1>2, FS_AddElement
<1>7. Cardinality(T \cup {b}) <= Cardinality(pending)
  BY <1>1, FS_Subset
<1>8. QED
  BY <1>1, <1>2, <1>5, <1>6, <1>7

(* get_encoder puts the block behind no block the round has come to, and   *)
(* lets none of them fall off.                                             *)
LEMMA FrontGrows ==
  ASSUME CacheTyped, NEW n \in Nat, Fronted(n), Cardinality(pending) <= Cap,
         NEW b \in todo, GetEncoder(b),
         todo' = todo \ {b}, pending' = pending, acked' = acked
  PROVE  Fronted(n + 1)'
<1>1. /\ cache \in Seq(Blocks \X Blocks) /\ Len(cache) \in Nat /\ Len(cache) <= Cap
      /\ b \in Blocks /\ b \in pending
  BY DEF CacheTyped
<1>2. n + 1 <= Cap
  <2>1. n + 1 <= Cardinality(pending) /\ Cardinality(pending) \in Nat
    <3>1. IsFiniteSet(Blocks)
      BY FS_Interval, CacheAssumption DEF Blocks
    <3>2. QED
      BY <3>1, FrontRoom, FS_Subset, FS_CardinalityType DEF CacheTyped
  <2>2. QED
    BY <2>1, CacheAssumption
<1>3. n <= Len(cache) /\ \A i \in 1 .. n : cache[i][1] \in pending \ todo
  BY DEF Fronted
<1>4. /\ n + 1 <= Len(cache') /\ Len(cache') \in Nat /\ cache'[1][1] = b
      /\ \A j \in 2 .. n + 1 : cache'[j] = cache[j - 1]
  <2>1. ASSUME NEW k \in 1 .. Len(cache), cache[k][1] = b
        PROVE  /\ n + 1 <= Len(cache') /\ Len(cache') \in Nat /\ cache'[1][1] = b
               /\ \A j \in 2 .. n + 1 : cache'[j] = cache[j - 1]
    <3>1. FoundAt(b, k)
      BY <1>1, <2>1, EncoderFound
    <3>2. k \notin 1 .. n
      BY <1>3, <2>1
    <3>3. n + 1 <= k
      BY <1>1, <3>2
    <3>4. QED
      BY <1>1, <2>1, <3>1, <3>3 DEF FoundAt
  <2>2. ASSUME \A i \in 1 .. Len(cache) : cache[i][1] # b
        PROVE  /\ n + 1 <= Len(cache') /\ Len(cache') \in Nat /\ cache'[1][1] = b
               /\ \A j \in 2 .. n + 1 : cache'[j] = cache[j - 1]
    <3>1. Built(b)
      BY <1>1, <2>2, EncoderBuilt
    <3>2. n + 1 <= Len(cache') /\ Len(cache') \in Nat
      BY <1>1, <1>2, <1>3, <3>1, CacheAssumption DEF Built
    <3>3. QED
      BY <3>1, <3>2 DEF Built
  <2>3. QED
    BY <2>1, <2>2
<1>5. n + 1 \in 0 .. Len(cache')
  BY <1>4
<1>6. ASSUME NEW i \in 1 .. n + 1
      PROVE  cache'[i][1] \in pending' \ todo'
  <2>1. CASE i = 1
    BY <1>1, <1>4, <2>1
  <2>2. CASE i # 1
    <3>1. i \in 2 .. n + 1 /\ i - 1 \in 1 .. n
      BY <2>2
    <3>2. QED
      BY <1>3, <1>4, <3>1
  <2>3. QED
    BY <2>1, <2>2
<1>7. ASSUME NEW c \in (pending' \ todo') \ acked'
      PROVE  \E i \in 1 .. n + 1 : cache'[i][1] = c
  <2>1. CASE c = b
    BY <1>4, <2>1
  <2>2. CASE c # b
    <3>1. PICK i \in 1 .. n : cache[i][1] = c
      BY <1>7, <2>2 DEF Fronted
    <3>2. i + 1 \in 2 .. n + 1 /\ i + 1 \in 1 .. n + 1 /\ (i + 1) - 1 = i
      OBVIOUS
    <3>3. cache'[i + 1] = cache[i]
      BY <1>4, <3>2
    <3>4. QED
      BY <3>1, <3>2, <3>3
  <2>3. QED
    BY <2>1, <2>2
<1>8. QED
  BY <1>5, <1>6, <1>7 DEF Fronted

LEMMA CacheInitial == CacheInit => CacheInv
<1> SUFFICES ASSUME CacheInit
             PROVE  CacheInv
  OBVIOUS
<1>1. CacheTyped
  <2>1. cache \in Seq(Blocks \X Blocks) /\ Len(cache) = 0
    BY DEF CacheInit
  <2>2. Len(cache) <= Cap /\ 1 .. Len(cache) = {}
    BY <2>1, CacheAssumption
  <2>3. QED
    BY <2>1, <2>2 DEF CacheInit, CacheTyped
<1>2. QED
  BY <1>1 DEF CacheInit, CacheInv, RoundKept, SettledKept

(* Whatever drain_feedback acknowledges was sprayed; a block acknowledged  *)
(* needs no encoder any more.                                              *)
LEMMA StartRoundKeeps ==
  ASSUME CacheInv, StartRound
  PROVE  CacheInv'
<1>1. acked \subseteq acked' /\ acked' \subseteq Blocks
  BY DEF StartRound, Drain, CacheInv, CacheTyped
<1>2. CacheTyped'
  BY <1>1 DEF StartRound, CacheInv, CacheTyped
<1>3. Fronted(0)'
  <2>1. pending' \ todo' = {}
    BY DEF StartRound
  <2>2. 0 \in 0 .. Len(cache')
    BY <1>2 DEF CacheTyped
  <2> QED BY <2>1, <2>2 DEF Fronted
<1>4. RoundKept'
  BY <1>3 DEF StartRound, RoundKept
<1>5. SettledKept'
  BY <1>1 DEF StartRound, CacheInv, SettledKept
<1>6. QED
  BY <1>2, <1>4, <1>5 DEF CacheInv

LEMMA SprayBlockKeeps ==
  ASSUME CacheInv, NEW b \in Blocks, SprayBlock(b)
  PROVE  CacheInv'
<1>1. /\ CacheTyped /\ RoundKept /\ SettledKept
      /\ spc = "spray" /\ b \in todo /\ todo' = todo \ {b}
      /\ acked' = acked /\ pending' = pending /\ settled' = settled
  BY DEF CacheInv, SprayBlock
<1>2. CASE b \in acked
  <2>1. cache' = cache /\ spc' = spc /\ sprayed' = sprayed /\ current' = current
    BY <1>2 DEF SprayBlock
  <2>2. CacheTyped'
    BY <1>1, <2>1 DEF CacheTyped
  <2>3. ASSUME NEW n \in Nat, Fronted(n)
        PROVE  Fronted(n)'
    BY <1>1, <1>2, <2>1, <2>3 DEF Fronted
  <2>4. RoundKept'
    BY <1>1, <2>1, <2>3 DEF RoundKept
  <2>5. SettledKept'
    BY <1>1, <2>1 DEF SettledKept
  <2>6. QED
    BY <2>2, <2>4, <2>5 DEF CacheInv
<1>3. CASE b \notin acked
  <2>1. GetEncoder(b) /\ sprayed' = sprayed \cup {b} /\ spc' = "flush"
    BY <1>3 DEF SprayBlock
  <2>2. CacheTyped'
    <3>1. /\ cache' \in Seq(Blocks \X Blocks) /\ Len(cache') <= Cap
          /\ \A i \in 1 .. Len(cache') : cache'[i][2] = cache'[i][1]
          /\ \A i, j \in 1 .. Len(cache') : cache'[i][1] = cache'[j][1] => i = j
          /\ current' = <<b, b>>
      BY <1>1, <2>1, EncoderRight
    <3>2. current'[1] = current'[2]
      BY <3>1
    <3>3. QED
      BY <1>1, <2>1, <3>1, <3>2 DEF CacheTyped
  <2>3. RoundKept'
    <3>1. ASSUME NEW n \in Nat, Fronted(n), Cardinality(pending) <= Cap
          PROVE  n + 1 \in Nat /\ Fronted(n + 1)'
      BY <1>1, <2>1, <3>1, FrontGrows
    <3>2. QED
      BY <1>1, <2>1, <3>1 DEF RoundKept
  <2>4. SettledKept'
    <3> SUFFICES ASSUME settled, NEW c \in Blocks \ acked
                 PROVE  \E i \in 1 .. Len(cache') : cache'[i][1] = c
      BY <1>1 DEF SettledKept
    <3>1. PICK k \in 1 .. Len(cache) : cache[k][1] = b
      BY <1>1, <1>3 DEF SettledKept
    <3>2. PICK i \in 1 .. Len(cache) : cache[i][1] = c
      BY <1>1 DEF SettledKept
    <3>3. FoundAt(b, k) /\ Len(cache) \in Nat
      <4>1. CacheTyped /\ cache \in Seq(Blocks \X Blocks)
        BY <1>1, Zenon DEF CacheTyped
      <4>2. FoundAt(b, k)
        BY <1>1, <2>1, <3>1, <4>1, EncoderFound, Zenon
      <4>3. QED
        BY <4>1, <4>2, LenProperties, Zenon
    <3>4. CASE i = k
      <4>1. Len(cache') = Len(cache) /\ cache'[1] = cache[i]
        BY <3>3, <3>4, Zenon DEF FoundAt
      <4>2. 1 \in 1 .. Len(cache)
        BY <3>2, <3>3
      <4>3. QED
        BY <3>2, <4>1, <4>2, Zenon
    <3>5. CASE i < k
      <4>1. i + 1 \in 2 .. k /\ i + 1 \in 1 .. Len(cache) /\ (i + 1) - 1 = i
        BY <3>3, <3>5
      <4>2. cache'[i + 1] = cache[i]
        BY <3>3, <4>1 DEF FoundAt
      <4>3. QED
        BY <3>2, <3>3, <4>1, <4>2 DEF FoundAt
    <3>6. CASE i > k
      <4>1. i \in k + 1 .. Len(cache)
        BY <3>3, <3>6
      <4>2. QED
        BY <3>2, <3>3, <4>1 DEF FoundAt
    <3>7. QED
      BY <3>3, <3>4, <3>5, <3>6
  <2>5. QED
    BY <2>2, <2>3, <2>4 DEF CacheInv
<1>4. QED
  BY <1>2, <1>3

LEMMA FlushKeeps ==
  ASSUME CacheInv, Flush
  PROVE  CacheInv'
<1>1. acked \subseteq acked' /\ acked' \subseteq Blocks
  BY DEF Flush, Drain, CacheInv, CacheTyped
<1>2. CacheTyped'
  BY <1>1 DEF Flush, CacheInv, CacheTyped
<1>3. ASSUME NEW n \in Nat, Fronted(n)
      PROVE  Fronted(n)'
  BY <1>1, <1>3 DEF Flush, Fronted
<1>4. RoundKept'
  BY <1>1, <1>3 DEF Flush, CacheInv, RoundKept
<1>5. SettledKept'
  BY <1>1 DEF Flush, CacheInv, SettledKept
<1>6. QED
  BY <1>2, <1>4, <1>5 DEF CacheInv

LEMMA FlushRefusedKeeps ==
  ASSUME CacheInv, FlushRefused
  PROVE  CacheInv'
<1>1. CacheTyped'
  BY DEF FlushRefused, CacheInv, CacheTyped
<1>2. QED
  BY <1>1 DEF FlushRefused, CacheInv, RoundKept, SettledKept

(* A round with room for its blocks ends with all of them in the cache. *)
LEMMA EndRoundKeeps ==
  ASSUME CacheInv, EndRound
  PROVE  CacheInv'
<1>1. acked \subseteq acked' /\ acked' \subseteq Blocks
  BY DEF EndRound, Drain, CacheInv, CacheTyped
<1>2. CacheTyped'
  BY <1>1 DEF EndRound, CacheInv, CacheTyped
<1>3. RoundKept'
  BY DEF EndRound, RoundKept
<1>4. CASE settled
  BY <1>1, <1>2, <1>3, <1>4 DEF EndRound, CacheInv, SettledKept
<1>5. CASE Cardinality(pending) <= Cap
  <2>1. /\ Blocks \ acked \subseteq pending /\ todo = {} /\ cache' = cache
        /\ \E n \in Nat : Fronted(n)
    BY <1>5 DEF EndRound, CacheInv, RoundKept
  <2>2. PICK n \in Nat : Fronted(n)
    BY <2>1
  <2>3. \A b \in Blocks \ acked : \E i \in 1 .. n : cache[i][1] = b
    BY <2>1, <2>2 DEF Fronted
  <2>4. n <= Len(cache) /\ Len(cache) \in Nat
    BY <2>2 DEF Fronted, CacheInv, CacheTyped
  <2>5. \A b \in Blocks \ acked : \E i \in 1 .. Len(cache) : cache[i][1] = b
    BY <2>3, <2>4
  <2>6. SettledKept'
    BY <1>1, <2>1, <2>5 DEF SettledKept
  <2>7. QED
    BY <1>2, <1>3, <2>6 DEF CacheInv
<1>6. CASE ~settled /\ ~(Cardinality(pending) <= Cap)
  BY <1>2, <1>3, <1>6 DEF EndRound, CacheInv, SettledKept
<1>7. QED
  BY <1>2, <1>3, <1>4, <1>5, <1>6 DEF CacheInv

(* The invariant holds in every state of every transfer. *)
LEMMA CacheInvariant == CacheSpec => []CacheInv
<1>1. CacheInit => CacheInv
  BY CacheInitial
<1>2. CacheInv /\ [CacheNext]_cacheVars => CacheInv'
  <2> SUFFICES ASSUME CacheInv, [CacheNext]_cacheVars
               PROVE  CacheInv'
    OBVIOUS
  <2>1. CASE UNCHANGED cacheVars
    <3>1. /\ spc' = spc /\ acked' = acked /\ sprayed' = sprayed /\ pending' = pending
          /\ todo' = todo /\ cache' = cache /\ current' = current /\ settled' = settled
      BY <2>1 DEF cacheVars
    <3>2. CacheTyped'
      BY <3>1 DEF CacheInv, CacheTyped
    <3>3. RoundKept'
      BY <3>1 DEF CacheInv, RoundKept, Fronted
    <3>4. SettledKept'
      BY <3>1 DEF CacheInv, SettledKept
    <3>5. QED
      BY <3>2, <3>3, <3>4 DEF CacheInv
  <2>2. CASE StartRound
    BY <2>2, StartRoundKeeps
  <2>3. CASE Flush
    BY <2>3, FlushKeeps
  <2>4. CASE FlushRefused
    BY <2>4, FlushRefusedKeeps
  <2>5. CASE EndRound
    BY <2>5, EndRoundKeeps
  <2>6. CASE \E b \in Blocks : SprayBlock(b)
    BY <2>6, SprayBlockKeeps
  <2>7. QED
    BY <2>1, <2>2, <2>3, <2>4, <2>5, <2>6 DEF CacheNext
<1>3. QED
  BY <1>1, <1>2, PTL DEF CacheSpec

(* get_encoder returns the front of the cache unseen, and it is always the *)
(* encoder of the block asked for; the cache never holds more than         *)
(* ENCODER_CACHE encoders nor two of one block, for any number of blocks   *)
(* and any size of the cache.                                              *)
THEOREM EncoderAlwaysRight == CacheSpec => []RightEncoder
<1>1. CacheInv => RightEncoder
  <2> SUFFICES ASSUME CacheInv
               PROVE  RightEncoder
    OBVIOUS
  <2>1. CacheTyped
    BY DEF CacheInv
  <2>2. ASSUME NEW b \in Blocks
        PROVE  Cardinality(Position(b)) <= 1
    <3>1. CASE Position(b) = {}
      BY <3>1, FS_EmptySet
    <3>2. CASE Position(b) # {}
      <4>1. PICK i : i \in Position(b)
        BY <3>2
      <4>2. Position(b) = {i}
        BY <2>1, <4>1 DEF CacheTyped, Position
      <4>3. QED
        BY <4>2, FS_Singleton
    <3>3. QED
      BY <3>1, <3>2
  <2>3. QED
    BY <2>1, <2>2 DEF CacheTyped, RightEncoder
<1>2. QED
  BY <1>1, CacheInvariant, PTL

(* Once a round of the sender had no more pending blocks than              *)
(* ENCODER_CACHE, get_encoder never builds an encoder again: the cache     *)
(* keeps the blocks still being repaired, for any number of blocks, any    *)
(* size of the cache and whatever is acknowledged when.                    *)
THEOREM EncodersKept == CacheSpec => NoRebuild
<1> DEFINE Kept == settled => \A b \in Blocks : SprayBlock(b) /\ b \notin acked => Position(b) # {}
<1>1. CacheInv => Kept
  <2> SUFFICES ASSUME CacheInv, settled, NEW b \in Blocks, b \notin acked
               PROVE  Position(b) # {}
    OBVIOUS
  <2>1. PICK i \in 1 .. Len(cache) : cache[i][1] = b
    BY DEF CacheInv, SettledKept
  <2>2. QED
    BY <2>1 DEF CacheInv, CacheTyped, Position
<1>2. CacheInv /\ [CacheNext]_cacheVars => [Kept]_cacheVars
  BY <1>1
<1>3. QED
  BY <1>2, CacheInvariant, PTL DEF CacheSpec, NoRebuild

=============================================================================
