--------------------------- MODULE TransferProofs ---------------------------
(***************************************************************************)
(* Proofs about Transfer, for any number of blocks, any symbol counts and  *)
(* any set of faults.  The inductive invariant is a conjunction of six     *)
(* named parts:                                                            *)
(*   TypeOK      the types                                                 *)
(*   AckedIsWritten  what an acknowledgement anywhere implies              *)
(*   VerdictInv  how far the hash check and the Done frame have got        *)
(*   FreshInv    which symbol ids were used                                *)
(*   SprayInv    that no symbol id below those was left out                *)
(*   AccountInv  where the acknowledgement of each decoded block is        *)
(*   FileInv     what the file holds for a block that is done, or is not   *)
(***************************************************************************)
EXTENDS Transfer, SequenceTheorems, TLAPS

-----------------------------------------------------------------------------
(* Queues: membership after Append and Tail.                               *)

(* An empty queue holds nothing. *)
LEMMA HasEmpty == \A m : ~Has(<<>>, m)
BY DEF Has

(* Appending adds exactly one message. *)
LEMMA HasAppend ==
  ASSUME NEW S, NEW q \in Seq(S), NEW e \in S
  PROVE  \A m : Has(Append(q, e), m) <=> Has(q, m) \/ m = e
BY DEF Has

(* A frame appended to a stream without Done is the only one that can be Done. *)
LEMMA AppendDone ==
  ASSUME NEW q \in Seq(Frames), NEW f \in Frames,
         \A i \in 1 .. Len(q) : q[i].type # "done"
  PROVE  \A i \in 1 .. Len(Append(q, f)) :
            Append(q, f)[i].type = "done" => i = Len(Append(q, f))
<1>1. /\ Len(Append(q, f)) = Len(q) + 1
      /\ \A i \in 1 .. Len(q) : Append(q, f)[i] = q[i]
  OBVIOUS
<1> QED
  BY <1>1

(* Taking the head off leaves the others. *)
LEMMA HasTail ==
  ASSUME NEW S, NEW q \in Seq(S), q # <<>>
  PROVE  /\ Tail(q) \in Seq(S) /\ Head(q) \in S
         /\ Has(q, Head(q))
         /\ \A m : Has(Tail(q), m) => Has(q, m)
         /\ \A m : Has(q, m) => m = Head(q) \/ Has(Tail(q), m)
<1>1. /\ Tail(q) \in Seq(S) /\ Head(q) \in S
      /\ Len(q) \in Nat /\ Len(Tail(q)) = Len(q) - 1
      /\ \A i \in 1 .. Len(Tail(q)) : Tail(q)[i] = q[i + 1]
      /\ Head(q) = q[1] /\ Len(q) > 0
  BY HeadTailProperties
<1>2. Has(q, Head(q))
  BY <1>1 DEF Has
<1>3. ASSUME NEW m, Has(Tail(q), m)
      PROVE  Has(q, m)
  <2>1. PICK i \in 1 .. Len(Tail(q)) : Tail(q)[i] = m
    BY <1>3 DEF Has
  <2>2. i + 1 \in 1 .. Len(q) /\ q[i + 1] = m
    BY <1>1, <2>1
  <2> QED
    BY <2>2 DEF Has
<1>4. ASSUME NEW m, Has(q, m), m # Head(q)
      PROVE  Has(Tail(q), m)
  <2>1. PICK i \in 1 .. Len(q) : q[i] = m
    BY <1>4 DEF Has
  <2>2. i # 1
    BY <1>1, <1>4, <2>1
  <2>3. i - 1 \in 1 .. Len(Tail(q)) /\ Tail(q)[i - 1] = m
    BY <1>1, <2>1, <2>2
  <2> QED
    BY <2>3 DEF Has
<1> QED
  BY <1>1, <1>2, <1>3, <1>4

(* The messages are pairwise different. *)
LEMMA Distinct ==
  /\ \A b, c : Decoded(b) = Decoded(c) => b = c
  /\ \A b : /\ Decoded(b) # Progress /\ Decoded(b) # Closed
            /\ \A v : Decoded(b) # DoneFrame(v)
  /\ \A v : DoneFrame(v) # Progress /\ DoneFrame(v) # Closed
  /\ DoneFrame("ok") # DoneFrame("mismatch")
  /\ Progress # Closed
<1>1. \A b, c : Decoded(b).type = "decoded" /\ Decoded(b).block = b
  BY DEF Decoded
<1>2. \A v : DoneFrame(v).type = "done" /\ DoneFrame(v).hash = v
  BY DEF DoneFrame
<1>3. Progress.type = "progress" /\ Closed.type = "closed"
  BY DEF Progress, Closed
<1> QED
  BY <1>1, <1>2, <1>3

(* What travels on the control channel are frames. *)
LEMMA FrameAt ==
  ASSUME NEW s \in Seq(Frames), NEW i \in 1 .. Len(s)
  PROVE  s[i] \in Frames
  OBVIOUS

(* Every frame is an acknowledgement, a Progress frame or a Done frame,    *)
(* and its type field tells which.                                         *)
LEMMA FrameCases ==
  ASSUME NEW f \in Frames
  PROVE  \/ \E b \in Blocks : f = Decoded(b) /\ f.type # "done"
         \/ f = Progress /\ f.type # "done"
         \/ f.type = "done" /\ (f = DoneFrame("ok") \/ f = DoneFrame("mismatch"))
<1>1. CASE f \in {Decoded(b) : b \in Blocks}
  BY <1>1 DEF Decoded
<1>2. CASE f = Progress
  BY <1>2 DEF Progress
<1>3. CASE f \in {DoneFrame(v) : v \in {"ok", "mismatch"}}
  BY <1>3 DEF DoneFrame
<1> QED
  BY <1>1, <1>2, <1>3 DEF Frames

(* The messages belong to the types of the queues. *)
LEMMA MessageTypes ==
  /\ \A b \in Blocks : Decoded(b) \in Frames
  /\ Progress \in Frames
  /\ DoneFrame("ok") \in Frames /\ DoneFrame("mismatch") \in Frames
  /\ \A f \in Frames : f \in Feedback
  /\ Closed \in Feedback
BY DEF Frames, Feedback

-----------------------------------------------------------------------------
(* The inductive invariant.                                                *)

(* How far the hash check has got: no verdict before it; a good verdict    *)
(* means a good file; a Done frame, and the sender's belief in it, follow  *)
(* the receiver's own end; a stream is only seen closed once the receiver  *)
(* has ended, and never instead of the Done of one that ended well.        *)
VerdictInv ==
  /\ rpc \in {"loop", "batch", "ack", "verify"} => verdict = "none"
  /\ rpc = "report" => verdict # "none"
  /\ rpc = "ok" => verdict = "ok"
  /\ verdict = "ok" => \A b \in Blocks : file[b] = "good"
  /\ Has(ctl, DoneFrame("ok")) \/ Has(fb, DoneFrame("ok")) \/ spc = "ok"
       => rpc = "ok"
  /\ Has(ctl, DoneFrame("mismatch")) \/ Has(fb, DoneFrame("mismatch"))
       => rpc = "mismatch"
  /\ reader = "exited" => ~ReceiverUp
  /\ Has(fb, Closed) \/ spc \in {"failed", "connlost"}
       => ~ReceiverUp /\ rpc # "ok"
  /\ rpc = "ok" /\ SenderUp
       => \/ reader = "reading" /\ Has(ctl, DoneFrame("ok"))
          \/ reader = "exited" /\ Has(fb, DoneFrame("ok"))

(* Which ids were used: every id below K + next_repair may have been, no   *)
(* other; in round 0 nothing of a block that is still to come.             *)
FreshInv ==
  /\ \A p \in net \cup packets : p[2] < K[p[1]] + nextRepair[p[1]]
  /\ round = 0 /\ spc \in {"top", "wait"} => net \cup packets = {}
  /\ round = 0 => \A p \in net \cup packets : p[1] \notin todo
  /\ spc = "settle" => round = 1
  /\ packets \cap net = {}

(* No id was left out: a block is sprayed up to K + next_repair or not at  *)
(* all, in round 0 all blocks but those still to come are, and only a      *)
(* sprayed block can be decoded.  The symbols are quantified over rather   *)
(* than the blocks because with MaxId = 0 next_repair stays 0.             *)
SprayInv ==
  /\ packets # {} => spc \in {"flush"} \cup SenderEnds
  /\ \A p \in net \cup packets : nextRepair[p[1]] > 0
  /\ \A b \in done : nextRepair[b] > 0
  /\ \A b \in Blocks : nextRepair[b] <= MaxId
  /\ ~gone => \A p \in Symbols :
                 nextRepair[p[1]] > 0 /\ p[2] < K[p[1]] + nextRepair[p[1]]
                   => p \in net \cup packets
  /\ round = 0 /\ spc \in {"spray", "flush", "drain"}
       => \A p \in Symbols : p[1] \in todo \/ nextRepair[p[1]] > 0
  /\ round = 1 /\ ~gone => \A p \in Symbols : nextRepair[p[1]] > 0
  /\ round = 1 => \A p \in packets : p[2] >= K[p[1]]
  /\ gone => round = 1

(* A refused datagram means that the receiver has ended; a receiver that   *)
(* waits for datagrams misses a block.                                     *)
WaitInv ==
  /\ gone => ~ReceiverUp
  /\ rpc = "loop" => done # Blocks

(* Where the acknowledgement of a decoded block is, as long as the sender  *)
(* has not been refused; Done is the last frame of the control stream.     *)
AccountInv ==
  /\ rpc \in {"verify", "report", "ok", "mismatch"} => done = Blocks /\ acks = <<>>
  /\ SenderUp /\ ~gone
       => \A b \in done : \/ b \in acked \/ Has(acks, b)
                          \/ Has(fb, Decoded(b)) \/ Has(ctl, Decoded(b))
  /\ spc = "wait" /\ ~gone => acked = Blocks
  /\ \A i \in 1 .. Len(ctl) : ctl[i].type = "done" => i = Len(ctl)
  /\ reader = "exited" => ctl = <<>> \/ ~SenderUp
  /\ Has(fb, DoneFrame("ok")) => reader = "exited"
  /\ SuccessFullyAcked

(* A block is right only once it is done, and done only once written. *)
FileInv ==
  \A b \in Blocks : /\ file[b] = "good" => b \in done
                    /\ b \in done => file[b] \notin Unwritten

IInv == /\ TypeOK /\ AckedIsWritten /\ VerdictInv /\ FreshInv /\ SprayInv
        /\ WaitInv /\ AccountInv /\ FileInv

-----------------------------------------------------------------------------
(* The invariant holds initially. *)
LEMMA InitIInv == Init => IInv
<1> SUFFICES ASSUME Init
             PROVE  IInv
  OBVIOUS
<1> USE DEF Init
<1>1. TypeOK
  <2>1. fb \in Seq(Feedback) /\ ctl \in Seq(Frames) /\ acks \in Seq(Blocks)
    OBVIOUS
  <2>2. nextRepair \in [Blocks -> Nat]
    OBVIOUS
  <2>3. got \in [Blocks -> SUBSET (0 .. MaxId - 1)]
    OBVIOUS
  <2>4. file \in [Blocks -> Unwritten \cup {"good", "bad"}]
    BY DEF Unwritten
  <2> QED
    BY <2>1, <2>2, <2>3, <2>4 DEF TypeOK
<1>2. AckedIsWritten
  BY HasEmpty DEF AckedIsWritten
<1>3. VerdictInv
  BY HasEmpty DEF VerdictInv, ReceiverUp, ReceiverEnds
<1>4. FreshInv
  BY DEF FreshInv
<1>5. AccountInv
  BY HasEmpty DEF AccountInv, SuccessFullyAcked
<1>6. FileInv
  BY DEF FileInv
<1>7. SprayInv
  <2>1. \A p \in Symbols : ~(nextRepair[p[1]] > 0)
    BY DEF Symbols
  <2>2. \A b \in Blocks : nextRepair[b] <= MaxId
    BY TransferAssumption
  <2> QED
    BY <2>1, <2>2 DEF SprayInv
<1>8. WaitInv
  <2>1. 0 \in Blocks
    BY TransferAssumption DEF Blocks
  <2> QED
    BY <2>1 DEF WaitInv, ReceiverUp
<1> QED
  BY <1>1, <1>2, <1>3, <1>4, <1>5, <1>6, <1>7, <1>8 DEF IInv

(* drain_feedback ends in one of the sender's end states or where it is    *)
(* told to go on.                                                          *)
LEMMA DrainResultCases ==
  \/ DrainResult = "ok" /\ Has(fb, DoneFrame("ok"))
  \/ DrainResult = "failed" /\ Has(fb, DoneFrame("mismatch"))
  \/ /\ DrainResult = "connlost"
     /\ Has(fb, Closed) \/ reader = "exited"
     /\ ~Has(fb, DoneFrame("ok"))
  \/ /\ DrainResult = "none"
     /\ ~Has(fb, Closed) /\ reader # "exited"
     /\ ~Has(fb, DoneFrame("ok")) /\ ~Has(fb, DoneFrame("mismatch"))
BY DEF DrainResult

(* TypeOK is inductive. *)
LEMMA NextTypeOK ==
  ASSUME TypeOK, VerdictInv, [Next]_vars
  PROVE  TypeOK'
<1> USE DEF TypeOK
<1>0. SenderEnds = {"ok", "failed", "connlost", "nodone", "senderr", "crashed"}
      /\ ReceiverEnds = {"ok", "mismatch", "ioerror", "ctlerror", "crashed"}
  BY DEF SenderEnds, ReceiverEnds
<1>1. CASE StartRound
  BY <1>0, <1>1, DrainResultCases DEF StartRound, Drain, AcksIn, network, receiver
<1>2. ASSUME NEW b \in Blocks, SprayBlock(b)
      PROVE  TypeOK'
  <2>1. CASE b \in acked /\ UNCHANGED <<spc, nextRepair, packets>>
    BY <1>2, <2>1 DEF SprayBlock, channel, network, receiver
  <2>2. CASE b \notin acked
    <3>1. PICK n \in RepairCounts :
             /\ packets' = {<<b, i>> : i \in RoundIds(b, n) \cap 0 .. MaxId - 1}
             /\ nextRepair' = [nextRepair EXCEPT ![b] = MinOf(@ + n, MaxId)]
      BY <1>2, <2>2 DEF SprayBlock
    <3>2. n \in Nat /\ MaxId \in Nat
      BY TransferAssumption DEF RepairCounts
    <3>3. MinOf(nextRepair[b] + n, MaxId) \in Nat
      BY <3>2 DEF MinOf
    <3>4. nextRepair' \in [Blocks -> Nat]
      BY <3>1, <3>3
    <3>5. packets' \subseteq Symbols
      BY <3>1 DEF Symbols
    <3> QED
      BY <1>2, <2>2, <3>4, <3>5 DEF SprayBlock, channel, network, receiver
  <2> QED
    BY <1>2, <2>1, <2>2 DEF SprayBlock
<1>3. CASE FlushBatch
  BY <1>3 DEF FlushBatch, Batch, channel, receiver
<1>4. CASE FlushRefused
  BY <1>4 DEF FlushRefused, channel, network, receiver
<1>5. CASE FlushFails
  BY <1>0, <1>5 DEF FlushFails, channel, network, receiver
<1>6. CASE BlockSent
  BY <1>6 DEF BlockSent, channel, network, receiver
<1>7. CASE DrainAfterBlock
  BY <1>0, <1>7, DrainResultCases DEF DrainAfterBlock, Drain, AcksIn, network, receiver
<1>8. CASE EndRound
  BY <1>8 DEF EndRound, channel, network, receiver
<1>9. CASE Settle
  BY <1>0, <1>9, DrainResultCases DEF Settle, Drain, AcksIn, network, receiver
<1>10. CASE WaitFeedback
  BY <1>0, <1>10 DEF WaitFeedback, network, receiver
<1>11. CASE WaitGivesUp
  BY <1>0, <1>11 DEF WaitGivesUp, channel, network, receiver
<1>12. CASE ReadFrame
  BY <1>12, MessageTypes, HasTail DEF ReadFrame, sender, network, receiver
<1>13. CASE ReadEof
  BY <1>13, MessageTypes DEF ReadEof, sender, network, receiver
<1>14. ASSUME NEW p \in net, RecvDatagram(p)
       PROVE  TypeOK'
  <2>1. p[1] \in Blocks /\ p[2] \in 0 .. MaxId - 1
    BY DEF Symbols
  <2>2. got[p[1]] \cup {p[2]} \subseteq 0 .. MaxId - 1
    BY <2>1
  <2>3. ASSUME NEW t, t \subseteq Blocks, KeepSymbol(p[1], got[p[1]] \cup {p[2]}, t)
        PROVE  /\ got' \in [Blocks -> SUBSET (0 .. MaxId - 1)] /\ tainted' \subseteq Blocks
               /\ done' \subseteq Blocks /\ file' \in [Blocks -> Unwritten \cup {"good", "bad"}]
               /\ acks' \in Seq(Blocks) /\ ioErr' \in BOOLEAN
    BY <2>1, <2>2, <2>3 DEF KeepSymbol
  <2>4. ASSUME NEW t, t \subseteq Blocks, FinishBlock(p[1], got[p[1]] \cup {p[2]}, t)
        PROVE  /\ got' \in [Blocks -> SUBSET (0 .. MaxId - 1)] /\ tainted' \subseteq Blocks
               /\ done' \subseteq Blocks /\ file' \in [Blocks -> Unwritten \cup {"good", "bad"}]
               /\ acks' \in Seq(Blocks) /\ ioErr' \in BOOLEAN
    BY <2>1, <2>2, <2>4 DEF FinishBlock, Content
  <2>5. ASSUME NEW t, t \subseteq Blocks, WriteFails(p[1], got[p[1]] \cup {p[2]}, t)
        PROVE  /\ got' \in [Blocks -> SUBSET (0 .. MaxId - 1)] /\ tainted' \subseteq Blocks
               /\ done' \subseteq Blocks /\ file' \in [Blocks -> Unwritten \cup {"good", "bad"}]
               /\ acks' \in Seq(Blocks) /\ ioErr' \in BOOLEAN
    BY <2>1, <2>2, <2>5 DEF WriteFails, Unwritten
  <2>6. /\ got' \in [Blocks -> SUBSET (0 .. MaxId - 1)] /\ tainted' \subseteq Blocks
        /\ done' \subseteq Blocks /\ file' \in [Blocks -> Unwritten \cup {"good", "bad"}]
        /\ acks' \in Seq(Blocks) /\ ioErr' \in BOOLEAN
    <3>1. CASE p[1] \in done
      BY <1>14, <3>1 DEF RecvDatagram
    <3>2. CASE p[1] \notin done
      <4>1. tainted \subseteq Blocks /\ tainted \cup {p[1]} \subseteq Blocks
        BY <2>1
      <4> QED
        BY <1>14, <2>3, <2>4, <2>5, <3>2, <4>1 DEF RecvDatagram
    <3> QED
      BY <3>1, <3>2
  <2>7. rpc' = "batch" /\ heard' = TRUE /\ UNCHANGED <<verdict, sender, channel, network>>
    BY <1>14 DEF RecvDatagram
  <2> QED
    BY <2>6, <2>7 DEF sender, channel, network
<1>15. CASE RecvFails \/ EndBatch
  BY <1>0, <1>15 DEF RecvFails, EndBatch, sender, channel, network
<1>16. CASE WriteAck
  BY <1>16, MessageTypes, HasTail DEF WriteAck, WriteFrame, sender, network
<1>17. CASE AcksWritten
  BY <1>17 DEF AcksWritten, sender, channel, network
<1>18. CASE Tick
  BY <1>18, MessageTypes DEF Tick, WriteFrame, sender, network, receiver
<1>19. CASE Verify
  BY <1>0, <1>19 DEF Verify, sender, channel, network
<1>20. CASE Report
  <2>1. verdict \in {"ok", "mismatch"}
    BY <1>20 DEF Report, VerdictInv
  <2> QED
    BY <1>0, <1>20, <2>1, MessageTypes DEF Report, WriteFrame, sender, network
<1>21. CASE WriteFrameFails
  BY <1>0, <1>21 DEF WriteFrameFails, sender, channel, network
<1>22. ASSUME NEW p \in net, Lose(p)
       PROVE  TypeOK'
  BY <1>22 DEF Lose, sender, channel, receiver
<1>23. CASE SenderCrash
  BY <1>0, <1>23 DEF SenderCrash, channel, network, receiver
<1>24. CASE ReceiverCrash
  BY <1>0, <1>24 DEF ReceiverCrash, sender, channel, network
<1>25. CASE UNCHANGED vars
  BY <1>25 DEF vars, sender, channel, network, receiver
<1> QED
  BY <1>1, <1>2, <1>3, <1>4, <1>5, <1>6, <1>7, <1>8, <1>9, <1>10, <1>11, <1>12,
     <1>13, <1>14, <1>15, <1>16, <1>17, <1>18, <1>19, <1>20, <1>21, <1>22, <1>23,
     <1>24, <1>25
     DEF Next, SenderNext, ReaderNext, ReceiverNext, Over

-----------------------------------------------------------------------------
(* What receiving a datagram does to the receiver: the block is finished,  *)
(* written and queued for its ack, or its write failed, or nothing that    *)
(* matters outside the decoder changed.                                    *)
LEMMA RecvCases ==
  ASSUME TypeOK, NEW p \in net, RecvDatagram(p)
  PROVE  /\ p[1] \in Blocks
         /\ rpc \in {"loop", "batch"} /\ rpc' = "batch"
         /\ UNCHANGED <<verdict, sender, channel, network>>
         /\ \/ UNCHANGED <<done, file, acks>>
            \/ /\ p[1] \notin done
               /\ file' = [file EXCEPT ![p[1]] = "torn"]
               /\ UNCHANGED <<done, acks>>
            \/ /\ p[1] \notin done
               /\ \E c \in {"good", "bad"} : file' = [file EXCEPT ![p[1]] = c]
               /\ done' = done \cup {p[1]}
               /\ acks' = Append(acks, p[1])
<1>1. p[1] \in Blocks
  BY DEF TypeOK, Symbols
<1>2. rpc \in {"loop", "batch"} /\ rpc' = "batch" /\ UNCHANGED <<verdict, sender, channel, network>>
  BY DEF RecvDatagram
<1>3. CASE p[1] \in done
  BY <1>1, <1>2, <1>3 DEF RecvDatagram
<1>4. CASE p[1] \notin done
  <2>1. PICK ids, taint : \/ KeepSymbol(p[1], ids, taint)
                          \/ FinishBlock(p[1], ids, taint)
                          \/ WriteFails(p[1], ids, taint)
    BY <1>4 DEF RecvDatagram
  <2>2. CASE KeepSymbol(p[1], ids, taint)
    BY <1>1, <1>2, <2>2 DEF KeepSymbol
  <2>3. CASE FinishBlock(p[1], ids, taint)
    BY <1>1, <1>2, <1>4, <2>3 DEF FinishBlock, Content
  <2>4. CASE WriteFails(p[1], ids, taint)
    BY <1>1, <1>2, <1>4, <2>4 DEF WriteFails
  <2> QED
    BY <2>1, <2>2, <2>3, <2>4
<1> QED
  BY <1>3, <1>4

(* What drain_feedback does to the acknowledgements. *)
LEMMA DrainAcks ==
  ASSUME NEW n, Drain(n)
  PROVE  /\ fb' = <<>>
         /\ \A b \in Blocks : b \in acked' <=> b \in acked \/ Has(fb, Decoded(b))
         /\ spc' = IF DrainResult = "none" THEN n ELSE DrainResult
         /\ UNCHANGED <<reader, ctl, network, receiver>>
BY DEF Drain, AcksIn

(* AckedIsWritten is inductive. *)
LEMMA NextAcked ==
  ASSUME TypeOK, VerdictInv, AckedIsWritten, [Next]_vars
  PROVE  AckedIsWritten'
<1> USE DEF AckedIsWritten
<1>1. ASSUME NEW n, Drain(n)
      PROVE  AckedIsWritten'
  BY <1>1, DrainAcks, HasEmpty DEF receiver
<1>2. CASE WaitFeedback
  <2>1. \A m : Has(fb', m) => Has(fb, m)
    BY <1>2, HasTail DEF WaitFeedback, TypeOK
  <2> QED
    BY <1>2, <2>1 DEF WaitFeedback, receiver
<1>3. CASE ReadFrame
  <2>1. /\ Head(ctl) \in Feedback /\ Has(ctl, Head(ctl))
        /\ \A m : Has(ctl', m) => Has(ctl, m)
    BY <1>3, HasTail, MessageTypes DEF ReadFrame, TypeOK
  <2>2. \A m : Has(fb', m) <=> Has(fb, m) \/ m = Head(ctl)
    BY <1>3, <2>1, HasAppend DEF ReadFrame, TypeOK
  <2> QED
    BY <1>3, <2>1, <2>2 DEF ReadFrame, sender, receiver
<1>4. CASE ReadEof
  <2>1. \A m : Has(fb', m) <=> Has(fb, m) \/ m = Closed
    BY <1>4, HasAppend, MessageTypes DEF ReadEof, TypeOK
  <2> QED
    BY <1>4, <2>1, Distinct DEF ReadEof, sender, receiver
<1>5. ASSUME NEW p \in net, RecvDatagram(p)
      PROVE  AckedIsWritten'
  <2>1. CASE UNCHANGED <<done, file, acks>>
    BY <1>5, <2>1, RecvCases DEF sender, channel
  <2>2. CASE /\ p[1] \notin done
             /\ file' = [file EXCEPT ![p[1]] = "torn"]
             /\ UNCHANGED <<done, acks>>
    <3>1. \A b \in done : file'[b] = file[b]
      BY <2>2 DEF TypeOK
    <3> QED
      BY <1>5, <2>2, <3>1, RecvCases DEF sender, channel
  <2>3. CASE /\ \E c \in {"good", "bad"} : file' = [file EXCEPT ![p[1]] = c]
             /\ done' = done \cup {p[1]}
             /\ acks' = Append(acks, p[1])
    <3>0. p[1] \in Blocks /\ acks \in Seq(Blocks)
      BY <1>5, RecvCases DEF TypeOK
    <3>1. \A m : Has(acks', m) <=> Has(acks, m) \/ m = p[1]
      BY <2>3, <3>0, HasAppend
    <3>2. file'[p[1]] \notin Unwritten /\ \A b \in Blocks : file[b] \notin Unwritten => file'[b] \notin Unwritten
      BY <1>5, <2>3, RecvCases DEF TypeOK, Unwritten
    <3> QED
      BY <1>5, <2>3, <3>1, <3>2, RecvCases DEF sender, channel
  <2> QED
    BY <1>5, <2>1, <2>2, <2>3, RecvCases
<1>6. CASE WriteAck
  <2>1. /\ Head(acks) \in Blocks /\ Has(acks, Head(acks))
        /\ \A m : Has(acks', m) => Has(acks, m)
    BY <1>6, HasTail DEF WriteAck, TypeOK
  <2>2. \A m : Has(ctl', m) => Has(ctl, m) \/ m = Decoded(Head(acks))
    BY <1>6, <2>1, HasAppend, MessageTypes DEF WriteAck, WriteFrame, TypeOK
  <2> QED
    BY <1>6, <2>1, <2>2, Distinct DEF WriteAck, sender
<1>7. CASE Tick
  <2>1. \A m : Has(ctl', m) => Has(ctl, m) \/ m = Progress
    BY <1>7, HasAppend, MessageTypes DEF Tick, WriteFrame, TypeOK
  <2> QED
    BY <1>7, <2>1, Distinct DEF Tick, sender, receiver
<1>8. CASE Report
  <2>1. \A m : Has(ctl', m) => Has(ctl, m) \/ m = DoneFrame(verdict)
    <3>1. verdict \in {"ok", "mismatch"}
      BY <1>8 DEF Report, VerdictInv, TypeOK
    <3> QED
      BY <1>8, <3>1, HasAppend, MessageTypes DEF Report, WriteFrame, TypeOK
  <2> QED
    BY <1>8, <2>1, Distinct DEF Report, sender
<1>9. CASE UNCHANGED <<acked, fb, ctl, acks, done, file>>
  BY <1>9
<1> QED
  BY <1>1, <1>2, <1>3, <1>4, <1>5, <1>6, <1>7, <1>8, <1>9
     DEF Next, SenderNext, ReaderNext, ReceiverNext, Over, vars, sender, channel,
         receiver, network, StartRound, SprayBlock, FlushBatch, FlushRefused,
         FlushFails, BlockSent, DrainAfterBlock, EndRound, Settle, WaitGivesUp,
         RecvFails, EndBatch, AcksWritten, Verify, WriteFrameFails, Lose, SenderCrash,
         ReceiverCrash

-----------------------------------------------------------------------------
(* VerdictInv is inductive. *)
LEMMA NextVerdict ==
  ASSUME TypeOK, VerdictInv, [Next]_vars
  PROVE  VerdictInv'
<1> USE DEF VerdictInv
<1>0. /\ SenderUp <=> spc \notin SenderEnds
      /\ ReceiverUp <=> rpc \notin ReceiverEnds
      /\ SenderUp' <=> spc' \notin SenderEnds
      /\ ReceiverUp' <=> rpc' \notin ReceiverEnds
      /\ SenderEnds = {"ok", "failed", "connlost", "nodone", "senderr", "crashed"}
      /\ ReceiverEnds = {"ok", "mismatch", "ioerror", "ctlerror", "crashed"}
  BY DEF SenderUp, ReceiverUp, SenderEnds, ReceiverEnds
<1>1. ASSUME NEW n, n \in {"wait", "spray", "top", "settle"}, Drain(n), SenderUp
      PROVE  VerdictInv'
  <2>1. fb' = <<>> /\ UNCHANGED <<reader, ctl, network, receiver>>
        /\ spc' = IF DrainResult = "none" THEN n ELSE DrainResult
    BY <1>1, DrainAcks
  <2>2. \A m : ~Has(fb', m)
    BY <2>1, HasEmpty
  <2> QED
    BY <1>0, <1>1, <2>1, <2>2, DrainResultCases DEF receiver
<1>2. CASE WaitFeedback
  <2>1. /\ \A m : Has(fb', m) => Has(fb, m)
        /\ \A m : Has(fb, m) => m = Head(fb) \/ Has(fb', m)
        /\ Has(fb, Head(fb))
    BY <1>2, HasTail DEF WaitFeedback, TypeOK
  <2>2. \/ Head(fb) = DoneFrame("ok") /\ spc' = "ok"
        \/ Head(fb) = DoneFrame("mismatch") /\ spc' = "failed"
        \/ Head(fb) # DoneFrame("ok") /\ spc' = "top"
    BY <1>2, Distinct DEF WaitFeedback
  <2> QED
    BY <1>0, <1>2, <2>1, <2>2 DEF WaitFeedback, receiver, network
<1>3. CASE ReadFrame
  <2>1. /\ Head(ctl) \in Frames /\ Head(ctl) \in Feedback /\ Has(ctl, Head(ctl))
        /\ \A m : Has(ctl', m) => Has(ctl, m)
        /\ \A m : Has(ctl, m) => m = Head(ctl) \/ Has(ctl', m)
    BY <1>3, HasTail, MessageTypes DEF ReadFrame, TypeOK
  <2>2. \A m : Has(fb', m) <=> Has(fb, m) \/ m = Head(ctl)
    BY <1>3, <2>1, HasAppend DEF ReadFrame, TypeOK
  <2>3. Head(ctl) # Closed
    BY <2>1, FrameCases, Distinct
  <2>4. reader' = "exited" => Head(ctl) = DoneFrame("ok") \/ Head(ctl) = DoneFrame("mismatch")
    BY <1>3, <2>1, FrameCases DEF ReadFrame
  <2>5. reader' \in {"reading", "exited"}
    BY <1>3 DEF ReadFrame
  <2>6. Head(ctl) = DoneFrame("ok") => reader' = "exited"
    BY <1>3 DEF ReadFrame, DoneFrame
  <2> QED
    BY <1>0, <1>3, <2>1, <2>2, <2>3, <2>4, <2>5, <2>6 DEF ReadFrame, sender, receiver
<1>4. CASE ReadEof
  <2>1. \A m : Has(fb', m) <=> Has(fb, m) \/ m = Closed
    BY <1>4, HasAppend, MessageTypes DEF ReadEof, TypeOK
  <2>2. \A m : ~Has(ctl, m)
    BY <1>4, HasEmpty DEF ReadEof
  <2> QED
    BY <1>0, <1>4, <2>1, <2>2, Distinct DEF ReadEof, sender, receiver
<1>5. ASSUME NEW p \in net, RecvDatagram(p)
      PROVE  VerdictInv'
  <2>1. rpc \in {"loop", "batch"} /\ rpc' = "batch" /\ verdict' = "none"
    BY <1>5, RecvCases
  <2> QED
    BY <1>0, <1>5, <2>1, RecvCases DEF sender, channel
<1>6. CASE WriteAck
  <2>1. Head(acks) \in Blocks
    BY <1>6, HasTail DEF WriteAck, TypeOK
  <2>2. /\ \A m : Has(ctl, m) => Has(ctl', m)
        /\ \A m : Has(ctl', m) => Has(ctl, m) \/ m = Decoded(Head(acks))
    BY <1>6, <2>1, HasAppend, MessageTypes DEF WriteAck, WriteFrame, TypeOK
  <2> QED
    BY <1>0, <1>6, <2>2, Distinct DEF WriteAck, sender
<1>7. CASE Tick
  <2>1. /\ \A m : Has(ctl, m) => Has(ctl', m)
        /\ \A m : Has(ctl', m) => Has(ctl, m) \/ m = Progress
    BY <1>7, HasAppend, MessageTypes DEF Tick, WriteFrame, TypeOK
  <2> QED
    BY <1>0, <1>7, <2>1, Distinct DEF Tick, sender, receiver
<1>8. CASE Report
  <2>1. verdict \in {"ok", "mismatch"}
    BY <1>8 DEF Report, TypeOK
  <2>2. /\ \A m : Has(ctl, m) => Has(ctl', m)
        /\ \A m : Has(ctl', m) => Has(ctl, m) \/ m = DoneFrame(verdict)
        /\ SenderUp => Has(ctl', DoneFrame(verdict))
    BY <1>8, <2>1, HasAppend, MessageTypes DEF Report, WriteFrame, TypeOK
  <2>3. reader = "reading"
    BY <1>0, <1>8 DEF Report, TypeOK
  <2> QED
    BY <1>0, <1>8, <2>1, <2>2, <2>3, Distinct DEF Report, sender
<1>9. CASE Verify
  BY <1>0, <1>9 DEF Verify, sender, channel
<1>10. CASE RecvFails \/ EndBatch
  BY <1>0, <1>10 DEF RecvFails, EndBatch, sender, channel
<1>11. CASE AcksWritten
  BY <1>0, <1>11 DEF AcksWritten, sender, channel
<1>12. CASE WriteFrameFails
  BY <1>0, <1>12 DEF WriteFrameFails, sender, channel
<1>13. CASE ReceiverCrash
  BY <1>0, <1>13 DEF ReceiverCrash, sender, channel
<1>14. CASE /\ UNCHANGED <<channel, receiver>>
            /\ SenderUp
            /\ spc' \notin {"ok", "failed", "connlost"}
  BY <1>0, <1>14 DEF channel, receiver
<1>15. CASE UNCHANGED <<spc, channel, receiver>>
  BY <1>0, <1>15 DEF channel, receiver
<1>16. ASSUME NEW b \in Blocks, SprayBlock(b)
       PROVE  VerdictInv'
  <2>1. SenderUp /\ UNCHANGED <<channel, receiver>> /\ spc' \in {"spray", "flush"}
    BY <1>0, <1>16 DEF SprayBlock
  <2> QED
    BY <1>14, <2>1
<1>17. CASE StartRound
  BY <1>0, <1>1, <1>17 DEF StartRound
<1>18. CASE DrainAfterBlock
  BY <1>0, <1>1, <1>18 DEF DrainAfterBlock
<1>19. CASE Settle
  BY <1>0, <1>1, <1>19 DEF Settle
<1>20. CASE FlushBatch \/ FlushRefused \/ FlushFails \/ BlockSent \/ EndRound
            \/ WaitGivesUp \/ SenderCrash
  BY <1>0, <1>14, <1>20 DEF FlushBatch, FlushRefused, FlushFails, BlockSent,
       EndRound, WaitGivesUp, SenderCrash
<1>21. ASSUME NEW p \in net, Lose(p)
       PROVE  VerdictInv'
  BY <1>15, <1>21 DEF Lose, sender
<1>22. CASE UNCHANGED vars
  BY <1>15, <1>22 DEF vars, sender
<1> QED
  BY <1>2, <1>3, <1>4, <1>5, <1>6, <1>7, <1>8, <1>9, <1>10, <1>11, <1>12, <1>13,
     <1>16, <1>17, <1>18, <1>19, <1>20, <1>21, <1>22
     DEF Next, SenderNext, ReaderNext, ReceiverNext, Over

-----------------------------------------------------------------------------
(* FreshInv is inductive. *)
LEMMA NextFresh ==
  ASSUME TypeOK, FreshInv, [Next]_vars
  PROVE  FreshInv'
<1> USE DEF FreshInv
<1>0. SenderEnds = {"ok", "failed", "connlost", "nodone", "senderr", "crashed"}
  BY DEF SenderEnds
<1>1. CASE StartRound
  <2>1. UNCHANGED <<net, packets, nextRepair, round>> /\ spc = "top" /\ spc' # "settle"
    BY <1>1, DrainResultCases DEF StartRound, Drain, network
  <2> QED
    BY <2>1
<1>2. ASSUME NEW b \in Blocks, SprayBlock(b)
      PROVE  FreshInv'
  <2>1. /\ spc = "spray" /\ b \in todo /\ todo' = todo \ {b}
        /\ UNCHANGED <<net, round>>
    BY <1>2 DEF SprayBlock, network
  <2>2. CASE UNCHANGED <<spc, nextRepair, packets>>
    BY <2>1, <2>2
  <2>3. CASE b \notin acked
    <3>1. PICK n \in RepairCounts :
             /\ packets' = {<<b, i>> : i \in RoundIds(b, n) \cap 0 .. MaxId - 1}
             /\ nextRepair' = [nextRepair EXCEPT ![b] = MinOf(@ + n, MaxId)]
             /\ spc' = "flush"
      BY <1>2, <2>3 DEF SprayBlock
    <3>2. n \in Nat /\ MaxId \in Nat /\ K[b] \in Nat \ {0} /\ nextRepair[b] \in Nat
      BY TransferAssumption DEF RepairCounts, TypeOK
    <3>3. ASSUME NEW q \in packets'
          PROVE  /\ q[1] = b
                 /\ q[2] \in Nat /\ q[2] < MaxId /\ q[2] < K[b] + nextRepair[b] + n
                 /\ round # 0 => q[2] >= K[b] + nextRepair[b]
      BY <3>1, <3>2 DEF RoundIds
    <3>4. /\ nextRepair'[b] = MinOf(nextRepair[b] + n, MaxId)
          /\ \A c \in Blocks : c # b => nextRepair'[c] = nextRepair[c]
      BY <3>1 DEF TypeOK
    <3>5. ASSUME NEW q \in packets'
          PROVE  q[2] < K[q[1]] + nextRepair'[q[1]]
      BY <3>2, <3>3, <3>4 DEF MinOf
    <3>6. ASSUME NEW q \in net
          PROVE  q[2] < K[q[1]] + nextRepair'[q[1]]
      <4>1. q[1] \in Blocks /\ q[2] \in 0 .. MaxId - 1
        BY DEF TypeOK, Symbols
      <4>2. CASE q[1] = b
        BY <3>2, <3>4, <4>1, <4>2 DEF MinOf
      <4>3. CASE q[1] # b
        BY <3>4, <4>1, <4>3
      <4> QED
        BY <4>2, <4>3
    <3>7. ASSUME NEW q \in packets'
          PROVE  q \notin net
      <4>1. SUFFICES ASSUME q \in net
                     PROVE  FALSE
        OBVIOUS
      <4>2. q[1] = b /\ q[2] < K[b] + nextRepair[b]
        BY <3>3, <4>1
      <4>3. round # 0
        BY <2>1, <4>1, <4>2
      <4> QED
        BY <3>2, <3>3, <4>2, <4>3
    <3>8. round' = 0 => \A q \in net' \cup packets' : q[1] \notin todo'
      BY <2>1, <3>3
    <3> QED
      BY <2>1, <3>1, <3>5, <3>6, <3>7, <3>8
  <2> QED
    BY <1>2, <2>2, <2>3 DEF SprayBlock
<1>3. CASE FlushBatch
  <2>1. net' \cup packets' = net \cup packets /\ packets' \cap net' = {}
    BY <1>3 DEF FlushBatch, Batch
  <2> QED
    BY <1>3, <2>1 DEF FlushBatch
<1>4. CASE FlushRefused
  BY <1>4 DEF FlushRefused, network
<1>5. CASE EndRound
  BY <1>5 DEF EndRound, network
<1>6. CASE WaitFeedback
  BY <1>6 DEF WaitFeedback, network
<1>7. CASE FlushFails \/ BlockSent \/ WaitGivesUp \/ SenderCrash
  BY <1>7 DEF FlushFails, BlockSent, WaitGivesUp, SenderCrash, network
<1>8. CASE DrainAfterBlock
  <2>1. /\ UNCHANGED <<net, packets, nextRepair, round, todo>>
        /\ spc' \notin {"top", "wait", "settle"}
    BY <1>8, DrainResultCases DEF DrainAfterBlock, Drain, network
  <2> QED
    BY <2>1
<1>9. CASE UNCHANGED <<sender, network>>
  BY <1>9 DEF sender, network
<1>10. CASE Settle
  <2>1. UNCHANGED <<net, packets, nextRepair, round, todo>>
    BY <1>10 DEF Settle, Drain, network
  <2>2. round = 1
    BY <1>10 DEF Settle
  <2> QED
    BY <2>1, <2>2
<1>11. ASSUME NEW p \in net, RecvDatagram(p)
       PROVE  FreshInv'
  BY <1>9, <1>11, RecvCases
<1>12. ASSUME NEW p \in net, Lose(p)
       PROVE  FreshInv'
  BY <1>12 DEF Lose, sender
<1>13. CASE ReaderNext
  BY <1>9, <1>13 DEF ReaderNext, ReadFrame, ReadEof
<1>14. CASE \/ RecvFails \/ EndBatch \/ WriteAck \/ AcksWritten \/ Tick
            \/ Verify \/ Report \/ WriteFrameFails \/ ReceiverCrash
  BY <1>9, <1>14 DEF RecvFails, EndBatch, WriteAck, AcksWritten, Tick, Verify, Report,
       WriteFrameFails, ReceiverCrash
<1>15. CASE UNCHANGED vars
  BY <1>9, <1>15 DEF vars
<1> QED
  BY <1>1, <1>2, <1>3, <1>4, <1>5, <1>6, <1>7, <1>8, <1>10, <1>11, <1>12, <1>13,
     <1>14, <1>15 DEF Next, SenderNext, ReceiverNext, Over

-----------------------------------------------------------------------------
(* A step that leaves the sender and the wire alone, and decodes nothing   *)
(* or a block of which a symbol was received, preserves SprayInv.          *)
LEMMA SprayQuiet ==
  ASSUME SprayInv, UNCHANGED <<sender, net>>,
         \/ UNCHANGED done
         \/ \E p \in net : done' = done \cup {p[1]}
  PROVE  SprayInv'
<1>1. \A b \in done' : nextRepair[b] > 0
  BY DEF SprayInv
<1> QED
  BY <1>1 DEF SprayInv, sender

(* Encoding the round's symbols of one block preserves SprayInv. *)
LEMMA SpraySpray ==
  ASSUME TypeOK, FreshInv, SprayInv, AckedIsWritten, NEW b \in Blocks, SprayBlock(b)
  PROVE  SprayInv'
<1>1. /\ spc = "spray" /\ b \in todo /\ todo' = todo \ {b}
      /\ UNCHANGED <<net, round, gone, done>>
  BY DEF SprayBlock, network, receiver
<1>2. CASE b \in acked /\ UNCHANGED <<spc, nextRepair, packets>>
  <2>1. nextRepair[b] > 0
    BY <1>2 DEF AckedIsWritten, SprayInv
  <2>2. \A p \in Symbols : p[1] \in todo' \/ p[1] = b \/ p[1] \notin todo
    BY <1>1
  <2> QED
    BY <1>1, <1>2, <2>1, <2>2 DEF SprayInv
<1>3. CASE b \notin acked
  <2>1. PICK n \in RepairCounts :
           /\ packets' = {<<b, i>> : i \in RoundIds(b, n) \cap 0 .. MaxId - 1}
           /\ nextRepair' = [nextRepair EXCEPT ![b] = MinOf(@ + n, MaxId)]
           /\ spc' = "flush"
    BY <1>3 DEF SprayBlock
  <2>2. n \in Nat /\ n > 0 /\ MaxId \in Nat /\ K[b] \in Nat /\ K[b] > 0 /\ nextRepair[b] \in Nat
    BY TransferAssumption DEF RepairCounts, TypeOK
  <2>3. /\ nextRepair'[b] = MinOf(nextRepair[b] + n, MaxId)
        /\ \A c \in Blocks : c # b => nextRepair'[c] = nextRepair[c]
    BY <2>1 DEF TypeOK
  <2>4. packets = {}
    BY <1>1 DEF SprayInv, SenderEnds
  <2>5. ASSUME NEW p \in Symbols
        PROVE  /\ p[1] \in Blocks /\ p[2] \in Nat /\ p[2] < MaxId /\ MaxId > 0
               /\ p = <<p[1], p[2]>>
    BY <2>2 DEF Symbols
  <2>6. ASSUME NEW p \in Symbols, p[1] = b
        PROVE  nextRepair'[p[1]] > 0
    BY <2>2, <2>3, <2>5, <2>6 DEF MinOf
  <2>7. ASSUME NEW p \in Symbols, nextRepair[p[1]] > 0
        PROVE  nextRepair'[p[1]] > 0
    BY <2>3, <2>5, <2>6, <2>7
  <2>8. ASSUME NEW q \in packets'
        PROVE  /\ q \in Symbols /\ q[1] = b
               /\ round = 1 => q[2] >= K[b]
    <3>1. PICK i \in RoundIds(b, n) \cap 0 .. MaxId - 1 : q = <<b, i>>
      BY <2>1, <2>8, Zenon
    <3>2. q[1] = b /\ q[2] = i /\ i \in 0 .. MaxId - 1
      BY <3>1
    <3>3. q \in Symbols
      BY <3>1, <3>2 DEF Symbols
    <3>4. round = 1 => i \in (K[b] + nextRepair[b]) .. (K[b] + nextRepair[b] + n - 1)
      BY <3>1 DEF RoundIds
    <3>5. round = 1 => i >= K[b]
      BY <2>2, <3>4
    <3> QED
      BY <3>2, <3>3, <3>5
  <2>9. net \subseteq Symbols
    BY DEF TypeOK
  <2>10. \A p \in net' \cup packets' : nextRepair'[p[1]] > 0
    BY <1>1, <2>6, <2>7, <2>8, <2>9 DEF SprayInv
  <2>11. ASSUME NEW c \in done'
         PROVE  nextRepair'[c] > 0
    <3>1. c \in Blocks /\ nextRepair[c] > 0 /\ nextRepair[c] \in Nat
      BY <1>1, <2>11 DEF SprayInv, TypeOK
    <3>2. CASE c = b
      <4>1. MaxId > 0
        BY <2>2, <3>1 DEF SprayInv
      <4>2. nextRepair[b] + n > 0
        <5>1. \A x \in Nat, y \in Nat : y > 0 => x + y > 0
          OBVIOUS
        <5> QED
          BY <2>2, <5>1, Zenon
      <4>3. MinOf(nextRepair[b] + n, MaxId) > 0
        BY <4>1, <4>2 DEF MinOf
      <4> QED
        BY <2>3, <3>2, <4>3
    <3> QED
      BY <2>3, <3>1, <3>2
  <2>12. \A c \in Blocks : nextRepair'[c] <= MaxId
    <3>1. MinOf(nextRepair[b] + n, MaxId) <= MaxId
      <4>1. nextRepair[b] + n \in Nat
        BY <2>2
      <4> QED
        BY <2>2, <4>1 DEF MinOf
    <3> QED
      BY <2>3, <3>1, Zenon DEF SprayInv
  <2>13. ASSUME ~gone, NEW p \in Symbols,
                nextRepair'[p[1]] > 0, p[2] < K[p[1]] + nextRepair'[p[1]]
         PROVE  p \in net \cup packets'
    <3>1. CASE p[1] # b
      BY <2>3, <2>4, <2>5, <2>13, <3>1 DEF SprayInv
    <3>2. CASE p[1] = b
      <4>1. p[2] < K[b] + nextRepair[b] + n
        BY <2>2, <2>3, <2>5, <2>13, <3>2 DEF MinOf
      <4>2. CASE nextRepair[b] > 0 /\ p[2] < K[b] + nextRepair[b]
        BY <2>4, <2>13, <3>2, <4>2 DEF SprayInv
      <4>3. CASE p[2] >= K[b] + nextRepair[b]
        <5>1. p[2] \in RoundIds(b, n) \cap 0 .. MaxId - 1
          BY <2>2, <2>5, <4>1, <4>3 DEF RoundIds
        <5> QED
          BY <2>1, <2>5, <3>2, <5>1
      <4>4. CASE nextRepair[b] = 0 /\ p[2] < K[b]
        <5>1. round = 0
          <6>1. ~(nextRepair[p[1]] > 0)
            BY <3>2, <4>4
          <6>2. round # 1
            BY <2>13, <6>1, Zenon DEF SprayInv
          <6> QED
            BY <6>2 DEF TypeOK
        <5>2. p[2] \in RoundIds(b, n) \cap 0 .. MaxId - 1
          BY <2>2, <2>5, <4>4, <5>1 DEF RoundIds
        <5> QED
          BY <2>1, <2>5, <3>2, <5>2
      <4> QED
        BY <2>2, <2>5, <4>2, <4>3, <4>4
    <3> QED
      BY <3>1, <3>2
  <2>14. round = 0 => \A p \in Symbols : p[1] \in todo' \/ nextRepair'[p[1]] > 0
    BY <1>1, <2>6, <2>7 DEF SprayInv
  <2>15. round = 1 /\ ~gone => \A p \in Symbols : nextRepair'[p[1]] > 0
    BY <2>7 DEF SprayInv
  <2>16. ASSUME round = 1, NEW p \in packets'
         PROVE  p[2] >= K[p[1]]
    BY <2>8, <2>16
  <2> QED
    BY <1>1, <2>1, <2>10, <2>11, <2>12, <2>13, <2>14, <2>15, <2>16 DEF SprayInv
<1> QED
  BY <1>2, <1>3 DEF SprayBlock

(* SprayInv is inductive. *)
LEMMA NextSpray ==
  ASSUME TypeOK, AckedIsWritten, FreshInv, SprayInv, [Next]_vars
  PROVE  SprayInv'
<1>0. SenderEnds = {"ok", "failed", "connlost", "nodone", "senderr", "crashed"}
  BY DEF SenderEnds
<1>1. CASE StartRound
  <2>1. /\ UNCHANGED <<net, packets, nextRepair, round, gone, done>>
        /\ spc = "top" /\ spc' \notin {"flush", "drain"}
    BY <1>1, DrainResultCases DEF StartRound, Drain, network, receiver
  <2>2. packets = {}
    BY <1>0, <2>1 DEF SprayInv
  <2>3. ASSUME round = 0, spc' = "spray", NEW p \in Symbols
        PROVE  p[1] \in todo'
    <3>1. p[1] \in Blocks /\ net = {}
      BY <2>1, <2>3 DEF Symbols, FreshInv
    <3>2. <<p[1], 0>> \in Symbols /\ K[p[1]] + nextRepair[p[1]] > 0
      <4>1. p[2] \in 0 .. MaxId - 1 /\ MaxId \in Nat /\ K[p[1]] \in Nat \ {0}
            /\ nextRepair[p[1]] \in Nat
        BY <3>1, TransferAssumption DEF Symbols, TypeOK
      <4>2. 0 \in 0 .. MaxId - 1
        BY <4>1
      <4> QED
        BY <3>1, <4>1, <4>2 DEF Symbols
    <3>3. ~(nextRepair[p[1]] > 0)
      BY <2>2, <2>3, <3>1, <3>2 DEF SprayInv
    <3>4. p[1] \notin done
      BY <3>3 DEF SprayInv
    <3>5. ~Has(fb, Decoded(p[1])) /\ p[1] \notin acked
      BY <3>1, <3>4 DEF AckedIsWritten
    <3>6. spc' = "spray" => p[1] \in todo' \/ p[1] \in acked'
      BY <1>1, <3>1, DrainResultCases DEF StartRound, Drain
    <3>7. p[1] \notin acked'
      BY <1>1, <3>1, <3>5 DEF StartRound, Drain, AcksIn
    <3> QED
      BY <2>3, <3>6, <3>7
  <2> QED
    BY <2>1, <2>2, <2>3 DEF SprayInv
<1>2. ASSUME NEW b \in Blocks, SprayBlock(b)
      PROVE  SprayInv'
  BY <1>2, SpraySpray
<1>3. CASE FlushBatch
  <2>1. net' \cup packets' = net \cup packets /\ packets' \subseteq packets
    BY <1>3 DEF FlushBatch, Batch
  <2>2. spc = "flush" /\ UNCHANGED <<spc, todo, round, nextRepair, gone, done>>
    BY <1>3 DEF FlushBatch, receiver
  <2> QED
    BY <2>1, <2>2 DEF SprayInv
<1>4. CASE FlushRefused
  BY <1>4 DEF FlushRefused, network, receiver, SprayInv
<1>5. CASE EndRound
  <2>1. /\ spc = "spray" /\ todo = {} /\ spc' = "settle" /\ round' = 1
        /\ UNCHANGED <<net, packets, nextRepair, gone, done>>
    BY <1>5 DEF EndRound, network, receiver
  <2>2. packets = {}
    BY <1>0, <2>1 DEF SprayInv
  <2> QED
    BY <2>1, <2>2 DEF SprayInv, TypeOK
<1>6. CASE WaitFeedback \/ Settle
  <2>1. /\ spc \in {"wait", "settle"} /\ spc' \notin {"spray", "flush", "drain"}
        /\ UNCHANGED <<net, packets, nextRepair, gone, round, todo, done>>
    BY <1>6, DrainResultCases DEF WaitFeedback, Settle, Drain, network, receiver
  <2>2. packets = {}
    BY <1>0, <2>1 DEF SprayInv
  <2> QED
    BY <2>1, <2>2 DEF SprayInv
<1>7. CASE FlushFails \/ BlockSent \/ WaitGivesUp \/ SenderCrash
  <2>1. /\ spc' \in SenderEnds \cup {"drain"}
        /\ spc' = "drain" => spc = "flush" /\ packets = {}
        /\ UNCHANGED <<net, packets, nextRepair, gone, round, todo, done>>
    BY <1>0, <1>7 DEF FlushFails, BlockSent, WaitGivesUp, SenderCrash, network, receiver
  <2> QED
    BY <1>0, <2>1 DEF SprayInv
<1>8. CASE DrainAfterBlock
  <2>1. /\ UNCHANGED <<net, packets, nextRepair, round, todo, gone, done>>
        /\ spc = "drain"
    BY <1>8 DEF DrainAfterBlock, Drain, network, receiver
  <2>2. packets = {}
    BY <1>0, <2>1 DEF SprayInv
  <2> QED
    BY <2>1, <2>2 DEF SprayInv
<1>9. CASE UNCHANGED <<sender, net, done>>
  BY <1>9, SprayQuiet
<1>10. ASSUME NEW p \in net, RecvDatagram(p)
       PROVE  SprayInv'
  BY <1>10, RecvCases, SprayQuiet DEF network
<1>11. ASSUME NEW p \in net, Lose(p)
       PROVE  SprayInv'
  BY <1>9, <1>11 DEF Lose, receiver
<1>12. CASE ReaderNext
  BY <1>9, <1>12 DEF ReaderNext, ReadFrame, ReadEof, network, receiver
<1>13. CASE \/ RecvFails \/ EndBatch \/ WriteAck \/ AcksWritten \/ Tick
            \/ Verify \/ Report \/ WriteFrameFails \/ ReceiverCrash
  BY <1>9, <1>13 DEF RecvFails, EndBatch, WriteAck, AcksWritten, Tick, Verify, Report,
       WriteFrameFails, ReceiverCrash, network, receiver
<1>14. CASE UNCHANGED vars
  BY <1>9, <1>14 DEF vars, network, receiver
<1> QED
  BY <1>1, <1>2, <1>3, <1>4, <1>5, <1>6, <1>7, <1>8, <1>10, <1>11, <1>12, <1>13,
     <1>14 DEF Next, SenderNext, ReceiverNext, Over

(* WaitInv is inductive. *)
LEMMA NextWait ==
  ASSUME TypeOK, WaitInv, [Next]_vars
  PROVE  WaitInv'
<1> USE DEF WaitInv
<1>0. ReceiverEnds = {"ok", "mismatch", "ioerror", "ctlerror", "crashed"}
  BY DEF ReceiverEnds
<1>1. CASE FlushRefused
  BY <1>1 DEF FlushRefused, ReceiverUp, receiver
<1>2. CASE UNCHANGED <<gone, rpc, done>>
  BY <1>2 DEF ReceiverUp
<1>3. CASE SenderNext /\ ~FlushRefused
  BY <1>2, <1>3 DEF SenderNext, StartRound, SprayBlock, FlushBatch, FlushFails, BlockSent,
       DrainAfterBlock, EndRound, Settle, WaitFeedback, WaitGivesUp, Drain, receiver
<1>4. ASSUME NEW p \in net, RecvDatagram(p)
      PROVE  WaitInv'
  BY <1>0, <1>4, RecvCases DEF sender, ReceiverUp
<1>5. CASE RecvFails \/ EndBatch \/ AcksWritten \/ Verify \/ WriteFrameFails \/ ReceiverCrash
  <2>1. /\ UNCHANGED <<gone, done>>
        /\ rpc \in ReceiverEnds => rpc' \in ReceiverEnds
        /\ rpc' = "loop" => done # Blocks
    <3>1. CASE RecvFails \/ EndBatch \/ AcksWritten
      BY <1>0, <3>1 DEF RecvFails, EndBatch, AcksWritten, sender
    <3>2. CASE Verify
      BY <1>0, <3>2 DEF Verify, sender
    <3>3. CASE WriteFrameFails \/ ReceiverCrash
      BY <1>0, <3>3 DEF WriteFrameFails, ReceiverCrash, sender
    <3> QED
      BY <1>5, <3>1, <3>2, <3>3
  <2> QED
    BY <2>1 DEF ReceiverUp
<1>6. CASE Report
  <2>1. rpc = "report" /\ rpc' = verdict /\ UNCHANGED <<gone, done>>
    BY <1>6 DEF Report, sender
  <2> QED
    BY <1>0, <2>1 DEF ReceiverUp, TypeOK
<1>7. CASE WriteAck \/ Tick
  BY <1>2, <1>7 DEF WriteAck, Tick, sender, receiver
<1>8. CASE ReaderNext \/ (\E p \in net : Lose(p)) \/ SenderCrash \/ UNCHANGED vars
  BY <1>2, <1>8 DEF ReaderNext, ReadFrame, ReadEof, Lose, SenderCrash, vars, sender, receiver
<1> QED
  BY <1>1, <1>3, <1>4, <1>5, <1>6, <1>7, <1>8 DEF Next, ReceiverNext, Over

-----------------------------------------------------------------------------
(* The tail of a queue whose Done frame, if any, is its last element.      *)
LEMMA DoneIsLast ==
  ASSUME NEW q \in Seq(Frames), q # <<>>,
         \A i \in 1 .. Len(q) : q[i].type = "done" => i = Len(q)
  PROVE  /\ Head(q).type = "done" => Tail(q) = <<>>
         /\ \A i \in 1 .. Len(Tail(q)) :
               Tail(q)[i].type = "done" => i = Len(Tail(q))
<1> DEFINE n == Len(q)
           t == Tail(q)
           m == Len(t)
<1>1. n \in Nat \ {0}
  BY EmptySeq
<1>2. m = n - 1 /\ t \in Seq(Frames) /\ Head(q) = q[1]
  BY HeadTailProperties
<1>3. ASSUME NEW i \in 1 .. m
      PROVE  t[i] = q[i + 1]
  BY <1>3, HeadTailProperties
<1>4. \A i \in 1 .. n : q[i].type = "done" => i = n
  OBVIOUS
<1>5. t \in Seq(Frames) /\ m = 0 => t = <<>>
  BY EmptySeq
<1>6. SUFFICES /\ Head(q).type = "done" => t = <<>>
               /\ \A i \in 1 .. m : t[i].type = "done" => i = m
  OBVIOUS
<1> HIDE DEF n, t, m
<1>7. ASSUME Head(q).type = "done"
      PROVE  t = <<>>
  <2>1. q[1].type = "done"
    BY <1>2, <1>7, Zenon
  <2>2. 1 = n
    BY <1>1, <1>4, <2>1
  <2> QED
    BY <1>2, <1>5, <2>2
<1>8. ASSUME NEW i \in 1 .. m, t[i].type = "done"
      PROVE  i = m
  <2>1. q[i + 1].type = "done"
    BY <1>3, <1>8, Zenon
  <2>2. i + 1 \in 1 .. n
    BY <1>1, <1>2
  <2>3. i + 1 = n
    BY <1>4, <2>1, <2>2
  <2> QED
    BY <1>1, <1>2, <2>3
<1> QED
  BY <1>7, <1>8

(* Writing a frame keeps the others, and it arrives if the sender is up. *)
LEMMA WriteFrameHas ==
  ASSUME ctl \in Seq(Frames), NEW f \in Frames, WriteFrame(f)
  PROVE  /\ \A m : Has(ctl, m) => Has(ctl', m)
         /\ SenderUp => Has(ctl', f)
<1>1. CASE ctl' = ctl /\ ~SenderUp
  BY <1>1
<1>2. CASE ctl' = Append(ctl, f)
  BY <1>2, HasAppend
<1> QED
  BY <1>1, <1>2 DEF WriteFrame

(* AccountInv is inductive. *)
LEMMA NextAccount ==
  ASSUME TypeOK, VerdictInv, AccountInv, [Next]_vars
  PROVE  AccountInv'
<1> USE DEF AccountInv, SuccessFullyAcked
<1>0. /\ SenderUp <=> spc \notin SenderEnds
      /\ ReceiverUp <=> rpc \notin ReceiverEnds
      /\ SenderUp' <=> spc' \notin SenderEnds
      /\ SenderEnds = {"ok", "failed", "connlost", "nodone", "senderr", "crashed"}
      /\ ReceiverEnds = {"ok", "mismatch", "ioerror", "ctlerror", "crashed"}
  BY DEF SenderUp, ReceiverUp, SenderEnds, ReceiverEnds
<1>1. ASSUME NEW n, n \in {"wait", "spray", "top", "settle"}, Drain(n),
             n = "wait" => gone \/ acked' = Blocks,
             SenderUp, UNCHANGED gone
      PROVE  AccountInv'
  <2>1. /\ fb' = <<>> /\ UNCHANGED <<reader, ctl, network, receiver>>
        /\ \A b \in Blocks : b \in acked' <=> b \in acked \/ Has(fb, Decoded(b))
        /\ spc' = IF DrainResult = "none" THEN n ELSE DrainResult
        /\ acked' \subseteq Blocks
    BY <1>1, DrainAcks DEF Drain, AcksIn, TypeOK
  <2>2. \A m : ~Has(fb', m)
    BY <2>1, HasEmpty
  <2>3. ASSUME spc' = "ok", ~gone
        PROVE  acked' = Blocks
    <3>1. Has(fb, DoneFrame("ok"))
      BY <1>1, <2>1, <2>3, DrainResultCases
    <3>2. rpc = "ok" /\ reader = "exited" /\ ctl = <<>>
      BY <1>1, <3>1 DEF VerdictInv
    <3>3. done = Blocks /\ acks = <<>>
      BY <3>2
    <3>4. \A m : ~Has(ctl, m) /\ ~Has(acks, m)
      BY <3>2, <3>3, HasEmpty
    <3> QED
      BY <1>1, <2>1, <2>3, <3>3, <3>4
  <2>4. done \subseteq Blocks
    BY DEF TypeOK
  <2>5. spc' = "wait" => n = "wait"
    BY <2>1, DrainResultCases
  <2> QED
    BY <1>1, <2>1, <2>2, <2>3, <2>4, <2>5 DEF receiver
<1>2. CASE StartRound
  BY <1>0, <1>1, <1>2 DEF StartRound, Drain, TypeOK, AcksIn
<1>3. CASE DrainAfterBlock
  BY <1>0, <1>1, <1>3 DEF DrainAfterBlock
<1>4. CASE Settle
  BY <1>0, <1>1, <1>4 DEF Settle
<1>5. CASE WaitFeedback
  <2>1. /\ \A m : Has(fb', m) => Has(fb, m)
        /\ Has(fb, Head(fb))
    BY <1>5, HasTail DEF WaitFeedback, TypeOK
  <2>2. spc' # "wait" /\ SenderUp /\ UNCHANGED <<acked, gone, reader, ctl, receiver>>
    BY <1>0, <1>5 DEF WaitFeedback
  <2>3. done \subseteq Blocks
    BY DEF TypeOK
  <2>4. ~gone => acked = Blocks
    BY <1>5 DEF WaitFeedback
  <2> QED
    BY <2>1, <2>2, <2>3, <2>4 DEF receiver
<1>6. CASE ReadFrame
  <2>1. /\ Head(ctl) \in Frames /\ Head(ctl) \in Feedback /\ Has(ctl, Head(ctl))
        /\ \A m : Has(ctl', m) => Has(ctl, m)
        /\ \A m : Has(ctl, m) => m = Head(ctl) \/ Has(ctl', m)
    BY <1>6, HasTail, MessageTypes DEF ReadFrame, TypeOK
  <2>2. \A m : Has(fb', m) <=> Has(fb, m) \/ m = Head(ctl)
    <3>1. fb \in Seq(Feedback) /\ fb' = Append(fb, Head(ctl))
      BY <1>6 DEF ReadFrame, TypeOK
    <3> QED
      BY <2>1, <3>1, HasAppend
  <2>3. /\ Head(ctl).type = "done" => ctl' = <<>>
        /\ \A i \in 1 .. Len(ctl') : ctl'[i].type = "done" => i = Len(ctl')
    BY <1>6, DoneIsLast DEF ReadFrame, TypeOK
  <2>4. reader = "reading" /\ (reader' = "exited" <=> Head(ctl).type = "done")
    BY <1>6 DEF ReadFrame
  <2>5. Has(fb', DoneFrame("ok")) => reader' = "exited"
    BY <2>2, <2>4 DEF DoneFrame
  <2> QED
    BY <1>0, <1>6, <2>1, <2>2, <2>3, <2>4, <2>5 DEF ReadFrame, sender, receiver
<1>7. CASE ReadEof
  <2>1. \A m : Has(fb', m) <=> Has(fb, m) \/ m = Closed
    <3>1. fb \in Seq(Feedback) /\ fb' = Append(fb, Closed) /\ Closed \in Feedback
      BY <1>7, MessageTypes DEF ReadEof, TypeOK
    <3> QED
      BY <3>1, HasAppend
  <2> QED
    BY <1>0, <1>7, <2>1, Distinct DEF ReadEof, sender, receiver
<1>8. ASSUME NEW p \in net, RecvDatagram(p)
      PROVE  AccountInv'
  <2>1. /\ p[1] \in Blocks /\ acks \in Seq(Blocks)
        /\ rpc' = "batch" /\ UNCHANGED <<sender, channel>>
        /\ \/ UNCHANGED <<done, acks>>
           \/ done' = done \cup {p[1]} /\ acks' = Append(acks, p[1])
    BY <1>8, RecvCases DEF TypeOK
  <2>2. CASE UNCHANGED <<done, acks>>
    BY <1>0, <2>1, <2>2 DEF sender, channel
  <2>3. CASE done' = done \cup {p[1]} /\ acks' = Append(acks, p[1])
    <3>1. \A m : Has(acks', m) <=> Has(acks, m) \/ m = p[1]
      <4>1. p[1] \in Blocks /\ acks \in Seq(Blocks) /\ acks' = Append(acks, p[1])
        BY <2>1, <2>3
      <4> HIDE DEF AccountInv
      <4> QED
        BY <4>1, HasAppend
    <3> QED
      BY <1>0, <2>1, <2>3, <3>1 DEF sender, channel
  <2> QED
    BY <2>1, <2>2, <2>3
<1>9. CASE WriteAck
  <2>1. /\ Head(acks) \in Blocks
        /\ \A m : Has(acks, m) => m = Head(acks) \/ Has(acks', m)
    BY <1>9, HasTail DEF WriteAck, TypeOK
  <2>2. /\ \A m : Has(ctl, m) => Has(ctl', m)
        /\ SenderUp => Has(ctl', Decoded(Head(acks)))
    <3>1. /\ ctl \in Seq(Frames) /\ Decoded(Head(acks)) \in Frames
          /\ WriteFrame(Decoded(Head(acks)))
      BY <1>9, <2>1, MessageTypes DEF WriteAck, TypeOK
    <3> HIDE DEF AccountInv
    <3> QED
      BY <3>1, WriteFrameHas
  <2>3. ReceiverUp /\ reader # "exited" /\ rpc' = "ack"
    BY <1>0, <1>9 DEF WriteAck, VerdictInv
  <2>4. \A i \in 1 .. Len(ctl') : ctl'[i].type = "done" => i = Len(ctl')
    <3>1. ASSUME NEW i \in 1 .. Len(ctl), ctl[i].type = "done"
          PROVE  FALSE
      <4>0. ctl \in Seq(Frames)
        BY Zenon DEF TypeOK
      <4>1. ctl[i] \in Frames
        BY <3>1, <4>0, FrameAt, Zenon
      <4>2. ctl[i] = DoneFrame("ok") \/ ctl[i] = DoneFrame("mismatch")
        BY <3>1, <4>1, FrameCases
      <4>3. Has(ctl, DoneFrame("ok")) \/ Has(ctl, DoneFrame("mismatch"))
        BY <3>1, <4>2 DEF Has
      <4> QED
        BY <1>0, <2>3, <4>3 DEF VerdictInv
    <3>2. ctl \in Seq(Frames) /\ Decoded(Head(acks)) \in Frames
      BY <2>1, MessageTypes DEF TypeOK
    <3>3. ctl' = ctl \/ ctl' = Append(ctl, Decoded(Head(acks)))
      BY <1>9 DEF WriteAck, WriteFrame
    <3>4. \A i \in 1 .. Len(ctl) : ctl[i].type # "done"
      BY <3>1
    <3>5. CASE ctl' = ctl
      BY <3>4, <3>5
    <3>6. CASE ctl' = Append(ctl, Decoded(Head(acks)))
      BY <3>2, <3>4, <3>6, AppendDone
    <3> QED
      BY <3>3, <3>5, <3>6
  <2> QED
    BY <1>0, <1>9, <2>1, <2>2, <2>3, <2>4 DEF WriteAck, sender
<1>10. CASE Tick
  <2>1. \A m : Has(ctl, m) => Has(ctl', m)
    <3>1. /\ ctl \in Seq(Frames) /\ Progress \in Frames
          /\ WriteFrame(Progress)
      BY <1>10, MessageTypes DEF Tick, TypeOK
    <3> HIDE DEF AccountInv
    <3> QED
      BY <3>1, WriteFrameHas
  <2>2. ReceiverUp /\ reader # "exited"
    BY <1>0, <1>10 DEF Tick, VerdictInv
  <2>3. \A i \in 1 .. Len(ctl') : ctl'[i].type = "done" => i = Len(ctl')
    <3>1. ASSUME NEW i \in 1 .. Len(ctl), ctl[i].type = "done"
          PROVE  FALSE
      <4>0. ctl \in Seq(Frames)
        BY Zenon DEF TypeOK
      <4>1. ctl[i] \in Frames
        BY <3>1, <4>0, FrameAt, Zenon
      <4>2. ctl[i] = DoneFrame("ok") \/ ctl[i] = DoneFrame("mismatch")
        BY <3>1, <4>1, FrameCases
      <4>3. Has(ctl, DoneFrame("ok")) \/ Has(ctl, DoneFrame("mismatch"))
        BY <3>1, <4>2 DEF Has
      <4> QED
        BY <1>0, <2>2, <4>3 DEF VerdictInv
    <3>2. ctl \in Seq(Frames) /\ Progress \in Frames
      BY MessageTypes DEF TypeOK
    <3>3. ctl' = ctl \/ ctl' = Append(ctl, Progress)
      BY <1>10 DEF Tick, WriteFrame
    <3>4. \A i \in 1 .. Len(ctl) : ctl[i].type # "done"
      BY <3>1
    <3>5. CASE ctl' = ctl
      BY <3>4, <3>5
    <3>6. CASE ctl' = Append(ctl, Progress)
      BY <3>2, <3>4, <3>6, AppendDone
    <3> QED
      BY <3>3, <3>5, <3>6
  <2> QED
    BY <1>0, <1>10, <2>1, <2>2, <2>3 DEF Tick, sender, receiver
<1>11. CASE Report
  <2>0. verdict \in {"ok", "mismatch"}
    BY <1>11 DEF Report, TypeOK, VerdictInv
  <2>1. \A m : Has(ctl, m) => Has(ctl', m)
    <3>1. /\ ctl \in Seq(Frames) /\ DoneFrame(verdict) \in Frames
          /\ WriteFrame(DoneFrame(verdict))
      BY <1>11, <2>0, MessageTypes DEF Report, TypeOK
    <3> HIDE DEF AccountInv
    <3> QED
      BY <3>1, WriteFrameHas
  <2>2. ReceiverUp /\ reader # "exited"
    BY <1>0, <1>11 DEF Report, VerdictInv
  <2>3. \A i \in 1 .. Len(ctl') : ctl'[i].type = "done" => i = Len(ctl')
    <3>1. ASSUME NEW i \in 1 .. Len(ctl), ctl[i].type = "done"
          PROVE  FALSE
      <4>0. ctl \in Seq(Frames)
        BY Zenon DEF TypeOK
      <4>1. ctl[i] \in Frames
        BY <3>1, <4>0, FrameAt, Zenon
      <4>2. ctl[i] = DoneFrame("ok") \/ ctl[i] = DoneFrame("mismatch")
        BY <3>1, <4>1, FrameCases
      <4>3. Has(ctl, DoneFrame("ok")) \/ Has(ctl, DoneFrame("mismatch"))
        BY <3>1, <4>2 DEF Has
      <4> QED
        BY <1>0, <2>2, <4>3 DEF VerdictInv
    <3>2. ctl \in Seq(Frames) /\ DoneFrame(verdict) \in Frames
      BY <2>0, MessageTypes DEF TypeOK
    <3>3. ctl' = ctl \/ ctl' = Append(ctl, DoneFrame(verdict))
      BY <1>11 DEF Report, WriteFrame
    <3>4. \A i \in 1 .. Len(ctl) : ctl[i].type # "done"
      BY <3>1
    <3>5. CASE ctl' = ctl
      BY <3>4, <3>5
    <3>6. CASE ctl' = Append(ctl, DoneFrame(verdict))
      BY <3>2, <3>4, <3>6, AppendDone
    <3> QED
      BY <3>3, <3>5, <3>6
  <2> QED
    BY <1>0, <1>11, <2>0, <2>1, <2>2, <2>3 DEF Report, sender
<1>12. CASE AcksWritten
  BY <1>0, <1>12 DEF AcksWritten, sender, channel
<1>13. CASE RecvFails \/ EndBatch \/ Verify \/ WriteFrameFails \/ ReceiverCrash
  BY <1>0, <1>13 DEF RecvFails, EndBatch, Verify, WriteFrameFails, ReceiverCrash,
       sender, channel
<1>14. CASE /\ UNCHANGED <<acked, channel, receiver>> /\ SenderUp
            /\ spc' \notin {"ok", "wait"} /\ (gone' = gone \/ gone' = TRUE)
  <2>1. /\ UNCHANGED <<ctl, fb, reader, acks, acked, done, rpc>>
        /\ ~gone' => ~gone
    <3> HIDE DEF AccountInv
    <3>1. UNCHANGED <<ctl, fb, reader, acks, acked, done, rpc>>
      BY <1>14 DEF channel, receiver
    <3>2. ~gone' => ~gone
      BY <1>14
    <3> QED
      BY <3>1, <3>2
  <2>2. SenderUp /\ spc' # "ok" /\ spc' # "wait"
    BY <1>14
  <2> QED
    BY <1>0, <2>1, <2>2
<1>15. ASSUME NEW b \in Blocks, SprayBlock(b)
       PROVE  AccountInv'
  <2>1. /\ UNCHANGED <<acked, channel, receiver, gone>> /\ SenderUp
        /\ spc' \in {"spray", "flush"}
    BY <1>0, <1>15 DEF SprayBlock
  <2> QED
    BY <1>14, <2>1
<1>16. CASE FlushBatch \/ FlushRefused \/ FlushFails \/ BlockSent \/ EndRound
            \/ WaitGivesUp \/ SenderCrash
  BY <1>0, <1>14, <1>16 DEF FlushBatch, FlushRefused, FlushFails, BlockSent,
       EndRound, WaitGivesUp, SenderCrash
<1>17. CASE UNCHANGED <<sender, channel, receiver>>
  BY <1>0, <1>17 DEF sender, channel, receiver
<1>18. ASSUME NEW p \in net, Lose(p)
       PROVE  AccountInv'
  BY <1>17, <1>18 DEF Lose
<1>19. CASE UNCHANGED vars
  BY <1>17, <1>19 DEF vars
<1> QED
  BY <1>2, <1>3, <1>4, <1>5, <1>6, <1>7, <1>8, <1>9, <1>10, <1>11, <1>12, <1>13,
     <1>15, <1>16, <1>18, <1>19
     DEF Next, SenderNext, ReaderNext, ReceiverNext, Over

-----------------------------------------------------------------------------
(* The steps that leave the file and the verdict alone: all but receiving  *)
(* a datagram and the hash check.                                          *)
LEMMA QuietSteps ==
  ASSUME [Next]_vars, ~Verify, \A p \in net : ~RecvDatagram(p)
  PROVE  UNCHANGED <<file, done, verdict>>
<1>1. CASE SenderNext
  BY <1>1 DEF SenderNext, StartRound, SprayBlock, FlushBatch, FlushRefused,
       FlushFails, BlockSent, DrainAfterBlock, EndRound, Settle, WaitFeedback,
       WaitGivesUp, Drain, receiver
<1>2. CASE ReaderNext
  BY <1>2 DEF ReaderNext, ReadFrame, ReadEof, receiver
<1>3. CASE ReceiverNext
  BY <1>3 DEF ReceiverNext, RecvFails, EndBatch, WriteAck, AcksWritten, Tick, Report,
       WriteFrameFails, receiver
<1>4. CASE (\E p \in net : Lose(p)) \/ SenderCrash \/ ReceiverCrash
  BY <1>4 DEF Lose, SenderCrash, ReceiverCrash, receiver
<1>5. CASE UNCHANGED vars
  BY <1>5 DEF vars, receiver
<1> QED
  BY <1>1, <1>2, <1>3, <1>4, <1>5 DEF Next, Over

(* FileInv is inductive. *)
LEMMA NextFile ==
  ASSUME TypeOK, FileInv, [Next]_vars
  PROVE  FileInv'
<1> USE DEF FileInv
<1>1. ASSUME NEW p \in net, RecvDatagram(p)
      PROVE  FileInv'
  BY <1>1, RecvCases DEF TypeOK, Unwritten
<1>2. CASE Verify
  BY <1>2 DEF Verify
<1> QED
  BY <1>1, <1>2, QuietSteps

(* The inductive invariant holds in every reachable state. *)
THEOREM TransferInvariant == Spec => []IInv
<1>1. IInv /\ [Next]_vars => IInv'
  BY NextTypeOK, NextAcked, NextVerdict, NextFresh, NextSpray, NextWait, NextAccount,
     NextFile DEF IInv
<1> QED
  BY <1>1, InitIInv, PTL DEF Spec

(* The variables of a transfer keep their types. *)
THEOREM TransferTypeOK == Spec => []TypeOK
<1>1. IInv => TypeOK
  BY DEF IInv
<1> QED
  BY <1>1, TransferInvariant, PTL

(* The sender's success means a verified, right file, whatever the network *)
(* and the faults did.                                                     *)
THEOREM TransferVerifiedSuccess == Spec => []VerifiedSuccess
<1>1. IInv => VerifiedSuccess
  BY DEF IInv, VerdictInv, VerifiedSuccess
<1> QED
  BY <1>1, TransferInvariant, PTL

(* Only blocks that are written are acknowledged, so the sender never      *)
(* stops repairing a missing one.                                          *)
THEOREM TransferAckedIsWritten == Spec => []AckedIsWritten
<1>1. IInv => AckedIsWritten
  BY DEF IInv
<1> QED
  BY <1>1, TransferInvariant, PTL

(* Every symbol the sender puts on the wire is a new one and next_repair   *)
(* leaves no gap: what a block's rounds encode is 0 .. K + next_repair - 1 *)
(* without repetition, whatever was acknowledged in between.               *)
THEOREM TransferFreshSymbols == Spec => []FreshSymbols
<1>1. ASSUME IInv
      PROVE  FreshSymbols
  <2>1. TypeOK /\ FreshInv /\ SprayInv
    BY <1>1 DEF IInv
  <2>2. net \cup packets \subseteq Symbols
    BY <2>1 DEF TypeOK
  <2> QED
    BY <2>1, <2>2 DEF FreshInv, SprayInv, FreshSymbols
<1> QED
  BY <1>1, TransferInvariant, PTL

(* From the second round on, and until a datagram is refused, every source *)
(* symbol of every block has been put on the wire: no ack that comes in    *)
(* the middle of round 0 makes it skip a block, so what later rounds send  *)
(* is repair only.                                                         *)
SourceSent ==
  round = 1 /\ ~gone => \A p \in Symbols : p[2] < K[p[1]] => p \in net

(* The round loop of the sender: round 0 covers every block.               *)
THEOREM TransferSourceSent == Spec => []SourceSent
<1>1. ASSUME IInv, round = 1, ~gone, NEW p \in Symbols, p[2] < K[p[1]]
      PROVE  p \in net
  <2>1. p[1] \in Blocks /\ p[2] \in 0 .. MaxId - 1
    BY DEF Symbols
  <2>2. K[p[1]] \in Nat /\ nextRepair[p[1]] \in Nat /\ MaxId \in Nat
    BY <1>1, <2>1, TransferAssumption DEF IInv, TypeOK
  <2>3. nextRepair[p[1]] > 0 /\ p[2] < K[p[1]] + nextRepair[p[1]]
    <3>1. nextRepair[p[1]] > 0
      BY <1>1, Zenon DEF IInv, SprayInv
    <3> QED
      BY <1>1, <2>1, <2>2, <3>1
  <2>4. p \in net \cup packets
    BY <1>1, <2>3, Zenon DEF IInv, SprayInv
  <2>5. p \notin packets
    <3>1. ~(p[2] >= K[p[1]])
      BY <1>1, <2>1, <2>2
    <3> QED
      BY <1>1, <3>1, Zenon DEF IInv, SprayInv
  <2> QED
    BY <2>4, <2>5
<1>2. IInv => SourceSent
  BY <1>1 DEF SourceSent
<1> QED
  BY <1>2, TransferInvariant, PTL

(* The two sides never wait for each other: when the sender has stopped    *)
(* spraying and waits for Done, the receiver is past its datagram loop, so *)
(* it will write Done or its end of the stream will be seen closed.        *)
NoStandoff == spc = "wait" => rpc # "loop"

(* The sender's wait for Done against handle_transfer's receive loop.      *)
THEOREM TransferNoStandoff == Spec => []NoStandoff
<1>1. ASSUME IInv, spc = "wait"
      PROVE  rpc # "loop"
  <2>1. CASE gone
    BY <1>1, <2>1 DEF IInv, WaitInv, ReceiverUp, ReceiverEnds
  <2>2. CASE ~gone
    <3>1. acked = Blocks /\ done \subseteq Blocks
      BY <1>1, <2>2 DEF IInv, AccountInv, TypeOK
    <3>2. done = Blocks
      BY <1>1, <3>1 DEF IInv, AckedIsWritten
    <3> QED
      BY <1>1, <3>2 DEF IInv, WaitInv
  <2> QED
    BY <2>1, <2>2
<1>2. IInv => NoStandoff
  BY <1>1 DEF NoStandoff
<1> QED
  BY <1>2, TransferInvariant, PTL

(* A sender that ends with success has seen every ack. *)
THEOREM TransferFullyAcked == Spec => []SuccessFullyAcked
<1>1. IInv => SuccessFullyAcked
  BY DEF IInv, AccountInv
<1> QED
  BY <1>1, TransferInvariant, PTL

(* The sender never takes a receiver that verified the file for a failed   *)
(* or lost one.                                                            *)
THEOREM TransferNoFalseFailure == Spec => []NoFalseFailure
<1>1. IInv => NoFalseFailure
  BY DEF IInv, VerdictInv, NoFalseFailure
<1> QED
  BY <1>1, TransferInvariant, PTL

(* The whole protocol implements FileDelivery: a block is written until it *)
(* is right, hashed once when all are there, and reported right only then. *)
THEOREM TransferImplements == Spec => ImplementsFileDelivery
<1>1. Init => Delivery!Init
  BY DEF Init, Delivery!Init, SenderUp, SenderEnds
<1>2. ASSUME IInv, IInv', [Next]_vars
      PROVE  [Delivery!Next]_(Delivery!vars)
  <2>1. ASSUME NEW p \in net, RecvDatagram(p)
        PROVE  [Delivery!Next]_(Delivery!vars)
    <3>1. TypeOK /\ FileInv /\ VerdictInv
      BY <1>2 DEF IInv
    <3>2. verdict = "none" /\ UNCHANGED <<verdict, spc>> /\ p[1] \in Blocks
      BY <2>1, <3>1, RecvCases DEF VerdictInv, sender
    <3>3. CASE UNCHANGED file
      BY <3>2, <3>3 DEF Delivery!vars, SenderUp
    <3>4. CASE /\ p[1] \notin done
               /\ \E c \in {"good", "bad", "torn"} : file' = [file EXCEPT ![p[1]] = c]
      <4>1. file[p[1]] # "good"
        BY <3>1, <3>2, <3>4 DEF FileInv
      <4>2. Delivery!WriteBlock(p[1])
        BY <3>2, <3>4, <4>1 DEF Delivery!WriteBlock, SenderUp
      <4> QED
        BY <3>2, <4>2 DEF Delivery!Next
    <3> QED
      BY <2>1, <3>1, <3>3, <3>4, RecvCases
  <2>2. CASE Verify
    <3>1. UNCHANGED <<spc, file>> /\ rpc = "verify"
      BY <2>2 DEF Verify, sender
    <3>2. verdict = "none" /\ \A b \in Blocks : file[b] \in {"good", "bad"}
      BY <1>2, <3>1 DEF IInv, TypeOK, VerdictInv, AccountInv, FileInv, Unwritten
    <3>3. \/ verdict' = IF \A b \in Blocks : file[b] = "good" THEN "ok" ELSE "mismatch"
          \/ UNCHANGED verdict
      BY <2>2 DEF Verify
    <3> QED
      BY <3>1, <3>2, <3>3 DEF Delivery!Next, Delivery!Verify, Delivery!vars, SenderUp
  <2>3. CASE ~Verify /\ \A p \in net : ~RecvDatagram(p)
    <3>1. UNCHANGED <<file, done, verdict>>
      BY <1>2, <2>3, QuietSteps
    <3>2. SenderUp \/ UNCHANGED spc
      BY <1>2 DEF Next, SenderNext, ReaderNext, ReceiverNext, Over, StartRound,
           SprayBlock, FlushBatch, FlushRefused, FlushFails, BlockSent,
           DrainAfterBlock, EndRound, Settle, WaitFeedback, WaitGivesUp, ReadFrame,
           ReadEof, RecvDatagram, RecvFails, EndBatch, WriteAck, AcksWritten, Tick,
           Verify, Report, WriteFrameFails, Lose, SenderCrash, ReceiverCrash,
           SenderUp, SenderEnds, sender, vars
    <3>3. spc' = "ok" => verdict = "ok"
      BY <1>2, <3>1 DEF IInv, VerdictInv
    <3>4. CASE UNCHANGED spc
      BY <3>1, <3>4 DEF Delivery!vars, SenderUp
    <3>5. CASE SenderUp
      <4>1. CASE SenderUp'
        BY <3>1, <3>5, <4>1 DEF Delivery!vars
      <4>2. CASE ~SenderUp' /\ spc' = "ok"
        BY <3>1, <3>3, <3>5, <4>2 DEF Delivery!Next, Delivery!Succeed
      <4>3. CASE ~SenderUp' /\ spc' # "ok"
        BY <3>1, <3>5, <4>3 DEF Delivery!Next, Delivery!Fail
      <4> QED
        BY <4>1, <4>2, <4>3
    <3> QED
      BY <3>2, <3>4, <3>5
  <2> QED
    BY <2>1, <2>2, <2>3
<1> QED
  BY <1>1, <1>2, TransferInvariant, PTL DEF Spec, ImplementsFileDelivery, Delivery!Spec


=============================================================================
