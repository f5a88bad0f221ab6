------------------------------ MODULE Transfer ------------------------------
(***************************************************************************)
(* One transfer after the handshake: the sender's spray loop and feedback  *)
(* reader task (src/src/send.rs, transfer), the receiver's symbol loop,    *)
(* verification and report (src/src/recv.rs, handle_transfer), the TCP     *)
(* control stream from receiver to sender (a FIFO) and the UDP symbol      *)
(* plane between them.                                                     *)
(*                                                                         *)
(* A symbol is <<block, id>>: ids below K[block] are source symbols, the   *)
(* others repair symbols.  net is the set of all symbols put on the wire;  *)
(* the network hands over any of them in any order and any number of       *)
(* times, and never hands over those in lost.  The RaptorQ codec is        *)
(* external: K distinct symbols of a block may be enough to decode it, all *)
(* its source symbols or K + Slack distinct ones always are.               *)
(*                                                                         *)
(* Rates, sizes and times are abstracted: a round adds any number of       *)
(* repair symbols from a given set, and a timeout may fire whenever the    *)
(* thing it waits for is not there.                                        *)
(***************************************************************************)
EXTENDS Integers, Sequences, FiniteSets

CONSTANTS NumBlocks,     \* layout.num_blocks
          K,             \* K[b]: source symbols of block b
          Slack,         \* symbols beyond K[b] after which decoding is sure
          Round0Repair,  \* possible repair counts per block in round 0
          LaterRepair,   \* possible repair counts per block in later rounds
          MaxSegs,       \* datagrams per GSO batch
          Sealed,        \* sealed (TRUE) or plaintext (FALSE) symbol plane
          Faults,        \* which of AllFaults may happen
          MaxId,         \* bound: symbols with ids from here on are lost
          MaxLoss,       \* bound on the symbols lost below MaxId
          MaxProgress    \* bound on the Progress frames on their way

Blocks == 0 .. NumBlocks - 1

AllFaults == {"crash", "timeout", "disk", "socket", "corrupt"}

ASSUME TransferAssumption ==
  /\ NumBlocks \in Nat \ {0}
  /\ K \in [Blocks -> Nat \ {0}]
  /\ Slack \in Nat
  /\ Round0Repair \subseteq Nat \ {0} /\ LaterRepair \subseteq Nat \ {0}
  /\ MaxSegs \in Nat \ {0}
  /\ Sealed \in BOOLEAN
  /\ Faults \subseteq AllFaults
  /\ MaxId \in Nat /\ MaxLoss \in Nat /\ MaxProgress \in Nat

VARIABLES
  spc,        \* where the sender's main task is, or how it ended
  acked,      \* blocks the sender knows to be decoded
  todo,       \* blocks of `pending` this round has not come to yet
  round,      \* 0 in round 0, 1 in every later round
  nextRepair, \* next_repair
  packets,    \* encoded symbols of the current block not sent yet
  gone,       \* receiver_gone
  reader,     \* the feedback reader task
  fb,         \* the feedback channel from the reader task to the main task
  ctl,        \* frames on the control stream to the sender
  net,        \* symbols put on the wire
  lost,       \* those the network will never deliver
  rpc,        \* where the receiver is, or how it ended
  got,        \* symbols each pending block's decoder holds
  tainted,    \* pending blocks whose decoder was fed a corrupt symbol
  done,       \* blocks in state Block::Done
  file,       \* what each block of the output file holds
  acks,       \* pending_acks
  ioErr,      \* io_err.is_some()
  heard,      \* pkts > 0
  verdict     \* the outcome of the hash check

sender   == <<spc, acked, todo, round, nextRepair, packets, gone>>
channel  == <<reader, fb, ctl>>
network  == <<net, lost>>
receiver == <<rpc, got, tainted, done, file, acks, ioErr, heard, verdict>>
vars     == <<sender, channel, network, receiver>>

SenderEnds   == {"ok", "failed", "connlost", "nodone", "senderr", "crashed"}
ReceiverEnds == {"ok", "mismatch", "ioerror", "ctlerror", "crashed"}
SenderUp     == spc \notin SenderEnds
ReceiverUp   == rpc \notin ReceiverEnds

Symbols == Blocks \X (0 .. MaxId - 1)

Decoded(b)   == [type |-> "decoded", block |-> b]
Progress     == [type |-> "progress"]
DoneFrame(v) == [type |-> "done", hash |-> v]
Closed       == [type |-> "closed"]

Frames   == {Decoded(b) : b \in Blocks} \cup {Progress}
              \cup {DoneFrame(v) : v \in {"ok", "mismatch"}}
Feedback == Frames \cup {Closed}

Has(q, m) == \E i \in 1 .. Len(q) : q[i] = m

-----------------------------------------------------------------------------
Init ==
  /\ spc = "top"      /\ acked = {}   /\ todo = {}     /\ round = 0
  /\ nextRepair = [b \in Blocks |-> 0] /\ packets = {} /\ gone = FALSE
  /\ reader = "reading" /\ fb = <<>>  /\ ctl = <<>>
  /\ net = {}         /\ lost = {}
  /\ rpc = "loop"     /\ got = [b \in Blocks |-> {}]   /\ tainted = {}
  /\ done = {}        /\ file = [b \in Blocks |-> "hole"]
  /\ acks = <<>>      /\ ioErr = FALSE /\ heard = FALSE /\ verdict = "none"

-----------------------------------------------------------------------------
(* The sender: feedback.                                                   *)

(* The acknowledgements that are waiting in queue q. *)
AcksIn(q) == {b \in Blocks : Has(q, Decoded(b))}

(* A drain_feedback that takes a closed channel for an empty one. *)
DeafDrainResult ==
  IF Has(fb, DoneFrame("ok")) THEN "ok"
  ELSE IF Has(fb, DoneFrame("mismatch")) THEN "failed"
  ELSE "none"

(* How drain_feedback ends: with the receiver's Done, with an error, or    *)
(* with an empty channel and nothing to report.                            *)
DrainResult ==
  IF Has(fb, DoneFrame("ok")) THEN "ok"
  ELSE IF Has(fb, DoneFrame("mismatch")) THEN "failed"
  ELSE IF Has(fb, Closed) \/ reader = "exited" THEN "connlost"
  ELSE "none"

(* drain_feedback, and where the main task goes when nothing ended it. *)
Drain(next) ==
  /\ fb' = <<>>
  /\ acked' = acked \cup AcksIn(fb)
  /\ spc' = IF DrainResult = "none" THEN next ELSE DrainResult
  /\ UNCHANGED <<reader, ctl, network, receiver>>

(* The feedback reader task takes one frame off the control stream; it     *)
(* ends with the Done frame.                                               *)
ReadFrame ==
  /\ SenderUp /\ reader = "reading" /\ ctl # <<>>
  /\ fb' = Append(fb, Head(ctl))
  /\ ctl' = Tail(ctl)
  /\ reader' = IF Head(ctl).type = "done" THEN "exited" ELSE "reading"
  /\ UNCHANGED <<sender, network, receiver>>

(* A reader task that sees the end of the stream before the frames in it. *)
EagerReadEof ==
  /\ SenderUp /\ reader = "reading" /\ ~ReceiverUp
  /\ fb' = Append(fb, Closed)
  /\ reader' = "exited"
  /\ UNCHANGED <<ctl, sender, network, receiver>>

(* The reader task finds the control stream closed. *)
ReadEof ==
  /\ SenderUp /\ reader = "reading" /\ ctl = <<>> /\ ~ReceiverUp
  /\ fb' = Append(fb, Closed)
  /\ reader' = "exited"
  /\ UNCHANGED <<ctl, sender, network, receiver>>

-----------------------------------------------------------------------------
(* The sender: the spray loop.                                             *)

(* Top of the loop: drain, collect the pending blocks, and either start a  *)
(* round or wait for Done.                                                 *)
StartRound ==
  /\ spc = "top"
  /\ LET pending == Blocks \ acked'
         waits   == pending = {} \/ gone
     IN  /\ Drain(IF waits THEN "wait" ELSE "spray")
         /\ todo' = IF waits THEN {} ELSE pending
  /\ UNCHANGED <<round, nextRepair, packets, gone>>

(* The ids of the symbols the round encodes for block b, n of them repair. *)
RoundIds(b, n) ==
  (IF round = 0 THEN 0 .. K[b] - 1 ELSE {})
    \cup (K[b] + nextRepair[b]) .. (K[b] + nextRepair[b] + n - 1)

MinOf(m, n) == IF m <= n THEN m ELSE n

RepairCounts == IF round = 0 THEN Round0Repair ELSE LaterRepair

(* SprayBlock that does not advance next_repair. *)
StaleSprayBlock(b) ==
  /\ spc = "spray" /\ b \in todo /\ \A c \in todo : b <= c
  /\ todo' = todo \ {b}
  /\ b \notin acked
  /\ \E n \in RepairCounts :
        packets' = {<<b, i>> : i \in RoundIds(b, n) \cap 0 .. MaxId - 1}
  /\ spc' = "flush"
  /\ UNCHANGED <<nextRepair, acked, round, gone, channel, network, receiver>>

(* One pending block of the round: skipped if its ack came mid-round, else *)
(* its symbols are encoded.                                                *)
SprayBlock(b) ==
  /\ spc = "spray" /\ b \in todo /\ \A c \in todo : b <= c
  /\ todo' = todo \ {b}
  /\ \/ /\ b \in acked
        /\ UNCHANGED <<spc, nextRepair, packets>>
     \/ /\ b \notin acked
        /\ \E n \in RepairCounts :
              /\ packets' = {<<b, i>> : i \in RoundIds(b, n) \cap 0 .. MaxId - 1}
              /\ nextRepair' = [nextRepair EXCEPT ![b] = MinOf(@ + n, MaxId)]
        /\ spc' = "flush"
  /\ UNCHANGED <<acked, round, gone, channel, network, receiver>>

(* The next GSO batch: the MaxSegs lowest ids left. *)
Batch == {p \in packets : Cardinality({q \in packets : q[2] < p[2]}) < MaxSegs}

(* flush_batch succeeds: the datagrams are on the wire (or, with a closed  *)
(* receiver socket, go nowhere).                                           *)
FlushBatch ==
  /\ spc = "flush" /\ packets # {}
  /\ net' = net \cup Batch
  /\ packets' = packets \ Batch
  /\ UNCHANGED <<spc, acked, todo, round, nextRepair, gone, lost, channel, receiver>>

(* flush_batch reports ECONNREFUSED: the round ends there. *)
FlushRefused ==
  /\ spc = "flush" /\ packets # {} /\ ~ReceiverUp
  /\ gone' = TRUE
  /\ packets' = {} /\ todo' = {}
  /\ round' = 1
  /\ spc' = "settle"
  /\ UNCHANGED <<acked, nextRepair, channel, network, receiver>>

(* flush_batch fails with any other socket error. *)
FlushFails ==
  /\ spc = "flush" /\ packets # {} /\ "socket" \in Faults
  /\ spc' = "senderr"
  /\ UNCHANGED <<acked, todo, round, nextRepair, packets, gone, channel, network, receiver>>

BlockSent ==
  /\ spc = "flush" /\ packets = {}
  /\ spc' = "drain"
  /\ UNCHANGED <<acked, todo, round, nextRepair, packets, gone, channel, network, receiver>>

(* The drain after each block. *)
DrainAfterBlock ==
  /\ spc = "drain"
  /\ Drain("spray")
  /\ UNCHANGED <<todo, round, nextRepair, packets, gone>>

EndRound ==
  /\ spc = "spray" /\ todo = {}
  /\ round' = 1
  /\ spc' = "settle"
  /\ UNCHANGED <<acked, todo, nextRepair, packets, gone, channel, network, receiver>>

(* An ack-settle that waits until everything is acknowledged. *)
PatientSettle ==
  /\ spc = "settle"
  /\ Drain(IF acked' = Blocks \/ gone THEN "top" ELSE "settle")
  /\ UNCHANGED <<todo, round, nextRepair, packets, gone>>

(* An ack-settle that compares with the count from before the transfer. *)
HoistedSettle ==
  /\ spc = "settle"
  /\ Drain(IF acked' = {} \/ acked' = Blocks THEN "top" ELSE "settle")
  /\ UNCHANGED <<todo, round, nextRepair, packets, gone>>

(* Ack-settle: wait 50 ms, drain, and go on only if no ack came. *)
Settle ==
  /\ spc = "settle"
  /\ Drain(IF acked' = acked \/ acked' = Blocks THEN "top" ELSE "settle")
  /\ UNCHANGED <<todo, round, nextRepair, packets, gone>>

(* Waiting for Done: any other feedback is thrown away and the loop starts *)
(* over.                                                                   *)
WaitFeedback ==
  /\ spc = "wait" /\ fb # <<>>
  /\ fb' = Tail(fb)
  /\ spc' = CASE Head(fb) = DoneFrame("ok")  -> "ok"
              [] Head(fb) = DoneFrame("mismatch") -> "failed"
              [] OTHER                       -> "top"
  /\ UNCHANGED <<acked, todo, round, nextRepair, packets, gone,
                 reader, ctl, network, receiver>>

(* The channel is closed, or 10 s pass. *)
WaitGivesUp ==
  /\ spc = "wait" /\ fb = <<>>
  /\ reader = "exited" \/ "timeout" \in Faults
  /\ spc' = "nodone"
  /\ UNCHANGED <<acked, todo, round, nextRepair, packets, gone, channel, network, receiver>>

-----------------------------------------------------------------------------
(* The network.                                                            *)

Lose(p) ==
  /\ p \in net \ lost
  /\ Cardinality(lost) < MaxLoss
  /\ lost' = lost \cup {p}
  /\ UNCHANGED <<net, sender, channel, receiver>>

-----------------------------------------------------------------------------
(* The receiver.                                                           *)

(* write_frame on the control stream: once the sender is gone the kernel   *)
(* may still take the bytes.                                               *)
WriteFrame(f) == ctl' = IF SenderUp THEN Append(ctl, f) ELSE ctl

(* What the codec may do with a set of symbols of block b. *)
MayDecode(b, ids)  == Cardinality(ids) >= K[b]
MustDecode(b, ids) == \/ Cardinality(ids) >= K[b] + Slack
                      \/ 0 .. K[b] - 1 \subseteq ids

(* Contents of a block that was never written as a whole. *)
Unwritten == {"hole", "torn"}

(* Content of a decoded block: right unless a corrupt symbol went in. *)
Content(b, taint) == IF b \in taint THEN {"good", "bad"} ELSE {"good"}

(* The decoder of b holds ids after this symbol and returns nothing. *)
KeepSymbol(b, ids, taint) ==
  /\ ~MustDecode(b, ids)
  /\ got' = [got EXCEPT ![b] = ids]
  /\ tainted' = taint
  /\ UNCHANGED <<done, file, acks, ioErr>>

(* FinishBlock that leaves the block pending. *)
ReopenedFinishBlock(b, ids, taint) ==
  /\ MayDecode(b, ids)
  /\ \E c \in Content(b, taint) : file' = [file EXCEPT ![b] = c]
  /\ acks' = IF b \in done THEN acks ELSE Append(acks, b)
  /\ got' = [got EXCEPT ![b] = {}]
  /\ tainted' = taint \ {b}
  /\ UNCHANGED <<done, ioErr>>

(* The decoder of b returns the block and it is written. *)
FinishBlock(b, ids, taint) ==
  /\ MayDecode(b, ids)
  /\ \E c \in Content(b, taint) : file' = [file EXCEPT ![b] = c]
  /\ done' = done \cup {b}
  /\ acks' = Append(acks, b)
  /\ got' = [got EXCEPT ![b] = {}]
  /\ tainted' = taint \ {b}
  /\ UNCHANGED ioErr

(* A failed write that is remembered, while the block is taken as done. *)
AckingWriteFails(b, ids, taint) ==
  /\ MayDecode(b, ids) /\ "disk" \in Faults
  /\ file' = [file EXCEPT ![b] = "torn"]
  /\ ioErr' = TRUE
  /\ done' = done \cup {b}
  /\ acks' = Append(acks, b)
  /\ got' = [got EXCEPT ![b] = {}]
  /\ tainted' = taint \ {b}

(* The decoder of b returns the block and writing it fails part-way. *)
WriteFails(b, ids, taint) ==
  /\ MayDecode(b, ids) /\ "disk" \in Faults
  /\ file' = [file EXCEPT ![b] = "torn"]
  /\ ioErr' = TRUE
  /\ got' = [got EXCEPT ![b] = ids]
  /\ tainted' = taint
  /\ UNCHANGED <<done, acks>>

(* The closure of recv_batch on one datagram of a batch.  A plaintext      *)
(* datagram may be corrupt; the sealed plane drops those.                  *)
RecvDatagram(p) ==
  /\ rpc \in {"loop", "batch"}
  /\ p \in net \ lost
  /\ rpc' = "batch"
  /\ heard' = TRUE
  /\ \/ /\ p[1] \in done
        /\ UNCHANGED <<got, tainted, done, file, acks, ioErr>>
     \/ /\ p[1] \notin done
        /\ \E corrupt \in IF Sealed \/ "corrupt" \notin Faults THEN {FALSE} ELSE BOOLEAN :
             LET b     == p[1]
                 ids   == got[b] \cup {p[2]}
                 taint == IF corrupt THEN tainted \cup {b} ELSE tainted
             IN  \/ KeepSymbol(b, ids, taint)
                 \/ FinishBlock(b, ids, taint)
                 \/ WriteFails(b, ids, taint)
  /\ UNCHANGED <<verdict, sender, channel, network>>

(* EndBatch that verifies as soon as every block is decoded. *)
HastyEndBatch ==
  /\ rpc = "batch"
  /\ rpc' = IF ioErr THEN "ioerror" ELSE IF done = Blocks THEN "verify" ELSE "ack"
  /\ UNCHANGED <<got, tainted, done, file, acks, ioErr, heard, verdict,
                 sender, channel, network>>

(* recvmmsg fails: no datagram was taken. *)
RecvFails ==
  /\ rpc = "loop" /\ "socket" \in Faults
  /\ rpc' = "ioerror"
  /\ UNCHANGED <<got, tainted, done, file, acks, ioErr, heard, verdict,
                 sender, channel, network>>

(* After the batch: give up on a failed write, else flush the acks. *)
EndBatch ==
  /\ rpc = "batch"
  /\ rpc' = IF ioErr THEN "ioerror" ELSE "ack"
  /\ UNCHANGED <<got, tainted, done, file, acks, ioErr, heard, verdict,
                 sender, channel, network>>

WriteAck ==
  /\ rpc = "ack" /\ acks # <<>>
  /\ WriteFrame(Decoded(Head(acks)))
  /\ acks' = Tail(acks)
  /\ UNCHANGED <<rpc, got, tainted, done, file, ioErr, heard, verdict,
                 sender, reader, fb, network>>

(* All acks written: the loop goes on while a block is missing. *)
AcksWritten ==
  /\ rpc = "ack" /\ acks = <<>>
  /\ rpc' = IF done = Blocks THEN "verify" ELSE "loop"
  /\ UNCHANGED <<got, tainted, done, file, acks, ioErr, heard, verdict,
                 sender, channel, network>>

(* The 100 ms ticker: a Progress frame, once anything was received. *)
Tick ==
  /\ rpc = "loop" /\ heard
  /\ Cardinality({i \in 1 .. Len(ctl) : ctl[i] = Progress})
       + Cardinality({i \in 1 .. Len(fb) : fb[i] = Progress}) < MaxProgress
  /\ WriteFrame(Progress)
  /\ UNCHANGED <<reader, fb, sender, network, receiver>>

(* Verify that trusts the decoder. *)
TrustingVerify ==
  /\ rpc = "verify"
  /\ verdict' = "ok"
  /\ rpc' = "report"
  /\ UNCHANGED <<got, tainted, done, file, acks, ioErr, heard,
                 sender, channel, network>>

(* sync_all and sha256_file. *)
Verify ==
  /\ rpc = "verify"
  /\ \/ /\ verdict' = IF \A b \in Blocks : file[b] = "good" THEN "ok" ELSE "mismatch"
        /\ rpc' = "report"
     \/ /\ "disk" \in Faults
        /\ rpc' = "ioerror"
        /\ UNCHANGED verdict
  /\ UNCHANGED <<got, tainted, done, file, acks, ioErr, heard,
                 sender, channel, network>>

(* The Done frame, and the end of the receiver. *)
Report ==
  /\ rpc = "report"
  /\ WriteFrame(DoneFrame(verdict))
  /\ rpc' = verdict
  /\ UNCHANGED <<got, tainted, done, file, acks, ioErr, heard, verdict,
                 sender, reader, fb, network>>

(* A receiver that ignores a failed Progress write. *)
QuietWriteFrameFails ==
  /\ ~SenderUp
  /\ (rpc = "ack" /\ acks # <<>>) \/ rpc = "report"
  /\ rpc' = "ctlerror"
  /\ UNCHANGED <<got, tainted, done, file, acks, ioErr, heard, verdict,
                 sender, channel, network>>

(* Any write on the control stream fails once the sender is gone. *)
WriteFrameFails ==
  /\ ~SenderUp
  /\ \/ rpc = "ack" /\ acks # <<>>
     \/ rpc = "loop" /\ heard
     \/ rpc = "report"
  /\ rpc' = "ctlerror"
  /\ UNCHANGED <<got, tainted, done, file, acks, ioErr, heard, verdict,
                 sender, channel, network>>

-----------------------------------------------------------------------------
(* Either process is killed; its sockets close.                            *)

SenderCrash ==
  /\ "crash" \in Faults /\ SenderUp
  /\ spc' = "crashed"
  /\ UNCHANGED <<acked, todo, round, nextRepair, packets, gone, channel, network, receiver>>

ReceiverCrash ==
  /\ "crash" \in Faults /\ ReceiverUp
  /\ rpc' = "crashed"
  /\ UNCHANGED <<got, tainted, done, file, acks, ioErr, heard, verdict,
                 sender, channel, network>>

-----------------------------------------------------------------------------
SenderNext ==
  \/ StartRound
  \/ \E b \in Blocks : SprayBlock(b)
  \/ FlushBatch \/ FlushRefused \/ FlushFails \/ BlockSent
  \/ DrainAfterBlock \/ EndRound \/ Settle
  \/ WaitFeedback \/ WaitGivesUp

ReaderNext == ReadFrame \/ ReadEof

ReceiverNext ==
  \/ \E p \in net : RecvDatagram(p)
  \/ RecvFails \/ EndBatch \/ WriteAck \/ AcksWritten \/ Tick
  \/ Verify \/ Report \/ WriteFrameFails

(* Both sides have ended, or the receiver waits for a datagram no one      *)
(* sends.                                                                  *)
Over == /\ ~SenderUp
        /\ ~ReceiverUp \/ (rpc = "loop" /\ ~heard)
        /\ UNCHANGED vars

Next ==
  \/ SenderNext
  \/ ReaderNext
  \/ ReceiverNext
  \/ \E p \in net : Lose(p)
  \/ SenderCrash \/ ReceiverCrash
  \/ Over

Spec == Init /\ [][Next]_vars

(* The receiver reads a symbol of block b that it can still use. *)
RecvFresh(b) ==
  \E p \in net : p[1] = b /\ b \notin done /\ p[2] \notin got[b] /\ RecvDatagram(p)

(* The sender's reader task and the receiver are scheduled; a receiver     *)
(* that keeps reading gets the symbols of each block that are not lost;    *)
(* writing to a closed stream fails in the end.                            *)
Fairness ==
  /\ WF_vars(ReaderNext)
  /\ WF_vars(EndBatch \/ WriteAck \/ AcksWritten \/ Verify \/ Report)
  /\ SF_vars(WriteFrameFails)
  /\ \A b \in Blocks : SF_vars(RecvFresh(b))

-----------------------------------------------------------------------------
(* The variables have their types. *)
TypeOK ==
  /\ spc \in {"top", "spray", "flush", "drain", "settle", "wait"} \cup SenderEnds
  /\ acked \subseteq Blocks /\ todo \subseteq Blocks /\ round \in {0, 1}
  /\ nextRepair \in [Blocks -> Nat] /\ packets \subseteq Symbols
  /\ gone \in BOOLEAN
  /\ reader \in {"reading", "exited"}
  /\ fb \in Seq(Feedback) /\ ctl \in Seq(Frames)
  /\ net \subseteq Symbols /\ lost \subseteq net
  /\ rpc \in {"loop", "batch", "ack", "verify", "report"} \cup ReceiverEnds
  /\ got \in [Blocks -> SUBSET (0 .. MaxId - 1)]
  /\ tainted \subseteq Blocks /\ done \subseteq Blocks
  /\ file \in [Blocks -> Unwritten \cup {"good", "bad"}]
  /\ acks \in Seq(Blocks)
  /\ ioErr \in BOOLEAN /\ heard \in BOOLEAN
  /\ verdict \in {"none", "ok", "mismatch"}

(* The sender reports success only when the receiver has verified and      *)
(* every block of the output file holds its right content, whatever was    *)
(* lost, duplicated, corrupted (plaintext) or failed on the way.           *)
VerifiedSuccess ==
  spc = "ok" => rpc = "ok" /\ \A b \in Blocks : file[b] = "good"

(* A block the sender considers acknowledged, or is about to, is one the   *)
(* receiver has decoded and written as a whole, also when other writes of  *)
(* its batch failed: the sender never stops repairing a block that is      *)
(* still missing.                                                          *)
AckedIsWritten ==
  \A b \in Blocks :
     b \in acked \/ Has(fb, Decoded(b)) \/ Has(ctl, Decoded(b)) \/ Has(acks, b)
       => b \in done /\ file[b] \notin Unwritten

(* No symbol is put on the wire twice and none is left out: next_repair    *)
(* makes every round's repair symbols the next new ones.  Until a refused  *)
(* datagram cuts a block short, the symbols encoded for a block are all    *)
(* those below K + next_repair, or none.                                   *)
FreshSymbols ==
  /\ packets \cap net = {}
  /\ ~gone => net \cup packets =
                {p \in Symbols : /\ nextRepair[p[1]] > 0
                                 /\ p[2] < K[p[1]] + nextRepair[p[1]]}

(* Every ack is written before Done and both travel in order: a sender     *)
(* that ends with success and never saw its socket refused has seen the    *)
(* ack of every block.                                                     *)
SuccessFullyAcked == spc = "ok" /\ ~gone => acked = Blocks

(* A receiver that ended with success was never taken for a lost           *)
(* connection or for a failure: Done reaches the sender before the end of  *)
(* the stream does.                                                        *)
NoFalseFailure == rpc = "ok" => spc \notin {"failed", "connlost"}

(* What the output file, the hash check and the sender's report do. *)
Delivery == INSTANCE FileDelivery
              WITH content <- file,
                   outcome <- IF SenderUp THEN "running"
                              ELSE IF spc = "ok" THEN "ok" ELSE "failed"

ImplementsFileDelivery == Delivery!Spec

(* While a block is unacknowledged the sender comes back to it: ack-settle *)
(* never keeps it from the next repair round, whatever acks and reports    *)
(* arrive meanwhile.                                                       *)
KeepsRepairing ==
  SenderUp /\ ~gone /\ acked # Blocks
    ~> \/ spc = "spray" /\ round = 1
       \/ ~SenderUp \/ gone \/ acked = Blocks

(* Whatever fails, the sender ends. *)
SenderStops == <>(~SenderUp)

(* A receiver whose sender has ended ends too, unless it has not received  *)
(* a single datagram.                                                      *)
ReceiverFollows == ~SenderUp ~> (~ReceiverUp \/ ~heard)

=============================================================================
