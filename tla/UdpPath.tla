------------------------------ MODULE UdpPath -------------------------------
(***************************************************************************)
(* A batch from the sender's buffer to the receiver's closure: UdpSend,    *)
(* a network that loses and reorders datagrams, a socket that may coalesce *)
(* them (UDP_GRO), and UdpRx::recv_batch (src/src/udp.rs), which cuts what *)
(* recvmmsg returns back into datagrams.                                   *)
(*                                                                         *)
(* A message of the socket is the sequence of datagrams coalesced in it.   *)
(* A piece that recv_batch cuts is the set of stream ranges it holds, so   *)
(* that a piece cut at the wrong place shows.                              *)
(***************************************************************************)
EXTENDS UdpSend

CONSTANTS RecvMsgs,   \* RECV_MSGS
          MaxGro,     \* most bytes the socket coalesces
          MaxEmpty    \* bound on the empty datagrams from elsewhere

ASSUME UdpPathAssumption ==
  RecvMsgs \in Nat \ {0} /\ MaxGro \in Nat /\ MaxEmpty \in Nat

VARIABLES gro,      \* UdpRx.gro
          rx,       \* "up", or "failed" once recvmmsg has failed
          taken,    \* positions on the wire of the datagrams that arrived
          arrived,  \* those datagrams, in the order of arrival
          queue,    \* messages received and not yet handed on
          inBufs,   \* the first of these that recvmmsg has put into bufs
          empties,  \* empty datagrams that arrived
          handed    \* pieces given to the closure

rxvars   == <<gro, rx, taken, arrived, queue, inBufs, empties, handed>>
pathvars == <<vars, rxvars>>

Size(d)  == d[2] - d[1]
Empty    == <<0, 0>>

(* The length of a message, hdrs[i].msg_len: all its datagrams but the     *)
(* last have the size of the first (MayJoin).                              *)
MsgLen(m) == (Len(m) - 1) * Size(m[1]) + Size(m[Len(m)])

PathInit ==
  /\ Init
  /\ gro \in BOOLEAN /\ rx = "up"
  /\ taken = {} /\ arrived = <<>> /\ queue = <<>> /\ inBufs = 0
  /\ empties = 0 /\ handed = <<>>

-----------------------------------------------------------------------------
(* The socket may add d to its last message m: all datagrams of m have the *)
(* size of the first, and d is no longer.                                  *)
MayJoin(m, d) ==
  /\ gro
  /\ m # <<Empty>>
  /\ Size(m[Len(m)]) = Size(m[1]) /\ Size(d) <= Size(m[1])
  /\ MsgLen(m) + Size(d) <= MaxGro

(* A datagram of the wire arrives, in any order or never. *)
Arrive(k) ==
  /\ rx = "up" /\ k \notin taken
  /\ taken' = taken \cup {k}
  /\ arrived' = Append(arrived, wire[k])
  /\ \/ queue' = Append(queue, <<wire[k]>>)
     \/ /\ inBufs < Len(queue) /\ MayJoin(queue[Len(queue)], wire[k])
        /\ queue' = [queue EXCEPT ![Len(queue)] = Append(@, wire[k])]
  /\ UNCHANGED <<vars, gro, rx, inBufs, empties, handed>>

(* An empty datagram arrives from elsewhere. *)
ArriveEmpty ==
  /\ rx = "up" /\ empties < MaxEmpty
  /\ empties' = empties + 1
  /\ queue' = Append(queue, <<Empty>>)
  /\ UNCHANGED <<vars, gro, rx, taken, arrived, inBufs, handed>>

-----------------------------------------------------------------------------
(* gro_segment_size: the socket names the size of the first datagram of a  *)
(* coalesced message, and nothing for a single one.                        *)
GroSegmentSize(m) == IF Len(m) > 1 THEN Size(m[1]) ELSE MsgLen(m)

(* The bytes a to b of message m, as stream ranges. *)
Cut(m, a, b) ==
  LET start(i) == (i - 1) * Size(m[1])
  IN  {<<m[i][1] + MaxOf(a - start(i), 0), m[i][1] + MinOf(b - start(i), Size(m[i]))>>
         : i \in {j \in 1 .. Len(m) : start(j) < b /\ a < start(j) + Size(m[j])}}

(* recv_batch without looking at the segment size. *)
UncutPieces(m) == <<Cut(m, 0, MsgLen(m))>>

(* The pieces recv_batch hands on: none of an empty message, else the      *)
(* message in chunks of the segment size.                                  *)
Pieced(m) ==
  IF MsgLen(m) = 0 THEN <<>>
  ELSE LET seg == GroSegmentSize(m)
       IN  [j \in 1 .. (MsgLen(m) + seg - 1) \div seg |->
              Cut(m, (j - 1) * seg, MinOf(j * seg, MsgLen(m)))]

(* recv_batch: recvmmsg returns the first n messages. *)
RecvBatch(n) ==
  /\ rx = "up" /\ inBufs = 0 /\ n <= Len(queue)
  /\ inBufs' = n
  /\ UNCHANGED <<vars, gro, rx, taken, arrived, queue, empties, handed>>

(* One turn of its loop over them, while more may arrive. *)
HandOn ==
  /\ inBufs > 0
  /\ handed' = handed \o Pieced(Head(queue))
  /\ queue' = Tail(queue) /\ inBufs' = inBufs - 1
  /\ UNCHANGED <<vars, gro, rx, taken, arrived, empties>>

(* recvmmsg fails: recv_batch returns the error, and the receiver ends. *)
RecvFails ==
  /\ rx = "up" /\ inBufs = 0 /\ rx' = "failed"
  /\ UNCHANGED <<vars, gro, taken, arrived, queue, inBufs, empties, handed>>

PathNext ==
  \/ Next /\ UNCHANGED rxvars
  \/ \E k \in 1 .. Len(wire) : Arrive(k)
  \/ ArriveEmpty
  \/ \E n \in 1 .. RecvMsgs : RecvBatch(n)
  \/ HandOn
  \/ RecvFails

PathSpec == PathInit /\ [][PathNext]_pathvars

-----------------------------------------------------------------------------
(* However datagrams are coalesced and cut again, the closure gets the     *)
(* datagrams that arrived, in the order of arrival, none merged, split or  *)
(* left out: at any time the first of them, and once no message with bytes *)
(* is left to hand on, all of them.                                        *)
ArrivalKept ==
  /\ Len(handed) <= Len(arrived)
  /\ \A i \in 1 .. Len(handed) : handed[i] = {arrived[i]}
  /\ (\A i \in 1 .. Len(queue) : MsgLen(queue[i]) = 0) => Len(handed) = Len(arrived)

=============================================================================
