------------------------------ MODULE UdpSend -------------------------------
(***************************************************************************)
(* How the symbols of a block become datagrams on the wire: the batch loop *)
(* of transfer (src/src/send.rs), the datagram sizes of TxPlane            *)
(* (src/src/datagram.rs) and UdpTx::send_segments (src/src/udp.rs), which  *)
(* cuts a buffer of many datagrams by sendmsg with UDP_SEGMENT, or by      *)
(* sendmmsg in as many calls as it takes.                                  *)
(*                                                                         *)
(* The bytes ever put into a batch form one stream.  A datagram is the     *)
(* range <<from, to>> of stream bytes it holds, from included and to not,  *)
(* so a datagram that is cut at the wrong place shows.                     *)
(***************************************************************************)
EXTENDS Integers, Sequences, Layout

CONSTANTS SymbolSizes,    \* values of --symbol-size
          MaxGsoBytes,    \* MAX_GSO_BYTES
          MaxGsoSegments, \* MAX_GSO_SEGMENTS
          MaxUdp,         \* largest payload of a UDP datagram
          PacketCounts,   \* possible numbers of packets of a block in a round
          MaxBlocks       \* bound on the number of blocks sprayed

ASSUME UdpSendAssumption ==
  /\ \A s \in SymbolSizes : s \in Nat /\ Alignment <= s /\ s < 65536
  /\ MaxGsoBytes \in Nat \ {0} /\ MaxGsoSegments \in Nat \ {0}
  /\ MaxUdp \in Nat /\ MaxUdp < 65536
  /\ PacketCounts \subseteq Nat \ {0} /\ MaxBlocks \in Nat

VARIABLES sealed,     \* plane: TxPlane::Sealed
          gso,        \* UdpTx.gso
          symbolSize, \* layout.symbol_size
          blocks,     \* blocks still to spray
          left,       \* packets of the current block still to encode
          encoded,    \* datagrams encoded so far
          batchSegs,  \* batch_segs
          batch,      \* batch.len()
          off,        \* send_segments: bytes of the batch sent
          bytesSent,  \* bytes_sent
          wire,       \* datagrams handed to the kernel
          pc          \* "next", "fill", "send", "gone" or "failed"

vars == <<sealed, gso, symbolSize, blocks, left, encoded, batchSegs, batch, off,
          bytesSent, wire, pc>>

MinOf(a, b) == IF a <= b THEN a ELSE b
MaxOf(a, b) == IF a >= b THEN a ELSE b

-----------------------------------------------------------------------------
(* Sizes.                                                                  *)

(* datagram::encode_into appends magic, tag, block index and payload;      *)
(* seal_datagram_into magic, tag, sequence number, the sealed block index  *)
(* and payload, and the AEAD tag.                                          *)
EncodedLen(payload) ==
  IF sealed THEN 4 + 8 + 8 + (4 + payload) + 16 ELSE 4 + 8 + 4 + payload

(* A wire_len that forgets the block index that is sealed with the payload. *)
ShortWireLen(payload) == IF sealed THEN 36 + payload ELSE 16 + payload

(* TxPlane::wire_len: HEADER_LEN is 16 plain, OVERHEAD is 36 sealed. *)
WireLen(payload) == IF sealed THEN 36 + 4 + payload ELSE 16 + payload

(* The size of a datagram, of a payload id of 4 bytes and a symbol of the  *)
(* codec, and the size the batch is cut at, which takes the symbol to be   *)
(* of the size asked for.                                                  *)
DatagramLen == EncodedLen(4 + SymbolLen(symbolSize))
Seg         == WireLen(4 + symbolSize)

(* Batches limited by their number of datagrams alone. *)
CountMaxSegs == MaxGsoSegments

(* max_segs *)
MaxSegs == MaxOf(1, MinOf(MaxGsoBytes \div Seg, MaxGsoSegments))

-----------------------------------------------------------------------------
(* transfer begins to spray over a connected socket. *)
Init ==
  /\ sealed \in BOOLEAN /\ gso \in BOOLEAN
  /\ symbolSize \in SymbolSizes
  /\ blocks = MaxBlocks /\ left = 0
  /\ encoded = 0 /\ batchSegs = 0 /\ batch = 0 /\ off = 0 /\ bytesSent = 0
  /\ wire = <<>>
  /\ pc = "next"

config == <<sealed, gso, symbolSize>>

(* The packets of the next block are made. *)
NextBlock(n) ==
  /\ pc = "next" /\ blocks > 0
  /\ blocks' = blocks - 1
  /\ left' = n
  /\ pc' = "fill"
  /\ UNCHANGED <<config, encoded, batchSegs, batch, off, bytesSent, wire>>

(* Where the loop goes with segs datagrams in the batch and n packets      *)
(* left: a full batch is flushed, and so is what is left of a block.       *)
AfterPacket(segs, n) ==
  IF segs = MaxSegs \/ (n = 0 /\ segs > 0) THEN "send"
  ELSE IF n = 0 THEN "next" ELSE "fill"

(* One packet is encoded into the batch. *)
Encode ==
  /\ pc = "fill"
  /\ left' = left - 1
  /\ encoded' = encoded + 1
  /\ batchSegs' = batchSegs + 1
  /\ batch' = batch + DatagramLen
  /\ bytesSent' = bytesSent + Seg
  /\ pc' = AfterPacket(batchSegs + 1, left - 1)
  /\ UNCHANGED <<config, blocks, off, wire>>

(* --test-drop that counts the packet as sent. *)
CountedTestDrop ==
  /\ pc = "fill"
  /\ left' = left - 1
  /\ bytesSent' = bytesSent + Seg
  /\ pc' = AfterPacket(batchSegs, left - 1)
  /\ UNCHANGED <<config, blocks, encoded, batchSegs, batch, off, wire>>

(* --test-drop: the packet only burns a sequence number. *)
TestDrop ==
  /\ pc = "fill"
  /\ left' = left - 1
  /\ pc' = AfterPacket(batchSegs, left - 1)
  /\ UNCHANGED <<config, blocks, encoded, batchSegs, batch, off, bytesSent, wire>>

(* The sealer fails: transfer returns the error. *)
EncodeFails ==
  /\ pc = "fill" /\ sealed
  /\ pc' = "failed"
  /\ UNCHANGED <<config, blocks, left, encoded, batchSegs, batch, off, bytesSent, wire>>

-----------------------------------------------------------------------------
(* send_segments.                                                          *)

(* The stream position of the batch, and its first n pieces of size bytes  *)
(* from offset off on; the last piece of the batch may be shorter.         *)
BatchStart == DatagramLen * (encoded - batchSegs)

Piece(size, k) ==
  <<BatchStart + off + (k - 1) * size, BatchStart + MinOf(off + k * size, batch)>>

Pieces(size, n) == [k \in 1 .. n |-> Piece(size, k)]

(* buf.chunks(size): how many pieces the rest of the batch has. *)
Chunks(size) == (batch - off + size - 1) \div size

(* flush_batch clears the batch, and the caller its count. *)
Flushed == batch' = 0 /\ batchSegs' = 0

(* The kernel has taken n pieces of the given size and said so many bytes. *)
Sent(size, n, bytes) ==
  /\ wire' = wire \o Pieces(size, n)
  /\ IF off + bytes < batch
     THEN off' = off + bytes /\ UNCHANGED <<batch, batchSegs, pc>>
     ELSE off' = 0 /\ Flushed /\ pc' = IF left = 0 THEN "next" ELSE "fill"
  /\ UNCHANGED <<config, blocks, left, encoded, bytesSent>>

(* seg as u16 *)
SegU16 == Seg % 65536

(* send_gso: one sendmsg takes the rest of the batch whole, if the kernel  *)
(* can cut it; a segment size of 0 asks for no cutting.                    *)
SendGso ==
  /\ pc = "send" /\ gso
  /\ batch - off <= MaxUdp
  /\ LET size == IF SegU16 = 0 THEN batch - off ELSE SegU16
     IN  /\ Chunks(size) <= MaxGsoSegments
         /\ Sent(size, Chunks(size), batch - off)

(* send_mmsg_once that reports the bytes it offered, not those taken. *)
OfferedSendMmsg(n) ==
  /\ pc = "send" /\ ~gso
  /\ n <= MinOf(Chunks(Seg), MaxGsoSegments)
  /\ MinOf(Seg, batch - off) <= MaxUdp
  /\ Sent(Seg, n, batch - off)

(* send_mmsg_once: sendmmsg takes the first n of the datagrams offered. *)
SendMmsg(n) ==
  /\ pc = "send" /\ ~gso
  /\ n <= MinOf(Chunks(Seg), MaxGsoSegments)
  /\ MinOf(Seg, batch - off) <= MaxUdp
  /\ Sent(Seg, n, MinOf(n * Seg, batch - off))

(* A refused socket: flush_batch says that the receiver is gone, and the   *)
(* spray ends.  Any other error ends the transfer.                         *)
SendError ==
  /\ pc = "send"
  /\ pc' \in {"gone", "failed"}
  /\ off' = 0 /\ batch' = 0 /\ batchSegs' = 0
  /\ UNCHANGED <<config, blocks, left, encoded, bytesSent, wire>>

Next ==
  \/ \E n \in PacketCounts : NextBlock(n)
  \/ Encode \/ TestDrop \/ EncodeFails
  \/ SendGso \/ \E n \in 1 .. MaxGsoSegments : SendMmsg(n)
  \/ SendError

Spec == Init /\ [][Next]_vars

-----------------------------------------------------------------------------
(* The variables have their types, and a batch its size. *)
TypeOK ==
  /\ sealed \in BOOLEAN /\ gso \in BOOLEAN /\ symbolSize \in SymbolSizes
  /\ blocks \in 0 .. MaxBlocks /\ left \in Nat
  /\ encoded \in Nat /\ batchSegs \in 0 .. MaxSegs
  /\ batch = batchSegs * DatagramLen
  /\ off \in Nat /\ (off < batch \/ off = 0) /\ bytesSent \in Nat
  /\ wire \in Seq(Nat \X Nat)
  /\ pc \in {"next", "fill", "send", "gone", "failed"}

(* "every datagram in a batch has identical wire size (RaptorQ symbols are *)
(* fixed-size), so one segment size fits" (send.rs): the wire carries      *)
(* exactly the datagrams that were encoded, whole, in order and each once. *)
WholeInOrder ==
  \A k \in 1 .. Len(wire) : wire[k] = <<(k - 1) * DatagramLen, k * DatagramLen>>

(* A symbol size that the codec keeps to. *)
Aligned == symbolSize % Alignment = 0

(* With a symbol size the codec keeps to, the wire carries exactly the     *)
(* datagrams that were encoded, whole, in order and each once, however     *)
(* send_segments had to cut and resume, and also when an error ends the    *)
(* batch after part of it was taken.                                       *)
AlignedWhole == Aligned => WholeInOrder

(* How far the bytes on the wire reach in the stream. *)
WireEnd == IF wire = <<>> THEN 0 ELSE wire[Len(wire)][2]

(* No byte of the stream is left out, repeated or moved on the wire. *)
Unbroken ==
  \A k \in 1 .. Len(wire) :
    /\ wire[k][1] = IF k = 1 THEN 0 ELSE wire[k - 1][2]
    /\ wire[k][1] < wire[k][2]

(* Whatever the symbol size and however the batches were cut, resumed or   *)
(* given up, the wire carries the stream without a gap, and between        *)
(* batches all bytes encoded and not in the batch are on it: a flush that  *)
(* returns Ok has sent its whole batch.                                    *)
FlushSendsAll == Unbroken /\ (pc \in {"next", "fill"} => WireEnd = BatchStart)

(* What bytes_sent counts beyond the bytes encoded. *)
Drift == encoded * (Seg - DatagramLen)

(* bytes_sent, which the rate controller takes for what the sender put on  *)
(* the wire, never falls behind the wire and, but for the bytes that the   *)
(* codec's rounding takes off each datagram, is ahead of it by at most one *)
(* batch, also after a batch that was sent in part.                        *)
Accounted == bytesSent - WireEnd \in Drift .. Drift + MaxSegs * DatagramLen

(* max_segs: if one datagram fits MAX_GSO_BYTES, every batch handed to     *)
(* send_segments fits one GSO call, in bytes and in segments.              *)
KernelLimits ==
  Seg <= MaxGsoBytes => batch <= MaxGsoBytes /\ batchSegs <= MaxGsoSegments

=============================================================================
