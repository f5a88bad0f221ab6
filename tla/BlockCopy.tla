----------------------------- MODULE BlockCopy ------------------------------
(***************************************************************************)
(* The bytes of a file from the sender's memory to the output file: each   *)
(* encoder is built from the slice of the file that Layout::range names    *)
(* (get_encoder, src/src/send.rs) and used as long as the encoder cache    *)
(* keeps it; the receiver writes a decoded block at the start of the range *)
(* of the index its symbols carried (src/src/recv.rs), in any order.       *)
(*                                                                         *)
(* A byte of the output file is the position in the input it came from.    *)
(* EncoderCache says what the sender does; here a block is acknowledged    *)
(* only once it is written.                                                *)
(***************************************************************************)
EXTENDS EncoderCache, Layout

CONSTANTS Sizes,      \* file sizes, in bytes
          BlockSizes  \* --block-size

ASSUME CopyAssumption == Sizes \subseteq Nat \ {0} /\ BlockSizes \subseteq Nat \ {0}

VARIABLES size,    \* layout.file_size
          block,   \* layout.block_size
          onWire,  \* <<b, e>>: symbols sent as block b's, made of block e's bytes
          done,    \* blocks in state Block::Done
          file     \* the output file

copyVars == <<cacheVars, size, block, onWire, done, file>>

(* A byte that set_len made and no write has touched. *)
Hole == -1

CopyInit ==
  /\ CacheInit
  /\ size \in Sizes /\ block \in BlockSizes
  /\ BlockCount(size, block) = NumBlocks
  /\ onWire = {} /\ done = {}
  /\ file = [j \in 0 .. size - 1 |-> Hole]

(* A step of the sender; what it encodes may arrive from then on. *)
Send ==
  /\ CacheNext
  /\ acked' \subseteq done
  /\ onWire' = IF current' = Idle THEN onWire ELSE onWire \cup {current'}
  /\ UNCHANGED <<size, block, done, file>>

(* Symbols that carry index b decode: write_all_at puts block_len(b) bytes *)
(* of what they were made of at range(b).start.  A write past the end      *)
(* makes the file longer.                                                  *)
WriteBlock(b) ==
  /\ b \in Blocks \ done
  /\ \E e \in Blocks :
        /\ <<b, e>> \in onWire
        /\ LET first == RangeStart(block, b)
               bytes == first .. first + BlockLen(size, block, b) - 1
           IN  file' = [j \in DOMAIN file \cup bytes |->
                          IF j \in bytes THEN RangeStart(block, e) + (j - first) ELSE file[j]]
  /\ done' = done \cup {b}
  /\ UNCHANGED <<cacheVars, size, block, onWire>>

CopyNext == Send \/ \E b \in Blocks : WriteBlock(b)

CopySpec == CopyInit /\ [][CopyNext]_copyVars

-----------------------------------------------------------------------------
(* Whatever encoders were evicted, moved or built again and in whatever    *)
(* order blocks are decoded, the output file never outgrows the size       *)
(* set_len gave it, a byte of it is a hole or the byte of the input at its *)
(* place, and with all blocks done it is the input: no gap or overlap at   *)
(* the borders of blocks or at the short last one.                         *)
CopyExact ==
  /\ DOMAIN file = 0 .. size - 1
  /\ \A j \in DOMAIN file : file[j] \in {Hole, j}
  /\ done = Blocks => \A j \in DOMAIN file : file[j] = j

=============================================================================
