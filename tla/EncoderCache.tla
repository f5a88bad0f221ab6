---------------------------- MODULE EncoderCache ----------------------------
(***************************************************************************)
(* The sender's cache of block encoders: get_encoder and the round loop    *)
(* that calls it (src/src/send.rs).  Building an encoder is the costly     *)
(* step of the sender, so the cache should keep the encoders of the blocks *)
(* that are still being repaired.                                          *)
(*                                                                         *)
(* An encoder is the block whose bytes it was built from; a cache entry is *)
(* the pair <<index, encoder>>.  What is acknowledged when is open, but    *)
(* that a block is acknowledged only after symbols of it were sent.        *)
(***************************************************************************)
EXTENDS Integers, Sequences, FiniteSets

CONSTANTS NumBlocks,  \* layout.num_blocks
          Cap         \* ENCODER_CACHE

ASSUME CacheAssumption == NumBlocks \in Nat \ {0} /\ Cap \in Nat \ {0}

Blocks == 0 .. NumBlocks - 1

VARIABLES spc,      \* where the round loop is
          acked,
          sprayed,  \* blocks of which symbols were sent
          pending,  \* the unacknowledged blocks at the start of the round
          todo,     \* those the round has not come to yet
          cache,    \* encoders, the front first
          current,  \* the block being encoded and the encoder get_encoder returned
          settled   \* a round with room for all of its blocks was completed

cacheVars == <<spc, acked, sprayed, pending, todo, cache, current, settled>>

(* No block is being encoded. *)
Idle == <<>>

CacheInit ==
  /\ spc = "top" /\ acked = {} /\ sprayed = {} /\ pending = {} /\ todo = {}
  /\ cache = <<>> /\ current = Idle /\ settled = FALSE

(* The positions of block b's entry. *)
Position(b) == {i \in DOMAIN cache : cache[i][1] = b}

(* drain_feedback: some blocks are acknowledged. *)
Drain == \E S \in SUBSET (sprayed \ acked) : acked' = acked \cup S

(* Vec::remove and truncate. *)
Remove(q, i)   == SubSeq(q, 1, i - 1) \o SubSeq(q, i + 1, Len(q))
Truncate(q, n) == IF Len(q) <= n THEN q ELSE SubSeq(q, 1, n)

(* A get_encoder that leaves one entry too few. *)
TightGetEncoder(b) ==
  /\ cache' = IF Position(b) # {}
              THEN LET i == CHOOSE i \in Position(b) : TRUE
                   IN <<cache[i]>> \o Remove(cache, i)
              ELSE Truncate(<<<<b, b>>>> \o cache, Cap - 1)
  /\ current' = <<b, b>>

(* A get_encoder that leaves the entry it found where it was. *)
StayingGetEncoder(b) ==
  /\ cache' = IF Position(b) # {} THEN cache
              ELSE Truncate(<<<<b, b>>>> \o cache, Cap)
  /\ current' = <<b, cache'[1][2]>>

(* get_encoder: the entry is moved, or built and put, to the front, and    *)
(* the encoder at the front is returned.                                   *)
GetEncoder(b) ==
  /\ cache' = IF Position(b) # {}
              THEN LET i == CHOOSE i \in Position(b) : TRUE
                   IN <<cache[i]>> \o Remove(cache, i)
              ELSE Truncate(<<<<b, b>>>> \o cache, Cap)
  /\ current' = <<b, cache'[1][2]>>

(* Top of the loop. *)
StartRound ==
  /\ spc = "top"
  /\ Drain
  /\ pending' = Blocks \ acked' /\ todo' = pending'
  /\ spc' = IF pending' = {} THEN "wait" ELSE "spray"
  /\ UNCHANGED <<sprayed, cache, current, settled>>

(* One block of the round: skipped if its ack came mid-round. *)
SprayBlock(b) ==
  /\ spc = "spray" /\ b \in todo /\ \A c \in todo : b <= c
  /\ todo' = todo \ {b}
  /\ \/ /\ b \in acked
        /\ UNCHANGED <<spc, sprayed, cache, current>>
     \/ /\ b \notin acked
        /\ GetEncoder(b)
        /\ sprayed' = sprayed \cup {b}
        /\ spc' = "flush"
  /\ UNCHANGED <<acked, pending, settled>>

(* The block is flushed and feedback drained. *)
Flush ==
  /\ spc = "flush"
  /\ Drain
  /\ spc' = "spray" /\ current' = Idle
  /\ UNCHANGED <<sprayed, pending, todo, cache, settled>>

(* The receiver's socket refuses: the round ends and none follows. *)
FlushRefused ==
  /\ spc = "flush"
  /\ spc' = "wait" /\ current' = Idle
  /\ UNCHANGED <<acked, sprayed, pending, todo, cache, settled>>

(* The end of a round, and ack-settle. *)
EndRound ==
  /\ spc = "spray" /\ todo = {}
  /\ Drain
  /\ settled' = (settled \/ Cardinality(pending) <= Cap)
  /\ spc' = "top"
  /\ UNCHANGED <<sprayed, pending, todo, cache, current>>

CacheNext ==
  \/ StartRound \/ Flush \/ FlushRefused \/ EndRound
  \/ \E b \in Blocks : SprayBlock(b)

CacheSpec == CacheInit /\ [][CacheNext]_cacheVars

-----------------------------------------------------------------------------
(* get_encoder returns the front of the cache without looking at its       *)
(* index: whatever was evicted, moved or rebuilt before, symbols of a      *)
(* block are made from the bytes of that block, and the cache holds no     *)
(* more than ENCODER_CACHE encoders and none twice.                        *)
RightEncoder ==
  /\ current # Idle => current[1] = current[2]
  /\ Len(cache) <= Cap /\ \A b \in Blocks : Cardinality(Position(b)) <= 1

(* "keep the ones we're still repairing": once a round had no more pending *)
(* blocks than the cache has room for, no encoder is built again, for the  *)
(* rest of the transfer.                                                   *)
NoRebuild ==
  [][settled => \A b \in Blocks : SprayBlock(b) /\ b \notin acked => Position(b) # {}]_cacheVars

=============================================================================
