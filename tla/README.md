# atp-experiment in TLA+

`atp-experiment` sends one file from a sender to a receiver: RaptorQ symbols
over UDP, a TCP (or TLS) control connection for the handshake, the
acknowledgements and the verdict. This directory models it, model-checks the
models with TLC and proves what matters most with TLAPS. Paths below are
relative to the repository (`src/src/send.rs` is the crate's `src/send.rs`).

## The system

| Part | Code | State | Operations |
|---|---|---|---|
| Rendezvous and handshake | `send.rs` run/transfer, `recv.rs` run..handle_transfer, `udp.rs` | connection, handshake position, UDP sockets, flow-opens | dial or listen, retry, pinned TLS, Hello, HelloAck, Manifest, ManifestAck, flow-open, keepalive |
| Spray loop | `send.rs` transfer | acked blocks, round, next repair id, batch, `receiver_gone` | drain feedback, encode, flush, settle, wait for Done |
| Reader task | `send.rs` 323-348 | a channel of feedback | read a frame, see the end of the stream |
| Receiver loop | `recv.rs` handle_transfer | decoders, done blocks, pending acks, `io_err`, output file | receive a batch, write a block, flush acks, tick, verify, Done |
| Sealed symbol plane | `sealed.rs`, `datagram.rs` | sequence counter, replay window | seal, burn, open |
| Rate control | `rate.rs`, `drain_feedback` | rate, startup, loss estimate and floor, delivered window, pacer's rate | on_report |
| Pacer | `rate.rs`, `flush_batch` | rate, when the next send is allowed | pace, set_rate_bps |
| Loss reports and repair sizing | `recv.rs`, `sealed.rs` seq_span, `send.rs` LossEstimator | counters, reports under way, estimate | tick, update, round0_frac, repair_frac |
| UDP batching | `send.rs` transfer, `udp.rs` | batch, offset, datagrams handed on | encode, send_gso, send_mmsg_once, recv_batch |
| Encoder cache | `send.rs` get_encoder | a list of encoders, the most recent first | get_encoder |
| Layout | `blocks.rs` | none | block ranges, lengths, source symbols |
| TLS, frames, command line | `tls.rs`, `wire.rs`, `main.rs` | see PROJECT.json | |

Sender main task, reader task, receiver, keepalive task and network run
concurrently. The hard behaviours are loss, duplication and reordering of
datagrams, a stream that ends with frames still in it, timeouts that race a
late answer, I/O errors inside a batch, either process dying, and arithmetic
at the edge of the replay ring, of the last block and of the rate bounds.
PROJECT.json lists each one at its line under "hazards".

## Modules

| Module | Models | Extended or instantiated by |
|---|---|---|
| `ReplayWindow` | the methods of `ReplayWindow` as operators on a window | `SealedPlane`, `SealedPlaneProofs` |
| `SealedPlane` | sealer, opener and the network between them | `MCSealedPlane`, `SealedPlaneProofs` |
| `OnceDelivery` | abstract: recent datagrams delivered at most once | `SealedPlane` (refinement) |
| `Transfer` | spray loop, reader task, receiver loop, both channels | `MCTransfer`, `MCTransferEnds`, `TransferProofs` |
| `FileDelivery` | abstract: write, verify, report | `Transfer` (refinement) |
| `Rendezvous` | everything up to the first symbol | `MCRendezvous`, `RendezvousProofs` |
| `RateControl` | `RateController` with any smoothing, and the pacer's rate | `MCRateControl`, `RateLoop`, `RateControlProofs` |
| `RateLoop` | `RateController` with its smoothing computed, closed over a path | `MCRateLoop`, `RateControlProofs` |
| `Pacer` | `Pacer` and the flushes it paces, over an integer clock | `MCPacer`, `PacerProofs` |
| `LossReports` | what the receiver counts and reports, what the sender makes of it | `MCLossReports`, `RepairProofs` |
| `UdpSend` | batches of datagrams, cut and sent by GSO or sendmmsg | `UdpPath` |
| `UdpPath` | `UdpSend`, the network, a coalescing socket and `recv_batch` | `MCUdpPath`, `UdpPathProofs` |
| `EncoderCache` | `get_encoder` in the round loop | `BlockCopy`, `RepairProofs` |
| `Layout` | block arithmetic as operators, and the codec's rounding of the symbol size | `BlockCopy`, `UdpSend` |
| `BlockCopy` | `EncoderCache` with the bytes it encodes and the receiver's writes | `MCBlockCopy`, `BlockCopyProofs` |

Variables carry the code's names in TLA+ spelling (`next_repair` is
`nextRepair`), and PROJECT.json maps each definition to its lines. Each module
also holds wrong variants of some definitions (`ForgetfulOpenInPlace`,
`HastyEndBatch`, ...): PROJECT.json's "mutants" says which property notices each.

### What is abstracted

- **SealedPlane.** A datagram is what `open_datagram` tests. The AEAD accepts
  exactly what this session's sealer sealed.
- **Transfer.** A symbol is a block and an id. `net` only grows; the network
  delivers any member of it any number of times, or never (`lost`). The codec is
  external: K distinct symbols may decode a block, all source symbols or
  K + Slack always do. A round's repair count is any member of a set, so the
  results do not depend on the loss estimate. A batch is one action per
  datagram, between which the sender and the network move. A block of the output
  is a hole, torn by a write that failed, or written, with the right bytes or not.
  A timeout may fire when what it waits for is absent. A socket refuses only after
  the receiver ended.
- **Rendezvous.** A step runs from one await to the next. The two command lines
  are chosen independently: mode, encryption, pin (right, of another
  certificate, malformed) and version. Of TLS there are the three messages whose
  order matters; a receiver without TLS reads a ClientHello as a frame length,
  which exceeds the limit or is one it waits for. The manifest's numbers are left
  out, and with them the receiver's refusal of a zero or of another block count
  (`recv.rs:222-234`): this sender computes them with the same `Layout`. A process
  that ends closes its connection, after which its peer's reads and writes may fail.
  A host that vanishes without closing its connections is not modelled.
- **RateControl.** Whole units and percents. Smoothed loss and floor move
  somewhere between their old value and the sample: the direction is kept, the
  speed is not. Growth rounds up and a cut down.
- **RateLoop.** The same steps with the smoothing in fixed point (thousandths of
  a percent). The path is that of `simulate` in the tests of `rate.rs`: up to a
  bottleneck, less a fixed share. Its answer to one interval is the next report.
- **Pacer.** Instants are ticks and rates bytes per tick; a batch takes
  `len \div rate` ticks. A send takes any time and a sleep may end late.
- **LossReports.** The datagrams in flight are a set of sequence numbers; one of
  them may be delivered or lost while no more than `Overtake` lower ones are in
  flight. Fractions are per mille. In plaintext mode a report is compared
  with the datagrams sent when it is read, as in the code. A sealed duplicate
  changes nothing (that is `SealedPlane`).
- **UdpSend, UdpPath.** A datagram is the range of bytes it holds of the stream of
  all bytes ever put into a batch, so a cut in the wrong place shows. Sizes are
  the real ones. More datagrams may arrive between two messages that `recv_batch`
  hands on, and only messages still in the socket are joined by them.
  The codec's symbols are `symbol_size` rounded down to a multiple
  of 8, as `with_defaults` of raptorq 2.0.1 makes them; `seg` is computed from
  `symbol_size` itself, as in the code.
- **EncoderCache, BlockCopy, Layout.** An encoder is the block it was built from, a
  byte of the output the position of the input it came from. Symbols decode to the
  bytes they were made of, whatever block they are sent for; a block is
  acknowledged only once it is written.

## Runs

| Run | Shows | States |
|---|---|---|
| `sealed_plane` | the bitmap decides like an unbounded memory; each datagram is opened once; the reported loss is exactly what was not opened; only authentic datagrams move the window; refinement of `OnceDelivery` | 29,524 |
| `transfer_faults` | success means a verified file; acks mean written blocks; no symbol is sent twice and none skipped; Done is not overtaken; refinement of `FileDelivery` | 3,549,996 |
| `transfer_ends` | the sender ends, and comes back to unacknowledged blocks until then; a receiver that heard something follows; with finite loss and no failure both sides succeed | 271,715 |
| `rate_control` | pacer in step with the controller, repeated cuts bring the rate down, startup makes finitely many decisions | 58,586 |
| `rate_ceiling` | **expected violation**, see Findings | |
| `rate_loop` | no ratchet above the bottleneck; the rate settles on what the path carries; startup ends; the floor does not follow congestion | 324,325 |
| `pacer` | token bucket between any two flushes; nothing lost while less than MAX_BURST late | 382,659 |
| `loss_reports` | the span counts what was lost and at most the overtaken datagram besides; the estimate forgets; round 0 and six repair rounds suffice | 2,373,581 |
| `udp_path` | the wire carries the encoded bytes without a gap, and whole datagrams if the symbol size is a multiple of 8; `bytes_sent` keeps in step; the receiver's closure gets exactly the datagrams that arrived | 510,116 |
| `udp_unaligned` | **expected violation**, see Findings | |
| `block_copy` | symbols come from their own block; the output is byte for byte the input; no encoder is built twice once a round fits the cache | 601,926 |
| `rendezvous` | only sides that agree get past the handshake; spraying starts only at a ready receiver; no early flow-open missed; nobody waits for ever, with two exceptions; the keepalive opens the flow after the burst is lost | 122,540 |

### Bounds

- `sealed_plane`: W = 3 and 9 numbers, so the ring wraps twice and an advance can
  be smaller than, equal to and larger than W.
- `transfer_faults` has two blocks of unequal length, `transfer_ends` two of one
  symbol that may need a second, so that one block can be acknowledged while the
  other takes repair rounds; batches of two; ids below `MaxId` (symbols beyond it count as lost), `MaxLoss` losses,
  one Progress frame on its way. `transfer_faults` needs no more than one
  loss: without fairness a symbol may simply never be delivered.
- `rate_control`: rates 1 to 6, losses on each side of every threshold, intervals
  inside and beyond the delivered window.
- `rendezvous`: 3 attempts for 50, a burst of 3 for 5, at most 4 losses (more
  than the burst) and 4 flow-opens under way.
- `rate_loop`: real thresholds and smoothing factors, rates in tenths of a Mbit/s
  up to 1 Gbit/s, eight paths (clean, 5 to 20% loss, slow, app-limited, idle), of
  which one follows another at any of the first 60 reports. Between changes the
  loop is deterministic, so TLC follows every behaviour to its end or cycle.
- `pacer`: a burst of 3 ticks, batches shorter and longer than it, waits shorter
  and longer than it, three flushes (the proofs have no such bound). It starts at
  an instant from which MAX_BURST cannot be subtracted.
- `loss_reports`: 9 datagrams in blocks of 3, 2 lost, 1 duplicated, one overtaken
  at a time, one report
  under way, an interval of 2 for 50. Repair is sized for blocks of 1, 100 and
  56403 symbols, the codec's largest. A report may be read at any later time; a
  second one read right after it falls into the same small interval.
- `udp_path`: symbol sizes at the edges (multiples of 8 and others, three and two
  datagrams to MAX_GSO_BYTES, one to MaxUdp, and those where `seg` is close to and
  beyond 65535), 3 segments for 64 and 2 messages for 16, one block of 1 or 4 packets
  so that a batch is left part full, full, and full with a rest, one empty datagram.
  The proofs have any number of blocks.
- `block_copy`: six blocks and a cache of 3 for 8, so that rounds are larger than,
  equal to and smaller than the cache; blocks of 1, 2 and 3 bytes, and files whose
  last block is of every length.

`CHECK_DEADLOCK FALSE` in `rendezvous`, `pacer`, `udp_path`, `loss_reports` and
`block_copy`: these behaviours end.

### Fairness

- Transfer: weak fairness for the sender's tasks and for the receiver's steps
  (tokio schedules a ready task). Strong fairness, for each block, for receiving a
  symbol of it that is new to the receiver and not lost: the receiver returns to its
  loop again and again, and repeated delivery attempts are the network's share.
  Strong fairness for a failing write, as writing to a closed connection fails in
  the end. In `MCTransferEnds` fairness drives the sender through the steps that
  `Transfer` without faults has, and its timeout only once something has failed
  (`Faulted`), so that the success of a transfer in which nothing failed (`Completes`) rests on
  no timeout. The repair ids are bounded, and `MaxLoss` is chosen so that enough
  symbols remain.
- Rendezvous: weak fairness for both programs, the keepalive, delivery and the
  timer. The 30 s timer fires once no flow-open can come; a sender that gives up
  before is one that ends, like `SenderCrash`. `FlowOpens` thus assumes that the
  losses fit into 30 s: five flow-opens at once and one every 5 s after.
- RateControl: `StartupFinite` and `Descends` need none. `rate_ceiling` assumes
  that clean reports of a busy sender keep coming.
- RateLoop: weak fairness of the reports, which the receiver's ticker writes every
  100 ms while it has received anything.

## Findings

- `udp_unaligned`: with a `--symbol-size` that is no multiple of 8 the batches are
  cut in the wrong places. `seg` comes from `symbol_size` (`send.rs:378-379`), but
  the codec makes its symbols of the size rounded down (`send.rs:687`), so with
  1203 a datagram is 3 bytes shorter than `seg`: the first of a batch takes 3
  bytes of the second with it, the next one 6, and so on, where `send.rs:376` says
  "every datagram in a batch has identical wire size (RaptorQ symbols are
  fixed-size), so one segment size fits". `bytes_sent` counts `seg` for each
  (`Drift` in `Accounted`), and `source_symbols` ("Number of source symbols in
  block `index`.", `blocks.rs:47`) may count too few (`SymbolsCounted`). The default
  of 1200 is a multiple of 8. What the other modules say of whole
  datagrams and of K source symbols presumes such a size; sizes below 8 the codec
  refuses.
- `rate_ceiling`: with `--max-rate-mbps` below 100 the pacer starts at
  `START_RATE_BPS` (`send.rs:387`) while the controller starts at the cap
  (`rate.rs:212`). `on_report` returns a rate only when it changed
  (`rate.rs:386`), so a controller sitting at its cap never brings the pacer
  down. `send.rs:50` calls the option "Adaptive pacing ceiling, in Mbit/s."

Where comments of the code say more than the models bear out:

- `max_segs` is at least 1 (`send.rs:380`), so with a `--symbol-size` above 64980
  (64956 sealed) a batch of one exceeds MAX_GSO_BYTES, which the `debug_assert!` at
  `udp.rs:91` excludes. `KernelLimits` is about smaller datagrams.
- `rate.rs:4-11` says that random loss alone never makes the sender back off. When
  the random loss of a path rises from 0 to 10%, the smoothed loss is CUT_EXCESS
  above the floor before the floor has followed; `Settles` shows that the rate
  recovers, not that it is never cut.
- `rate.rs:21` says that the floor snaps down to any cleaner sample; it moves by
  FLOOR_FALL, 0.3 of the way (`FloorAt`), as the comment at `rate.rs:74` has it.
- `rate.rs:40` says that there is never a hold state between clean and congested;
  in startup there is (`rate.rs:379`, `MiddleBand`).
- `sealed.rs:177` and `wire.rs:61` call the loss from the span independent of what
  is in flight; a datagram that was overtaken and is still in flight counts as
  lost, which is the slack in `ExactWireLoss`.

Four limits of the code that the properties state as exceptions: a receiver that
has received no datagram never notices a dead sender (`ReceiverFollows`), a
sender may give up after 10 s on a receiver that is still hashing
(`NoFalseFailure`), a listener nobody dials waits for ever, and so may a sender
with `--pin` and a receiver with `--nocrypto` (`HandshakeSettles`).

## Proofs

All for every value of the constants that satisfies the module's ASSUME.

- **`SealedPlaneProofs`** (W a positive number). The
  inductive invariant ties each bit to history: a slot is set exactly if an
  accepted number of the last W has it, the highest number is the largest
  accepted. Two numbers less than W apart have different slots, which makes the
  bitmap exact (`WindowExact`); the other results follow from it.
  `SealedImplementsWire`: with the numbers that are burned as lost and those on the
  wire and never opened as in flight, every step is one of `LossReports`, whose
  reports and estimator rest meanwhile. The counts that `LossReports` starts from,
  and takes from no bitmap, are thus the ones the replay window gives.
- **`TransferProofs`** (any blocks, K, faults). `IInv` adds six parts to
  `TypeOK` and `AckedIsWritten`, as the properties are not inductive alone:
  `VerdictInv` (Done frames carry the verdict, which describes the file, and the
  reader sees the stream end only once the receiver is down), `FreshInv` (every
  id on the network or in the batch lies below K + nextRepair of its block),
  `AccountInv` (while the sender is up and has not been refused, each done
  block's ack is somewhere between `pending_acks` and `acked`; Done is the last
  frame), `FileInv` (a good block is done, a done block is written), `SprayInv`
  (until a refusal the symbols encoded are all those below K + nextRepair of the
  blocks the rounds have come to, and after round 0 that is every block) and
  `WaitInv` (a refused datagram means that the receiver has ended, and a receiver
  that waits for datagrams misses a block). One lemma per part
  shows that every action keeps it. `TransferImplements` maps each step to a
  step of `FileDelivery` or a stutter. `TransferSourceSent` and `TransferNoStandoff`
  state what no run does: after round 0 every source symbol was on the wire, and
  the sender never waits for Done from a receiver that waits for datagrams.
- **`BlockCopyProofs`** (any file and block sizes, blocks, cache). Every byte
  belongs to exactly one block (quotient lemmas). `CopyInv` says that symbols on
  the wire are made of the block they are sent for, which `RightEncoder` gives, and
  that a byte of the output is the input's if its block is done, else a hole.
  `SymbolsCounted` relates `source_symbols` to what the codec makes.
- **`RendezvousProofs`**. `FlowInv`: whoever has opened a flow has read a pull
  sender's Hello, and that sender bound its acceptor before it could be dialled.
  `ConnInv`: the connection exists only between sides started in the same mode.
  `TlsInv`: which TLS messages can be on their way, and that a side past the
  handshake encrypts like its peer, with the right pin. `StepInv`: what each
  position and a ManifestAck on its way imply. On top of these, `LinkInv` lists the
  phases of the handshake: while both sides are up, where they are determines the
  frames on their way; `RecvInv` is what remains to read when the sender has ended.
  From the two, every frame is read where it belongs (`FramesExpected`), and in
  every state but those of `AtRest` the guard of some step of a side, or of the
  flow-open, holds (`NobodyStranded`). The latter is freedom from deadlock stated
  with the guards instead of ENABLED, and the safety half of `HandshakeSettles`.
- **`PacerProofs`** (any MAX_BURST, rates, sizes, delays). `TokenBucket` and
  `OnSchedule` speak of `total`, the send time so far, the code of `next`, when the
  next send is allowed. `PacerInv` relates the two for every earlier flush: `next`
  is at least that flush's time less MAX_BURST plus the send time since.
- **`UdpPathProofs`** (any limits, symbol sizes from 8 to 2^16 - 1). `SendInv` is in
  bytes: the pieces on the wire follow one another without a gap, and they end at
  the start of the batch, or `off` bytes into it while it is being sent. It holds
  wherever the cuts fall, so `FlushSendsAll` and `Accounted` hold for all sizes.
  For a multiple of 8 the batch is cut at the size of its datagrams (`LensAgree`);
  the wire then ends between two datagrams, the chunks of the rest of a batch
  are its datagrams, and `AlignedWhole` is inductive on top of `SendInv`. A
  segment size that wraps is then out of reach, as a batch that large is
  beyond the kernel's limit. `PathSends` carries these results over to the whole
  path. For `ArrivalKept`, `PiecedWhole` shows that `chunks_mut` at the segment size
  cuts a message exactly where its datagrams meet, a shorter last one included. What
  was handed on says nothing of what still waits, so `RxInv` adds an offset for
  every waiting message (`Placed`): its datagrams are the next ones of the arrival
  order, and whatever is missing behind an offset is in a later message. That last
  part replaces the induction over the messages that the prover cannot do.
- **`RateControlProofs`** (any reports). The type invariant, with the window never
  empty after a sample, gives `CutToDelivered` (a cut lands on a delivered rate);
  `StartupExit` (startup never ends by raising the rate) needs no more. `LoopImplementsControl`: every step
  of `RateLoop` is a step of `RateControl`, if its losses and delivered rates are
  among those `RateControl` allows (`LoopReports`): the computed loss lies between
  the old one and the sample, and the floor likewise. `RateCutsDescend` and
  `RateStartupCounts` are the steps behind two liveness properties: a cut lowers the
  rate until it is the minimum (`Descends`), and startup's pair of best rate and
  stagnant samples only grows (`StartupFinite`). `PacerExact` is the pacer's rate for
  any cap, so also where `PacerFollows` says nothing: it is off only until the first
  change of a rate that the cap put below the starting one, and never zero.
  Three results are about the loop itself. `SamplesOfPath` (inductive with
  `RateInv`): a sample above what the path delivers is as old as the path. So
  after a window's length the max filter knows only the present path, and
  `LoopGrounded` follows: cuts and the end of startup land at what the path
  delivers, and fast growth starts below that, the floor credited. `LoopLossNotBlamed`
  and `LoopCapNeverCuts`: the smoothing of a constant loss is that loss and so is the
  floor, so a sender below the bottleneck is never cut for it.
- **`RepairProofs`** (any numbers of datagrams, blocks, overtaking, cache entries).
  *Loss.* `ExactWireLoss` is about reports that are under way while more is lost and
  delivered. `LossInv` therefore says of the present that every number below the
  span was received, lost or is in flight (`SpanExact`), and of each report, and of
  the one sampled last, that what it misses was lost below its span or overtaken
  (`ReportsTell`, `LastTells`); nothing below a span is lost later without having
  been counted as missing. `Decays` bounds the estimate after each of the last quiet
  samples, from which `Forgets` follows. `RepairConverges` is arithmetic from there:
  the shares of seven rounds add up to a multiple of the block (`WeightSuffices`)
  that the highest estimate leaves enough of, rounding included. `RepairSized`
  bounds what one round sends on both sides; the lower bound is what `Transfer`
  assumes of its `Round0Repair` and `LaterRepair`.
  *Encoders.* `RightEncoder` needs that entries are their own block's and distinct
  (`CacheTyped`). For `NoRebuild`, `RoundKept` says that the blocks a round has come
  to fill the front of the cache. They are distinct pending blocks, so with room for
  all pending ones the next insertion pushes none of them out, and the round ends
  with every block still to be repaired in the cache (`SettledKept`); from then on
  the cache is only permuted.

The type invariants, `SymbolsCounted`, `SleepBounded`, `CutToDelivered`,
`StartupExit`, `CutLowers`, `StartupCounts`, `SourceSent`, `NoStandoff`, `LinkInv`,
`RecvInv`, `FramesExpected`, `NobodyStranded`, `SealedImplementsWire`, `PacerExact`,
`SamplesOfPath`, `GroundedOnPath`, `Undisturbed`, `CapNeverCuts` and `RepairSized` are
proved for all values and no run repeats them.

Every invariant, action property and refinement of a run is proved but one. Only
model-checked are:

- `NoRatchet` of `RateLoop`: it holds `CalmReports` reports after a change of the
  path, a number that depends on the rates and losses of the instance, and says
  where a long iteration of rounded arithmetic ends; no inductive invariant that
  holds for all constants is known to us. What is proved for all constants are its
  steps: `LoopGrounded` (where a cut lands and where fast growth ends) and that the
  loop's steps are steps of `RateControl`, so its bounds hold of the loop. How
  many cuts a probe above the bottleneck costs is left to TLC.
- Liveness, and everything about fairness: `SenderStops`, `ReceiverFollows`,
  `KeepsRepairing`, `Completes`, `Descends`, `StartupFinite`, `StartupEnds`,
  `HandshakeSettles`, `FlowOpens`, `Settles`, `FloorHonest`. The prover has no rules for fairness and
  ENABLED.

## Not modelled

- The command line and error wording (`main.rs`, `lib.rs`, `error.rs`) and the codec
  benchmark under `examples/`: no state of the system.
- JSON, and the bytes of frames and datagrams: the frames and what the parsers
  tell apart are modelled, the encodings are not.
- rustls, the AEAD, RaptorQ, tokio and the kernel: external, modelled from how the
  code uses them.
- Real time: the 10 s, 30 s and 50 ms timers may fire whenever what they wait for
  is absent; only `Pacer` has a clock.
- One model of everything. `Rendezvous` ends where `Transfer` begins (`SprayReady`
  and `OnlyAgreed` are what `Transfer` starts from), and `Transfer` allows any
  repair counts, delays and batches, so what it shows holds for what `LossReports`,
  `Pacer`, `RateControl` and `UdpSend` compute.
