------------------------------- MODULE Layout -------------------------------
(***************************************************************************)
(* The split of a file into blocks and of a block into source symbols      *)
(* (src/src/blocks.rs), and how long the codec makes them.                 *)
(***************************************************************************)
EXTENDS Integers

(* A div_ceil that rounds down. *)
DivFloor(a, b) == a \div b

(* u64::div_ceil *)
DivCeil(a, b) == (a + b - 1) \div b

(* Layout::new: the number of blocks. *)
BlockCount(size, block) == DivCeil(size, block)

(* Layout::range *)
RangeStart(block, i) == i * block
RangeEnd(size, block, i) ==
  LET end == RangeStart(block, i) + block IN IF end <= size THEN end ELSE size

(* Layout::block_len *)
BlockLen(size, block, i) == RangeEnd(size, block, i) - RangeStart(block, i)

(* Layout::source_symbols *)
SourceSymbols(size, block, symbol, i) == DivCeil(BlockLen(size, block, i), symbol)

-----------------------------------------------------------------------------
(* The codec: with_defaults rounds the symbol size it is given down to a   *)
(* multiple of eight, and refuses one below eight.                         *)
Alignment == 8
SymbolLen(symbol) == (symbol \div Alignment) * Alignment

(* The source symbols it then makes of a block. *)
CodecSymbols(len, symbol) == DivCeil(len, SymbolLen(symbol))

=============================================================================
