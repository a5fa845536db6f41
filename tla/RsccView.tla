------------------------------ MODULE RsccView ------------------------------
(***************************************************************************)
(* The logical view of an RSCC container                                   *)
(* (rscc_metadata_reader in src/src/core/godot/rscc.cpp): a table of       *)
(* compressed blocks, of which only the one being read has a decoder.  The *)
(* place of a block is the sum of the sizes before it, which the view      *)
(* carries along forwards and starts again for a block behind.             *)
(***************************************************************************)
EXTENDS BlockStream, Sequences, SequencesExt

CONSTANTS
  Containers,  \* [fast: the mode is FastLZ, stored, blockSize, total, sizes: the table]
  Requests,    \* [at, count] reads of the parser above
  Batch,       \* table entries fetched at a time
  MaxBlock     \* limits.max_block_bytes

ASSUME ViewAssumption ==
  /\ Batch \in Nat \ {0} /\ MaxBlock \in Nat
  /\ \A r \in Requests : r.at \in Nat /\ r.count \in Nat

VARIABLES
  file, viewing,
  nextIndex, nextOffset, \* the first block not passed yet, and its place
  cached,                \* the block that has the decoder, or None
  place,                 \* where that decoder reads its compressed bytes
  index,                 \* the block the read under way needs
  sought, left,              \* what the read still wants
  stop,                  \* end of the piece of it inside this block
  piece                  \* the bytes copied last: block place, first byte, amount, for which position

rscc == <<file, viewing, nextIndex, nextOffset, cached, place, index, sought, left, stop, piece>>
rsccVars == <<rscc, decoder>>

None == -1
RsccHeaderBytes == 16
EntryBytes == 4
MagicBytes == 4

\* The fields every reader computes from the header.
Blocks(f) == (f.total \div f.blockSize) + 1
DataStart(f) == RsccHeaderBytes + EntryBytes * Blocks(f)
DataEnd(f) == f.stored - MagicBytes

\* What the blocks of a range take, as stored; blocks of the table count from 1.
StoredBytes(f, first, last) == SumFunctionOnSet(f.sizes, first..last)

\* decompress_rscc, which decodes every block from front to back: what it
\* demands of the table, and where its loop finds a block.
Accepted(f) ==
  /\ f.blockSize > 0 /\ DataStart(f) <= DataEnd(f)
  /\ DataStart(f) + StoredBytes(f, 1, Len(f.sizes)) = DataEnd(f)
  /\ \A i \in DOMAIN f.sizes : f.sizes[i] <= MaxBlock
BlockPlace(f, i) == DataStart(f) + StoredBytes(f, 1, i)
LogicalBytes(f, i) == IF i + 1 = Blocks(f) THEN f.total % f.blockSize ELSE f.blockSize

\* The fields are unsigned, and the table is read for every block of the header.
ASSUME ContainerAssumption ==
  \A f \in Containers :
    /\ f.fast \in BOOLEAN
    /\ f.stored \in Nat /\ f.blockSize \in Nat /\ f.total \in Nat /\ f.sizes \in Seq(Nat)
    /\ f.blockSize > 0 => Len(f.sizes) = Blocks(f)

RsccInit ==
  /\ file \in Containers
  /\ viewing = "open"
  /\ nextIndex = 0 /\ nextOffset = 0 /\ cached = None /\ place = 0
  /\ index = 0 /\ sought = 0 /\ left = 0 /\ stop = 0 /\ piece = <<>>
  /\ physical = 0 /\ logical = 0 /\ fast = file.fast /\ unread = 0 /\ physicalRead = 0 /\ decoded = 0
  /\ windowStart = 0 /\ windowSize = 0 /\ content = 0 /\ complete = FALSE

\* The reader throws, and nobody reads through it again.
Abandon == viewing' = "failed"

(***************************************************************************)
(* The constructor: the envelope, then the whole table, entry by entry     *)
(* against what is left of the stored bytes.                               *)
(***************************************************************************)
Accounted(f) == \A i \in 0..(Blocks(f) - 1) : f.sizes[i + 1] <= DataEnd(f) - BlockPlace(f, i)

OpenView ==
  /\ viewing = "open"
  /\ IF /\ file.stored >= RsccHeaderBytes + MagicBytes /\ file.blockSize > 0
        /\ Blocks(file) <= (file.stored - RsccHeaderBytes - MagicBytes) \div EntryBytes
        /\ Accounted(file) /\ BlockPlace(file, Blocks(file)) = DataEnd(file)
     THEN viewing' = "idle" /\ nextOffset' = DataStart(file)
     ELSE Abandon /\ UNCHANGED nextOffset
  /\ UNCHANGED <<file, nextIndex, cached, place, index, sought, left, stop, piece, decoder>>

StartRead ==
  /\ viewing = "idle"
  /\ \E r \in Requests :
       /\ r.at <= file.total /\ r.count <= file.total - r.at /\ r.count > 0
       /\ sought' = r.at /\ left' = r.count /\ index' = r.at \div file.blockSize
  /\ viewing' = "load"
  /\ UNCHANGED <<file, nextIndex, nextOffset, cached, place, stop, piece, decoder>>

\* validate_terminal_block: an empty last block must still be a block.
StartTerminal ==
  /\ viewing = "idle" /\ file.total % file.blockSize = 0
  /\ index' = Blocks(file) - 1 /\ left' = 0 /\ sought' = file.total
  /\ viewing' = "load"
  /\ UNCHANGED <<file, nextIndex, nextOffset, cached, place, stop, piece, decoder>>

\* Mutant of Rewind: a block behind is looked for from the present place.
RewindIndexOnly ==
  /\ index < nextIndex
  /\ nextIndex' = 0 /\ UNCHANGED nextOffset

\* load starts the sum again for a block that was passed.
Rewind == index < nextIndex /\ nextIndex' = 0 /\ nextOffset' = DataStart(file)

LoadBehind ==
  /\ viewing = "load" /\ index # cached /\ Rewind
  /\ UNCHANGED <<file, viewing, cached, place, index, sought, left, stop, piece, decoder>>

(***************************************************************************)
(* load: a batch of the table is read, which may fault; the blocks before  *)
(* the wanted one are passed, and the wanted one gets a decoder.           *)
(***************************************************************************)
LoadBatch ==
  LET taken == Min({index - nextIndex + 1, Batch})
      last  == nextIndex + taken - 1
      start == nextOffset + StoredBytes(file, nextIndex + 1, last)
      size  == file.sizes[last + 1]
  IN /\ viewing = "load" /\ index # cached /\ index >= nextIndex
     /\ IF last = index /\ (size > MaxBlock \/ LogicalBytes(file, index) > MaxBlock)
        THEN Abandon /\ UNCHANGED <<nextIndex, nextOffset, cached, place, decoder>>
        ELSE /\ nextIndex' = last + 1
             /\ nextOffset' = start + size
             /\ IF last = index
                THEN cached' = index /\ place' = start /\ Fresh(size, LogicalBytes(file, index), file.fast)
                ELSE UNCHANGED <<cached, place, decoder>>
             /\ UNCHANGED viewing
     /\ UNCHANGED <<file, index, sought, left, stop, piece>>

\* block_stream_decoder::read is entered for the part of the read this block
\* has, and finish for the terminal block.
EnterBlock ==
  LET within == sought % file.blockSize
      count  == Min({left, LogicalBytes(file, index) - within})
  IN /\ viewing = "load" /\ index = cached
     /\ stop' = within + count
     /\ viewing' = IF left = 0 THEN "finish" ELSE "copy"
     /\ IF left > 0 /\ within < windowStart THEN Fresh(physical, logical, fast) ELSE UNCHANGED decoder
     /\ UNCHANGED <<file, nextIndex, nextOffset, cached, place, index, sought, left, piece>>

InBlock == sought - index * file.blockSize

(***************************************************************************)
(* The calls of fill: as many as the next byte or finish wait for, but one *)
(* for the end of a block that was read to its last byte.  Of a library's  *)
(* fill each step is a turn, and it returns with a window or at the end.   *)
(***************************************************************************)
DecodeBlock ==
  /\ \/ viewing = "copy" /\ ~Holds(InBlock)
     \/ viewing \in {"tail", "finish"} /\ ~complete
  /\ IF complete
     THEN FillCompleted /\ UNCHANGED viewing
     ELSE \/ /\ Fill
             /\ viewing' = IF viewing = "tail" /\ (complete' \/ windowSize' > 0) THEN "next" ELSE viewing
          \/ FillThrows /\ Abandon
  /\ UNCHANGED <<file, nextIndex, nextOffset, cached, place, index, sought, left, stop, piece>>

Copy ==
  LET within == InBlock - windowStart
      amount == Min({stop - InBlock, windowSize - within})
  IN /\ viewing = "copy" /\ Holds(InBlock)
     /\ piece' = [place |-> place, first |-> content + within, amount |-> amount, at |-> sought]
     /\ sought' = sought + amount /\ left' = left - amount
     /\ viewing' = IF InBlock + amount < stop THEN "copy" ELSE IF stop = logical THEN "tail" ELSE "next"
     /\ UNCHANGED <<file, nextIndex, nextOffset, cached, place, index, stop, decoder>>

\* The read goes on in the next block, or is done.
NextBlock ==
  /\ viewing = "next" \/ (viewing \in {"tail", "finish"} /\ complete)
  /\ IF left > 0 THEN index' = sought \div file.blockSize /\ viewing' = "load"
                 ELSE viewing' = "idle" /\ UNCHANGED index
  /\ UNCHANGED <<file, nextIndex, nextOffset, cached, place, sought, left, stop, piece, decoder>>

\* A read of the stored bytes faults: of the table, or of a block.
SourceFaults ==
  /\ viewing \in {"load", "copy", "tail", "finish"}
  /\ Abandon
  /\ UNCHANGED <<file, nextIndex, nextOffset, cached, place, index, sought, left, stop, piece, decoder>>

Serve == OpenView \/ LoadBehind \/ LoadBatch \/ EnterBlock \/ DecodeBlock \/ Copy \/ NextBlock

RsccNext == Serve \/ StartRead \/ StartTerminal \/ SourceFaults

RsccSpec == RsccInit /\ [][RsccNext]_rsccVars

-----------------------------------------------------------------------------
(***************************************************************************)
(* Whatever was read before, in whatever order, a read returns the bytes   *)
(* decompress_rscc would have put there: of the block at its place, at its *)
(* position; and the view opens only containers whose table accounts for   *)
(* every stored byte, as decompress_rscc does.                             *)
(***************************************************************************)
ViewIsTheDecoders ==
  /\ viewing \notin {"open", "failed"} /\ (\A i \in DOMAIN file.sizes : file.sizes[i] <= MaxBlock) => Accepted(file)
  /\ piece # <<>> =>
       LET i == piece.at \div file.blockSize
       IN /\ piece.place = BlockPlace(file, i)
          /\ piece.first = piece.at % file.blockSize
          /\ piece.first + piece.amount <= LogicalBytes(file, i)

\* A block that was read to its end was consumed and produced exactly, padding
\* included; no read asks the source for a byte after its block; and, as
\* fill_fastlz relies on, no byte is waited for in a block that ended.
BlockIsExact ==
  /\ physicalRead <= physical /\ decoded <= OutputSize
  /\ complete => physicalRead - unread = physical /\ decoded = OutputSize
  /\ viewing = "idle" /\ cached # None /\ stop = logical => complete
  /\ viewing = "copy" /\ ~Holds(InBlock) => ~complete

\* The window a read is served from is the one a decoder of the whole container
\* would serve it from, and its block is exactly what the container says.
ReadsAreExact == ViewIsTheDecoders /\ BlockIsExact
=============================================================================
