----------------------------- MODULE BlockStream -----------------------------
(***************************************************************************)
(* Random reads over one compressed block                                  *)
(* (block_stream_decoder in src/src/core/codecs/resource_compression.cpp). *)
(* Compressed bytes come in chunks, plaintext goes out in windows; reading *)
(* before the window starts the codec again.  zlib, zstd and brotli are    *)
(* libraries, FastLZ is decoded here, and the bytes are the file's: a call *)
(* may consume and produce anything the buffers allow and end at any time. *)
(* The byte it produces first is byte 0 of the block, and so on.           *)
(***************************************************************************)
EXTENDS Integers, FiniteSetsExt

CONSTANTS
  InChunk, OutChunk,  \* the sizes of the two buffers
  PaddedBytes         \* FastLZ pads a shorter block to this many bytes

ASSUME BufferAssumption ==
  InChunk \in Nat \ {0} /\ OutChunk \in Nat \ {0} /\ PaddedBytes \in 0..OutChunk

VARIABLES
  physical,      \* compressed_size
  logical,       \* logical_size
  fast,          \* kind is FastLZ
  unread,        \* input_count - input_pos
  physicalRead,
  decoded,
  windowStart, windowSize,
  content,       \* what the window really holds begins at this byte
  complete

decoder == <<physical, logical, fast, unread, physicalRead, decoded, windowStart, windowSize, content, complete>>

\* A decoder over a block, as constructed and as restarted.
Fresh(p, l, k) ==
  /\ physical' = p /\ logical' = l /\ fast' = k
  /\ unread' = 0 /\ physicalRead' = 0 /\ decoded' = 0
  /\ windowStart' = 0 /\ windowSize' = 0 /\ content' = 0 /\ complete' = FALSE

\* What the stream must produce: FastLZ also decodes the padding of a short block.
OutputSize == IF fast /\ logical < PaddedBytes THEN PaddedBytes ELSE logical

\* The window becomes what was made of the bytes that arrived and were taken.
Produce(arrived, taken, made, ended) ==
  /\ physicalRead' = physicalRead + arrived
  /\ unread' = unread + arrived - taken
  /\ windowStart' = decoded /\ content' = decoded
  /\ windowSize' = made
  /\ decoded' = decoded + made
  /\ complete' = ended
  /\ UNCHANGED <<physical, logical, fast>>

\* An end is accepted where both sizes are met.
Meets(arrived, taken, made) ==
  physicalRead + arrived - (unread + arrived - taken) = physical /\ decoded + made = OutputSize

Refilled == IF unread = 0 THEN Min({physical - physicalRead, InChunk}) ELSE 0

(***************************************************************************)
(* One turn of fill with a library: the input buffer is refilled when it   *)
(* is empty, the codec takes some of it and produces some; it must not     *)
(* produce more than the block declares, and must not stand still.         *)
(***************************************************************************)
Tolerated(taken, made, ended) ==
  /\ made <= logical - decoded
  /\ ended => Meets(Refilled, taken, made)
  /\ ended \/ taken > 0 \/ made > 0

Turns == [taken : 0..(unread + Refilled), made : 0..OutChunk, ended : BOOLEAN]

LibraryFill ==
  /\ ~fast
  /\ \E t \in Turns : Tolerated(t.taken, t.made, t.ended) /\ Produce(Refilled, t.taken, t.made, t.ended)

(***************************************************************************)
(* fill_fastlz: tokens are decoded until the window is full, and a token   *)
(* must fit what the block still lacks of its padded size; the end is only *)
(* looked for while the window has room.  The first byte is the level, the *)
(* second a literal.  A buffer is refilled when the next byte of it is     *)
(* needed, as often as that is.                                            *)
(***************************************************************************)
Supplies == {n \in 0..(physical - physicalRead) : n % InChunk = 0 \/ n = physical - physicalRead}

FastFill ==
  /\ fast
  /\ \E arrived \in Supplies, made \in 0..OutChunk :
       \E taken \in 0..(unread + arrived) :
         /\ \A n \in Supplies : n < arrived => unread + n < taken
         /\ physicalRead = 0 => taken >= 2
         /\ made <= OutputSize - decoded
         /\ made < OutChunk => Meets(arrived, taken, made)
         /\ Produce(arrived, taken, made, made < OutChunk)

Fill == LibraryFill \/ FastFill

\* A compression_error; who sees it reads no more from this decoder.
FillThrows ==
  /\ fast \/ \E t \in Turns : ~Tolerated(t.taken, t.made, t.ended)
  /\ UNCHANGED decoder

\* fill on a completed block forgets the window and produces nothing.
FillCompleted ==
  /\ windowSize' = 0
  /\ windowStart' = IF fast THEN decoded ELSE windowStart
  /\ content' = IF fast THEN decoded ELSE content
  /\ UNCHANGED <<physical, logical, fast, unread, physicalRead, decoded, complete>>

Holds(position) == position < windowStart + windowSize
=============================================================================
