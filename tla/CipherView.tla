----------------------------- MODULE CipherView -----------------------------
(***************************************************************************)
(* The decrypting view of an encrypted payload                             *)
(* (src/src/core/godot/encrypted_payload.cpp): a stream buffer that        *)
(* decrypts one chunk at a time, in its own buffer, from a source other    *)
(* readers share.  A read continues the running cipher when it starts      *)
(* where the cipher stopped, and otherwise restarts it at the block        *)
(* before; a seek inside the chunk keeps it.  The source may fail at any   *)
(* read, and stays failed until another reader clears it.                  *)
(*                                                                         *)
(* A byte of plaintext is its position.  The cipher is the position whose  *)
(* byte it would decrypt next; at any other byte it yields Foreign.        *)
(***************************************************************************)
EXTENDS Integers, Sequences, FiniteSetsExt

CONSTANTS
  Block,   \* cipher_block_bytes
  Chunk,   \* encryption_chunk_bytes
  Size,    \* payload.logical_size
  Counts,  \* sizes of the reads clients ask for
  Foreign  \* a byte that is not plaintext

ASSUME ViewAssumption ==
  /\ Block \in Nat \ {0} /\ Size \in Nat
  /\ Chunk \in Nat /\ Chunk >= Block
  /\ Counts \subseteq Nat
  /\ Foreign \notin Nat

VARIABLES
  cursor,      \* position of the first byte of the get area
  area,        \* the get area: is it set, gptr - eback, egptr - eback
  buffer,      \* the chunk, decrypted in place
  cipher,      \* the position the cipher stands at
  cipherNext, cipherValid,
  verified,
  ok,          \* the source's stream has not failed
  bad,         \* the view's stream has failed
  left,        \* bytes the running read still wants; 0 when none runs
  out,         \* the bytes a read delivered last
  torn         \* ghost: a fill failed after the chunk under the get area was touched

vars == <<cursor, area, buffer, cipher, cipherNext, cipherValid, verified, ok, bad, left, out, torn>>

Padded == Block * ((Size + Block - 1) \div Block)
Capacity == Min({Padded, Chunk})
Cells == 0..(Capacity - 1)
NoArea == [set |-> FALSE, next |-> 0, end |-> 0]
Position == cursor + area.next

Init ==
  /\ cursor = 0 /\ area = NoArea
  /\ buffer = [c \in Cells |-> Foreign]
  /\ cipher = 0 /\ cipherNext = 0 /\ cipherValid = FALSE
  /\ verified = FALSE /\ ok = TRUE /\ bad = FALSE
  /\ left = 0 /\ out = <<>> /\ torn = FALSE

Idle == left = 0

-----------------------------------------------------------------------------
Sequential == cipherValid /\ Position = cipherNext

\* Mutant of Start: the cipher is restarted at the byte asked for.
StartUnaligned == Position

\* A restart begins at the start of the block.
Start == IF Sequential THEN Position ELSE Position - (Position % Block)

\* Bytes a fill reads: what is wanted and what lies before it in the block.
Taken(wanted) == Min({Capacity, wanted + Position - Start})

\* The block before a start is the feedback that puts the cipher there; the
\* payload's own vector does so for the first block.  A start inside a block
\* takes the feedback of another position.
Restarted == IF Sequential THEN cipher ELSE IF Start % Block = 0 THEN Start ELSE Foreign

Decrypted(at, p) == IF at = p THEN p ELSE Foreign

Fill(wanted) ==
  LET n == Taken(wanted)
  IN /\ ok
     /\ buffer' = [c \in Cells |-> IF c < n THEN Decrypted(IF Restarted = Foreign THEN Foreign ELSE Restarted + c,
                                                           Start + c)
                                   ELSE buffer[c]]
     /\ cipher' = IF Restarted = Foreign THEN Foreign ELSE Restarted + n
     /\ cipherNext' = Start + n
     /\ cipherValid' = TRUE
     /\ cursor' = Start
     /\ area' = [set |-> TRUE, next |-> Position - Start, end |-> n]
     /\ torn' = FALSE
     /\ UNCHANGED <<verified, ok, bad>>

(***************************************************************************)
(* A fill whose reads fail: the get area and the position stay, the        *)
(* sequence is forgotten unless it was being continued, and a read that    *)
(* stopped half-way leaves ciphertext in the buffer.  The exception becomes*)
(* the view's badbit, for its stream has no mask.                          *)
(***************************************************************************)
FillFails(wanted) ==
  /\ cipherValid' = Sequential
  /\ \E n \in {0, Taken(wanted)} :
       /\ ~ok => n = 0
       /\ buffer' = [c \in Cells |-> IF c < n THEN Foreign ELSE buffer[c]]
       /\ torn' = (torn \/ (n > 0 /\ area.set))
  /\ cipher' = IF Sequential THEN cipher ELSE Foreign
  /\ ok' = FALSE /\ bad' = TRUE
  /\ UNCHANGED <<cursor, area, cipherNext, verified>>

-----------------------------------------------------------------------------
\* xsgetn: what is asked for, up to the end; a short read fails the stream.
Read(n) ==
  /\ Idle /\ ~bad /\ n > 0
  /\ left' = Min({n, Size - Position})
  /\ out' = <<>>
  /\ bad' = (n > Size - Position)
  /\ UNCHANGED <<cursor, area, buffer, cipher, cipherNext, cipherValid, verified, ok, torn>>

AreaEmpty == ~area.set \/ area.next = area.end

ReadFills == left > 0 /\ AreaEmpty /\ Fill(left) /\ UNCHANGED <<left, out>>

\* Mutant of ReadFillFails: the loop tries again.
ReadFillFailsRetried == left > 0 /\ AreaEmpty /\ FillFails(left) /\ UNCHANGED <<left, out>>

ReadFillFails == left > 0 /\ AreaEmpty /\ FillFails(left) /\ left' = 0 /\ UNCHANGED out

CopyOut ==
  LET n == Min({area.end - area.next, left})
  IN /\ left > 0 /\ ~AreaEmpty
     /\ out' = [i \in 1..n |-> buffer[area.next + i - 1]]
     /\ area' = [area EXCEPT !.next = @ + n]
     /\ left' = left - n
     /\ UNCHANGED <<cursor, buffer, cipher, cipherNext, cipherValid, verified, ok, bad, torn>>

\* underflow: a peek fetches one byte and consumes none.
Peek ==
  /\ Idle /\ ~bad /\ AreaEmpty /\ Position < Size
  /\ Fill(1)
  /\ UNCHANGED <<left, out>>

\* Mutant of Seek: a seek inside the chunk trusts the cipher to be there.
SeekMovesCipher(target) ==
  /\ Idle /\ ~bad
  /\ IF target \in 0..Size /\ area.set /\ target \in cursor..(cursor + area.end)
     THEN area' = [area EXCEPT !.next = target - cursor] /\ cipherNext' = target /\ UNCHANGED <<cursor, bad, torn>>
     ELSE /\ cursor' = target /\ area' = NoArea /\ torn' = FALSE
          /\ target \in 0..Size
          /\ UNCHANGED <<bad, cipherNext>>
  /\ UNCHANGED <<buffer, cipher, cipherValid, verified, ok, left, out>>

(***************************************************************************)
(* seekoff: a target outside the plaintext fails the stream; one inside    *)
(* the chunk moves the read pointer only, with the cipher already behind   *)
(* the chunk; any other forgets the chunk but not the cipher.              *)
(***************************************************************************)
Seek(target) ==
  /\ Idle /\ ~bad
  /\ IF target \notin 0..Size
     THEN bad' = TRUE /\ UNCHANGED <<cursor, area, torn>>
     ELSE IF area.set /\ target \in cursor..(cursor + area.end)
     THEN area' = [area EXCEPT !.next = target - cursor] /\ UNCHANGED <<cursor, bad, torn>>
     ELSE cursor' = target /\ area' = NoArea /\ torn' = FALSE /\ UNCHANGED bad
  /\ UNCHANGED <<buffer, cipher, cipherNext, cipherValid, verified, ok, left, out>>

\* verify decrypts the whole payload through the same buffer and cipher, chunk
\* by chunk, and rewinds; it may fail in a read or in the digest.
Verify ==
  /\ Idle
  /\ \E passed \in BOOLEAN, fault \in BOOLEAN :
       /\ passed => ok /\ ~fault
       /\ ok' = (ok /\ ~fault)
       /\ verified' = passed
       /\ bad' = IF passed THEN FALSE ELSE bad
       /\ cipher' = IF passed THEN Padded ELSE Foreign
  /\ buffer' = [c \in Cells |-> Foreign]
  /\ cursor' = 0 /\ area' = NoArea /\ cipherValid' = FALSE /\ torn' = FALSE
  /\ UNCHANGED <<cipherNext, left, out>>

\* resource_reader clears the view before each of its reads, and a plain row or
\* another reader of the session's stream clears that one.
Clear ==
  /\ Idle
  /\ \/ bad /\ bad' = FALSE /\ UNCHANGED ok
     \/ ~ok /\ ok' = TRUE /\ UNCHANGED bad
  /\ UNCHANGED <<cursor, area, buffer, cipher, cipherNext, cipherValid, verified, left, out, torn>>

Proceed == ReadFills \/ ReadFillFails \/ CopyOut

Next ==
  \/ \E n \in Counts : Read(n)
  \/ \E t \in -1..(Size + 1) : Seek(t)
  \/ Proceed \/ Peek \/ Verify \/ Clear

Spec == Init /\ [][Next]_vars

\* A read runs on the thread that asked for it; the fault is the environment's.
FairSpec == Spec /\ WF_vars(Proceed)

-----------------------------------------------------------------------------
TypeOK ==
  /\ cursor \in 0..Size
  /\ area \in [set : BOOLEAN, next : 0..Capacity, end : 0..Capacity]
  /\ buffer \in [Cells -> Nat \cup {Foreign}]
  /\ cipherNext \in 0..Padded
  /\ cipherValid \in BOOLEAN /\ verified \in BOOLEAN /\ ok \in BOOLEAN /\ bad \in BOOLEAN
  /\ left \in Nat
  /\ torn \in BOOLEAN

(***************************************************************************)
(* The chunk under the get area is the plaintext that belongs at cursor,   *)
(* whatever was sought, peeked, verified or failed before, and the cipher  *)
(* stands where cipher_next says whenever it is going to be trusted; the   *)
(* chunk is not only after a fill that stopped half-way.                   *)
(***************************************************************************)
WindowIsPlaintext ==
  /\ area.set /\ ~torn => \A c \in 0..(area.end - 1) : buffer[c] = cursor + c
  /\ cipherValid => cipher = cipherNext
  /\ area.next <= area.end /\ Position <= Size /\ cursor + area.end <= Padded

\* Every read ends: a fill always brings the byte the read waits for.
ReadEnds == left > 0 ~> Idle

\* The view is a plaintext source.
Abstract == INSTANCE PlaintextSource
              WITH pos <- Position, got <- out, wanted <- left, trusted <- ~torn
ImplementsSource == Abstract!Spec
=============================================================================
