---------------------------- MODULE GodotHandlers ----------------------------
(***************************************************************************)
(* The row handlers of the Godot module (src/src/modules/godot/godot.cpp)  *)
(* on one open session.  The rows of a session share its source stream,    *)
(* whose failure outlives the call that met it; an encrypted row is read   *)
(* through a decrypting view over that stream                              *)
(* (src/src/core/godot/encrypted_payload.cpp) which is verified against    *)
(* the stored digest first and read again for the copy.  The source may    *)
(* fault at any read, the sink at any write, and the host may cancel at    *)
(* any progress callback.                                                  *)
(***************************************************************************)
EXTENDS Integers, Sequences

CONSTANTS
  Rows,   \* rows of the session's listing
  Row     \* Row[r]: what list_files bound the row's handler to

(***************************************************************************)
(* What the row's bytes are stored as and how they are converted, a        *)
(* texture being probed by other code than the binary resources; the size  *)
(* of the plaintext in chunks, the pieces a conversion makes of it, the    *)
(* stored size; and whether the plaintext has the stored digest under the  *)
(* session's key.  One chunk stands for a read of copy_source (128 KiB) or *)
(* of verify (64 KiB), one piece for a write of the conversion.  An        *)
(* encrypted body is stored with its header and its padding.               *)
(***************************************************************************)
RowType == [stored : {"plain", "encrypted", "generated"},
            conversion : {"none", "texture", "binary"},
            chunks : Nat, output : Nat, packed : Nat, authentic : BOOLEAN]

ASSUME RowAssumption ==
  /\ Row \in [Rows -> RowType]
  /\ \A r \in Rows : Row[r].stored = "generated" => Row[r].conversion = "none"
  /\ \A r \in Rows : Row[r].stored # "encrypted" => Row[r].packed = Row[r].chunks

VARIABLES
  stream,    \* the session's ifstream: "good" or "failed"
  row,       \* the row of the running call, or of the last one
  pc,        \* where its handler is
  offset,    \* chunks, or pieces of a conversion, the current pass has done
  verified,  \* state::verified of the call's payload source
  buffer,    \* which chunk or piece of the row is in memory; 0: none of them
  sink,      \* chunks or pieces written to the destination
  granted,   \* progress callbacks the host answered with "continue" after verify
  reported,  \* the sum of the progress reported to the host, in chunks
  faulted,   \* a read of this call met a fault of its own (observation only)
  outcome    \* how the last call ended; "user_interrupt" is anything the callback throws

vars == <<stream, row, pc, offset, verified, buffer, sink, granted, reported, faulted, outcome>>

Init ==
  /\ stream = "good"
  /\ row \in Rows
  /\ pc = "idle"
  /\ offset = 0
  /\ verified = FALSE
  /\ buffer = 0
  /\ sink = <<>>
  /\ granted = 0
  /\ reported = 0
  /\ faulted = FALSE
  /\ outcome = "none"

R == Row[row]
Encrypted == R.stored = "encrypted"
Converted == R.conversion # "none"
BytesLeft == offset < R.chunks
PiecesLeft == offset < R.output

\* The rows that are opened by a bounded_stream, which does not clear the
\* stream it is given and refuses one that has failed.
Bounded == Encrypted \/ R.conversion = "texture"

Throw(exc) == pc' = "idle" /\ outcome' = exc

Body == IF Converted THEN "probe" ELSE "copy"

\* The host calls ExtractItem on a row of an idle handle.
ExtractItem(r) ==
  /\ pc = "idle"
  /\ row' = r
  /\ pc' = IF Row[r].stored = "generated" THEN "generate" ELSE "source"
  /\ offset' = 0
  /\ verified' = FALSE
  /\ buffer' = 0
  /\ sink' = <<>>
  /\ granted' = 0
  /\ reported' = 0
  /\ faulted' = FALSE
  /\ outcome' = "none"
  /\ UNCHANGED stream

-----------------------------------------------------------------------------
(***************************************************************************)
(* entry_source.  A plain row is the session's stream itself.  For an      *)
(* encrypted one read_encrypted_payload builds a bounded_stream, which     *)
(* does not clear the stream and refuses one that has failed.              *)
(***************************************************************************)
\* Mutant of PlainSource: a plain row, too, refuses a stream that has failed.
PlainSourceRefused ==
  /\ pc = "source"
  /\ ~Encrypted
  /\ IF stream = "good" THEN pc' = Body /\ UNCHANGED outcome ELSE Throw("read_error")
  /\ UNCHANGED <<stream, row, offset, verified, buffer, sink, granted, reported, faulted>>

PlainSource ==
  /\ pc = "source"
  /\ ~Encrypted
  /\ pc' = Body
  /\ UNCHANGED <<stream, row, offset, verified, buffer, sink, granted, reported, faulted, outcome>>

EncryptedSource ==
  /\ pc = "source"
  /\ Encrypted
  /\ stream = "good"
  /\ pc' = "verify"
  /\ UNCHANGED <<stream, row, offset, verified, buffer, sink, granted, reported, faulted, outcome>>

\* The stream failed earlier, or fails now: encryption_error, then read_error.
EncryptedSourceFails ==
  /\ pc \in {"source", "verify"}
  /\ Encrypted
  /\ faulted' = (stream = "good")
  /\ stream' = "failed"
  /\ Throw("read_error")
  /\ UNCHANGED <<row, offset, verified, buffer, sink, granted, reported>>

\* Mutant of VerifyChunk: the loop does not advance past the chunk it digested.
VerifyChunkAgain ==
  /\ pc = "verify"
  /\ BytesLeft
  /\ UNCHANGED <<stream, row, pc, offset, verified, buffer, sink, granted, reported, faulted,
                 outcome>>

\* A chunk is read, decrypted and digested, then the host is polled with 0.
VerifyChunk ==
  /\ pc = "verify"
  /\ BytesLeft
  /\ offset' = offset + 1
  /\ UNCHANGED <<stream, row, pc, verified, buffer, sink, granted, reported, faulted, outcome>>

VerifyCancelled ==
  /\ pc = "verify"
  /\ BytesLeft
  /\ Throw("user_interrupt")
  /\ UNCHANGED <<stream, row, offset, verified, buffer, sink, granted, reported, faulted>>

\* Mutant of VerifyEnds: the digest is computed and never compared.
VerifyEndsUnchecked ==
  /\ pc = "verify"
  /\ ~BytesLeft
  /\ verified' = TRUE /\ offset' = 0 /\ pc' = Body
  /\ UNCHANGED <<stream, row, buffer, sink, granted, reported, faulted, outcome>>

\* The digest is compared; the view rewinds, or key_mismatch becomes read_error.
VerifyEnds ==
  /\ pc = "verify"
  /\ ~BytesLeft
  /\ IF R.authentic
     THEN verified' = TRUE /\ offset' = 0 /\ pc' = Body /\ UNCHANGED outcome
     ELSE Throw("read_error") /\ UNCHANGED <<verified, offset>>
  /\ UNCHANGED <<stream, row, buffer, sink, granted, reported, faulted>>

-----------------------------------------------------------------------------
(***************************************************************************)
(* copy_source: read_source clears the stream it is given, seeks and reads *)
(* into the buffer.  The session's stream throws on a failure; the view    *)
(* does not, so a failed read of an encrypted row leaves what the buffer   *)
(* held, or a part of the chunk over it, and the copy goes on.             *)
(***************************************************************************)
ReadPlain ==
  /\ pc = "copy" /\ ~Encrypted
  /\ BytesLeft
  /\ stream' = "good"
  /\ buffer' = offset + 1
  /\ pc' = "write"
  /\ UNCHANGED <<row, offset, verified, sink, granted, reported, faulted, outcome>>

\* Mutant of ReadPlainFails: the fault is swallowed, as it is in the view.
ReadPlainFailsSilently ==
  /\ pc = "copy" /\ ~Encrypted
  /\ BytesLeft
  /\ stream' = "failed"
  /\ faulted' = TRUE
  /\ pc' = "write"
  /\ UNCHANGED <<row, offset, verified, buffer, sink, granted, reported, outcome>>

ReadPlainFails ==
  /\ pc = "copy" /\ ~Encrypted
  /\ BytesLeft
  /\ stream' = "failed"
  /\ faulted' = TRUE
  /\ Throw("read_error")
  /\ UNCHANGED <<row, offset, verified, buffer, sink, granted, reported>>

ReadView ==
  /\ pc = "copy" /\ Encrypted
  /\ BytesLeft
  /\ stream = "good"
  /\ buffer' = offset + 1
  /\ pc' = "write"
  /\ UNCHANGED <<stream, row, offset, verified, sink, granted, reported, faulted, outcome>>

\* Once the session's stream has failed, every later fill fails as well.
ReadViewFails ==
  /\ pc = "copy" /\ Encrypted
  /\ BytesLeft
  /\ faulted' = (faulted \/ stream = "good")
  /\ stream' = "failed"
  /\ buffer' \in {buffer, 0}
  /\ pc' = "write"
  /\ UNCHANGED <<row, offset, verified, sink, granted, reported, outcome>>

CopyWrite ==
  /\ pc = "write"
  /\ sink' = Append(sink, buffer)
  /\ pc' = "report"
  /\ UNCHANGED <<stream, row, offset, verified, buffer, granted, reported, faulted, outcome>>

\* Mutant of CopyReport: the callback is given the bytes left to copy.
CopyReportRemaining(continue) ==
  /\ pc = "report"
  /\ reported' = reported + (R.chunks - offset)
  /\ IF continue
     THEN granted' = granted + 1 /\ offset' = offset + 1 /\ pc' = "copy" /\ UNCHANGED outcome
     ELSE Throw("user_interrupt") /\ UNCHANGED <<granted, offset>>
  /\ UNCHANGED <<stream, row, verified, buffer, sink, faulted>>

CopyReport(continue) ==
  /\ pc = "report"
  /\ reported' = reported + 1
  /\ IF continue
     THEN granted' = granted + 1 /\ offset' = offset + 1 /\ pc' = "copy" /\ UNCHANGED outcome
     ELSE Throw("user_interrupt") /\ UNCHANGED <<granted, offset>>
  /\ UNCHANGED <<stream, row, verified, buffer, sink, faulted>>

CopyEnds ==
  /\ pc = "copy"
  /\ ~BytesLeft
  /\ Throw("returned")
  /\ UNCHANGED <<stream, row, offset, verified, buffer, sink, granted, reported, faulted>>

-----------------------------------------------------------------------------
(***************************************************************************)
(* write_converted.  A conversion starts with a look at its source: that   *)
(* of a texture reads through a bounded_stream, that of a binary resource  *)
(* through resource_reader, which clears the stream first.  From then on   *)
(* read_at clears the stream, checks its state and the count, and turns    *)
(* every fault into read_error, also over the view; the sink polls the     *)
(* host before each write; the packed size is reported once, at the end,   *)
(* whatever was written.                                                   *)
(***************************************************************************)
Probe ==
  /\ pc = "probe"
  /\ Bounded => stream = "good"
  /\ stream' = "good"
  /\ pc' = "convert"
  /\ UNCHANGED <<row, offset, verified, buffer, sink, granted, reported, faulted, outcome>>

\* The look fails, at a stream that failed earlier or by a fault it meets.
ProbeFails ==
  /\ pc = "probe"
  /\ faulted' = (faulted \/ ~Bounded \/ stream = "good")
  /\ stream' = "failed"
  /\ Throw("read_error")
  /\ UNCHANGED <<row, offset, verified, buffer, sink, granted, reported>>

\* What the next piece takes of the source is read, and the piece is made.
ConvertRead ==
  /\ pc = "convert"
  /\ PiecesLeft
  /\ stream' = "good"
  /\ buffer' = offset + 1
  /\ pc' = "poll"
  /\ UNCHANGED <<row, offset, verified, sink, granted, reported, faulted, outcome>>

ConvertReadFails ==
  /\ pc = "convert"
  /\ faulted' = TRUE
  /\ stream' = "failed"
  /\ Throw("read_error")
  /\ UNCHANGED <<row, offset, verified, buffer, sink, granted, reported>>

\* The stored bytes are not a resource of the descriptor's kind, or do not decode.
ConversionFails ==
  /\ pc \in {"probe", "convert"}
  /\ pc = "probe" /\ Bounded => stream = "good"
  /\ stream' = "good"
  /\ Throw("runtime_error")
  /\ UNCHANGED <<row, offset, verified, buffer, sink, granted, reported, faulted>>

\* Mutant of ConvertPoll: the poll comes after the write.
ConvertPollLate(continue) ==
  /\ pc = "poll"
  /\ sink' = Append(sink, buffer)
  /\ IF continue
     THEN granted' = granted + 1 /\ pc' = "convert" /\ offset' = offset + 1 /\ UNCHANGED outcome
     ELSE Throw("user_interrupt") /\ UNCHANGED <<granted, offset>>
  /\ UNCHANGED <<stream, row, verified, buffer, reported, faulted>>

ConvertPoll(continue) ==
  /\ pc = "poll"
  /\ IF continue THEN granted' = granted + 1 /\ pc' = "sink" /\ UNCHANGED outcome
                 ELSE Throw("user_interrupt") /\ UNCHANGED granted
  /\ UNCHANGED <<stream, row, offset, verified, buffer, sink, reported, faulted>>

ConvertWrite ==
  /\ pc = "sink"
  /\ sink' = Append(sink, buffer)
  /\ offset' = offset + 1
  /\ pc' = "convert"
  /\ UNCHANGED <<stream, row, verified, buffer, granted, reported, faulted, outcome>>

\* The final report; the host may still cancel a finished conversion.
ConvertEnds(continue) ==
  /\ pc = "convert"
  /\ ~PiecesLeft
  /\ reported' = R.packed
  /\ granted' = IF continue THEN granted + 1 ELSE granted
  /\ Throw(IF continue THEN "returned" ELSE "user_interrupt")
  /\ UNCHANGED <<stream, row, offset, verified, buffer, sink, faulted>>

-----------------------------------------------------------------------------
\* write_generated: the row's own text, then its size.
WriteGenerated(continue) ==
  /\ pc = "generate"
  /\ sink' = [k \in 1..R.chunks |-> k]
  /\ reported' = R.chunks
  /\ granted' = IF continue THEN 1 ELSE 0
  /\ Throw(IF continue THEN "returned" ELSE "user_interrupt")
  /\ UNCHANGED <<stream, row, offset, verified, buffer, faulted>>

\* The destination fails; its exception escapes the handler unchanged.
SinkFails ==
  /\ pc \in {"write", "sink", "generate"}
  /\ Throw("write_error")
  /\ UNCHANGED <<stream, row, offset, verified, buffer, sink, granted, reported, faulted>>

\* The handler going on, without a fault it would not meet by itself.
Proceed ==
  \/ PlainSource
  \/ EncryptedSource
  \/ stream = "failed" /\ EncryptedSourceFails
  \/ VerifyChunk
  \/ VerifyEnds
  \/ ReadPlain
  \/ ReadView
  \/ stream = "failed" /\ ReadViewFails
  \/ CopyWrite
  \/ CopyEnds
  \/ Probe
  \/ stream = "failed" /\ ProbeFails
  \/ ConvertRead
  \/ ConvertWrite
  \/ \E continue \in BOOLEAN :
       \/ CopyReport(continue)
       \/ ConvertPoll(continue)
       \/ ConvertEnds(continue)
       \/ WriteGenerated(continue)

Disturbed ==
  \/ EncryptedSourceFails
  \/ VerifyCancelled
  \/ ReadPlainFails
  \/ ReadViewFails
  \/ ProbeFails
  \/ ConvertReadFails
  \/ ConversionFails
  \/ SinkFails

Next == (\E r \in Rows : ExtractItem(r)) \/ Proceed \/ Disturbed

Spec == Init /\ [][Next]_vars

\* A handler that runs is not suspended: nothing in it waits, and the host
\* answers the callback it passed.
FairSpec == Spec /\ WF_vars(Proceed)

-----------------------------------------------------------------------------
TypeOK ==
  /\ stream \in {"good", "failed"}
  /\ row \in Rows
  /\ pc \in {"idle", "source", "verify", "copy", "write", "report", "probe", "convert", "poll", "sink",
             "generate"}
  /\ offset \in Nat
  /\ verified \in BOOLEAN
  /\ buffer \in Nat
  /\ sink \in Seq(Nat)
  /\ granted \in Nat
  /\ reported \in Nat
  /\ faulted \in BOOLEAN
  /\ outcome \in {"none", "returned", "read_error", "write_error", "user_interrupt",
                  "runtime_error"}

(***************************************************************************)
(* No byte of an encrypted row reaches the destination before the whole    *)
(* plaintext was checked against its digest, whatever is cancelled or      *)
(* retried (encrypted_payload.h, the contract of stream()).                *)
(***************************************************************************)
OnlyVerifiedIsWritten == Encrypted /\ sink # <<>> => verified /\ R.authentic

\* The unpacked size list_files shows: the stored one for a converted row.
ListedSize == IF Converted THEN R.packed ELSE R.chunks

(***************************************************************************)
(* Progress says nothing that is not done: a copy reports no more than it  *)
(* has written, a conversion its stored size and only with its whole       *)
(* output written; and the reports of a call that returns add up to the    *)
(* size its row was listed with (godot.cpp:379-401).                       *)
(***************************************************************************)
ProgressIsHonest ==
  /\ ~Converted => reported <= Len(sink)
  /\ Converted /\ reported # 0 => reported = R.packed /\ Len(sink) = R.output
  /\ outcome = "returned" => reported = ListedSize

\* Every write of a conversion was allowed by a poll of its own, so cancelling
\* stops it before it touches the destination again (godot.cpp:134).
WritesArePolled == Converted => Len(sink) <= granted

Total == IF Converted THEN R.output ELSE R.chunks
WholeRow == [k \in 1..Total |-> k]

\* What a row's handler promises archive (extractor.h): it returns only with
\* the whole row written.  The one exception is a row copied from the view
\* over a source that faulted.
CopiedFromView == Encrypted /\ ~Converted
HandlersDeliver == outcome = "returned" => sink = WholeRow \/ (CopiedFromView /\ faulted)

(***************************************************************************)
(* A call that met no fault of its own and cannot read its row either has  *)
(* forged bytes before it, or an earlier fault of the session still stands *)
(* in the stream and the row is encrypted or a texture to convert; it has  *)
(* written nothing then.  Rows that are copied plain, and binary resources *)
(* that are converted plain, recover from any earlier fault.               *)
(***************************************************************************)
PlainRowsRecover ==
  outcome = "read_error" /\ ~faulted =>
    /\ sink = <<>>
    /\ (Encrypted /\ ~R.authentic) \/ (Bounded /\ stream = "failed")

\* Every handler ends.
HandlerEnds == pc # "idle" ~> pc = "idle"

(***************************************************************************)
(* "a failed seek or short read therefore reaches the catch below"         *)
(* (godot.cpp:101): no read fault ends in a success.                       *)
(***************************************************************************)
FaultsAreReported == outcome = "returned" => ~faulted
=============================================================================
