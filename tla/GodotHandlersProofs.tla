------------------------ MODULE GodotHandlersProofs ------------------------
(***************************************************************************)
(* What the handlers of module GodotHandlers promise, for every listing.   *)
(***************************************************************************)
EXTENDS GodotHandlers, TLAPS

Working == {"copy", "write", "report", "convert", "poll", "sink"}

(***************************************************************************)
(* The strengthening.  Place: where a handler is agrees with its row, and  *)
(* an encrypted row is past its verification before anything else; its     *)
(* stream was good then, so a failed one failed during this call, and a    *)
(* conversion past its first look never runs on a failed stream.           *)
(* Counts: what was written and reported is where the loop stands.         *)
(* Content: the pieces written are the row's first ones, except after a    *)
(* fault under a copy from the view.                                       *)
(***************************************************************************)
Converting == {"convert", "poll", "sink"}

Place ==
  /\ pc # "idle" => outcome = "none"
  /\ pc \in {"copy", "write", "report"} => ~Converted
  /\ pc \in {"probe"} \cup Converting => Converted
  /\ pc \in {"source", "verify", "probe"} \cup Working => R.stored # "generated"
  /\ pc = "generate" => R.stored = "generated"
  /\ pc = "verify" => Encrypted
  /\ Encrypted /\ (pc \in {"probe"} \cup Working \/ sink # <<>>) => verified /\ R.authentic
  /\ Encrypted /\ pc \in {"verify", "probe"} \cup Working /\ stream = "failed" => faulted
  /\ pc \in Converting => stream = "good"

Counts ==
  /\ pc \in {"source", "verify"} => offset <= R.chunks
  /\ pc \in Working => offset <= Total
  /\ pc \in {"source", "verify", "probe", "generate"} => sink = <<>> /\ reported = 0
  /\ pc \in {"source", "probe"} => offset = 0
  /\ pc \in Working \ {"copy", "convert"} => offset < Total
  /\ pc \in Working \ {"report"} => Len(sink) = offset
  /\ pc = "report" => Len(sink) = offset + 1
  /\ pc \in {"copy", "write", "report"} => reported = offset
  /\ pc \in Converting => reported = 0
  /\ ~Converted => reported <= Len(sink)
  /\ Converted /\ reported # 0 => reported = R.packed /\ Len(sink) = R.output

Torn == CopiedFromView /\ faulted

Content ==
  /\ Torn \/ \A k \in 1..Len(sink) : sink[k] = k
  /\ pc = "write" => Torn \/ buffer = offset + 1
  /\ pc \in {"poll", "sink"} => buffer = offset + 1

Results ==
  /\ outcome = "returned" => reported = ListedSize /\ Len(sink) = Total
  /\ PlainRowsRecover

IndInv == TypeOK /\ Place /\ Counts /\ Content /\ Results

-----------------------------------------------------------------------------
LEMMA RowsHaveTypes == ASSUME NEW r \in Rows PROVE Row[r] \in RowType
BY RowAssumption

\* What appending the next piece does to a sink.
LEMMA AppendPiece ==
  ASSUME NEW s \in Seq(Nat), NEW e \in Nat
  PROVE  /\ Append(s, e) \in Seq(Nat)
         /\ Len(Append(s, e)) = Len(s) + 1
         /\ Len(s) \in Nat
         /\ \A k \in 1..Len(Append(s, e)) :
              Append(s, e)[k] = IF k = Len(s) + 1 THEN e ELSE s[k]
OBVIOUS

LEMMA NoPieces == <<>> \in Seq(Nat) /\ Len(<<>>) = 0
OBVIOUS

LEMMA InitEstablishes == Init => IndInv
<1> SUFFICES ASSUME Init PROVE IndInv
  OBVIOUS
<1>1. TypeOK
  BY NoPieces, Zenon DEF Init, TypeOK
<1>2. R \in RowType
  BY RowsHaveTypes DEF Init, R
<1> QED
  BY <1>1, <1>2, NoPieces DEF Init, IndInv, Place, Counts, Content, Results, Working, Converting,
     Encrypted, Converted, Bounded, Total, ListedSize, CopiedFromView, Torn, PlainRowsRecover, RowType

LEMMA NextPreserves == IndInv /\ [Next]_vars => IndInv'
<1> SUFFICES ASSUME IndInv, [Next]_vars PROVE IndInv'
  OBVIOUS
<1>R. R \in RowType
  BY RowsHaveTypes DEF IndInv, TypeOK, R
<1> USE DEF Working, Converting, RowType, Converted, Bounded, Total, ListedSize
<1>1. ASSUME NEW r \in Rows, ExtractItem(r) PROVE IndInv'
  <2>1. R' \in RowType /\ R' = Row[r]
    BY <1>1, RowsHaveTypes DEF ExtractItem, R
  <2>2. (Row[r].stored = "generated" => pc' = "generate") /\ (Row[r].stored # "generated" => pc' = "source")
    BY <1>1 DEF ExtractItem
  <2>3. sink' = <<>> /\ sink' \in Seq(Nat) /\ Len(sink') = 0
    BY <1>1, NoPieces DEF ExtractItem
  <2>4. TypeOK'
    BY <1>1, <2>2, <2>3 DEF ExtractItem, IndInv, TypeOK
  <2>5. Place'
    BY <1>1, <2>1, <2>2, <2>3 DEF ExtractItem, Place, Encrypted
  <2>6. Counts'
    BY <1>1, <2>1, <2>2, <2>3 DEF ExtractItem, Counts
  <2>7. Content' /\ Results'
    BY <1>1, <2>2, <2>3 DEF ExtractItem, Content, Results, PlainRowsRecover
  <2> QED
    BY <2>4, <2>5, <2>6, <2>7 DEF IndInv
<1>2. CASE UNCHANGED vars
  BY <1>2 DEF vars, IndInv, TypeOK, Place, Counts, Content, Results, R, Encrypted, CopiedFromView,
     Torn, PlainRowsRecover
\* Every other step stays with the row.
<1>3. ASSUME Proceed \/ Disturbed PROVE row' = row /\ R' = R
  BY <1>3 DEF R, Proceed, Disturbed, PlainSource, EncryptedSource, EncryptedSourceFails, VerifyChunk,
     VerifyEnds, VerifyCancelled, ReadPlain, ReadPlainFails, ReadView, ReadViewFails, CopyWrite,
     CopyReport, CopyEnds, Probe, ProbeFails, ConvertRead, ConvertReadFails, ConversionFails, ConvertPoll,
     ConvertWrite, ConvertEnds, WriteGenerated, SinkFails
<1> USE DEF IndInv, TypeOK, Place, Counts, Content, Results, Encrypted, CopiedFromView, Torn,
     PlainRowsRecover, BytesLeft, PiecesLeft, Throw, Body
<1>4. CASE PlainSource
  BY <1>3, <1>4, <1>R DEF PlainSource, Proceed
<1>5. CASE EncryptedSource
  BY <1>3, <1>5, <1>R DEF EncryptedSource, Proceed
<1>6. CASE EncryptedSourceFails
  BY <1>3, <1>6, <1>R DEF EncryptedSourceFails, Disturbed
<1>7. CASE VerifyChunk
  BY <1>3, <1>7, <1>R DEF VerifyChunk, Proceed
<1>8. CASE VerifyCancelled
  BY <1>3, <1>8, <1>R DEF VerifyCancelled, Disturbed
<1>9. CASE VerifyEnds
  <2>1. UNCHANGED <<stream, row, buffer, sink, granted, reported, faulted>> /\ R' = R
    BY <1>3, <1>9 DEF VerifyEnds, Proceed
  <2>2. CASE R.authentic
    BY <1>9, <1>R, <2>1, <2>2 DEF VerifyEnds
  <2>3. CASE ~R.authentic
    <3>1. pc' = "idle" /\ outcome' = "read_error" /\ UNCHANGED <<verified, offset>> /\ pc = "verify"
      BY <1>9, <2>3 DEF VerifyEnds
    <3>2. TypeOK'
      BY <2>1, <3>1
    <3>5. sink = <<>> /\ sink' = <<>>
      BY <2>1, <3>1
    <3>6. Place'
      BY <2>1, <3>1, <3>5
    <3>3. Counts'
      BY <1>R, <2>1, <3>1
    <3>4. Content' /\ Results'
      BY <2>1, <2>3, <3>1, <3>5
    <3> QED
      BY <3>2, <3>3, <3>4, <3>6
  <2> QED
    BY <2>2, <2>3
<1>10. CASE ReadPlain
  BY <1>3, <1>10, <1>R DEF ReadPlain, Proceed
<1>11. CASE ReadPlainFails
  BY <1>3, <1>11, <1>R DEF ReadPlainFails, Disturbed
<1>12. CASE ReadView
  BY <1>3, <1>12, <1>R DEF ReadView, Proceed
<1>13. CASE ReadViewFails
  <2>1. /\ UNCHANGED <<row, offset, verified, sink, granted, reported, outcome>> /\ R' = R
        /\ pc = "copy" /\ pc' = "write" /\ offset < R.chunks
        /\ buffer' \in {buffer, 0} /\ stream' = "failed"
        /\ faulted' = (faulted \/ stream = "good")
    BY <1>3, <1>13 DEF ReadViewFails, Disturbed
  <2>2. faulted'
    BY <1>13, <2>1, <1>R DEF ReadViewFails
  <2>3. TypeOK' /\ Place'
    BY <1>13, <1>R, <2>1, <2>2 DEF ReadViewFails
  <2>4. Counts'
    BY <1>R, <2>1
  <2>5. Torn'
    BY <1>13, <2>1, <2>2 DEF ReadViewFails
  <2>6. Content' /\ Results'
    BY <1>13, <2>1, <2>5 DEF ReadViewFails
  <2> QED
    BY <2>3, <2>4, <2>6
<1>14. CASE CopyWrite
  <2>1. sink' = Append(sink, buffer)
    BY <1>14 DEF CopyWrite
  <2>2. Content'
    BY <1>3, <1>14, <2>1, AppendPiece DEF CopyWrite, Proceed
  <2>3. TypeOK' /\ Place' /\ Counts' /\ Results'
    BY <1>3, <1>14, <1>R, <2>1, AppendPiece DEF CopyWrite, Proceed
  <2> QED
    BY <2>2, <2>3
<1>15. ASSUME NEW c \in BOOLEAN, CopyReport(c) PROVE IndInv'
  BY <1>3, <1>15, <1>R DEF CopyReport, Proceed
<1>16. CASE CopyEnds
  BY <1>3, <1>16, <1>R DEF CopyEnds, Proceed
<1>17. CASE ConvertRead
  BY <1>3, <1>17, <1>R DEF ConvertRead, Proceed
<1>18. CASE ConvertReadFails
  BY <1>3, <1>18, <1>R DEF ConvertReadFails, Disturbed
<1>19. CASE ConversionFails
  BY <1>3, <1>19, <1>R DEF ConversionFails, Disturbed
<1>20. ASSUME NEW c \in BOOLEAN, ConvertPoll(c) PROVE IndInv'
  BY <1>3, <1>20, <1>R DEF ConvertPoll, Proceed
<1>21. CASE ConvertWrite
  <2>1. sink' = Append(sink, buffer)
    BY <1>21 DEF ConvertWrite
  <2>2. Content'
    BY <1>3, <1>21, <2>1, AppendPiece DEF ConvertWrite, Proceed
  <2>3. TypeOK' /\ Place' /\ Counts' /\ Results'
    BY <1>3, <1>21, <1>R, <2>1, AppendPiece DEF ConvertWrite, Proceed
  <2> QED
    BY <2>2, <2>3
<1>22. ASSUME NEW c \in BOOLEAN, ConvertEnds(c) PROVE IndInv'
  BY <1>3, <1>22, <1>R DEF ConvertEnds, Proceed
<1>23. ASSUME NEW c \in BOOLEAN, WriteGenerated(c) PROVE IndInv'
  <2> DEFINE text == [k \in 1..R.chunks |-> k]
  <2>1. text \in Seq(Nat) /\ Len(text) = R.chunks
    BY <1>R
  <2>2. sink' = text
    BY <1>23 DEF WriteGenerated
  <2>3. /\ UNCHANGED <<stream, row, offset, verified, buffer, faulted>> /\ R' = R
        /\ pc = "generate" /\ pc' = "idle" /\ outcome' \in {"returned", "user_interrupt"}
        /\ reported' = R.chunks /\ granted' \in {0, 1}
    BY <1>3, <1>23 DEF WriteGenerated, Proceed
  <2>4. \A k \in 1..Len(sink') : sink'[k] = k
    BY <2>1, <2>2
  <2> HIDE DEF text
  <2>5. sink' \in Seq(Nat) /\ Len(sink') = R.chunks
    BY <2>1, <2>2
  <2>6. ~Encrypted
    BY <2>3
  <2>12. R.chunks \in Nat
    BY <1>R
  <2>13. ~Converted
    BY <2>3, RowAssumption DEF R
  <2>7. TypeOK'
    BY <2>3, <2>5, <2>12
  <2>11. Place'
    BY <2>3, <2>6
  <2>8. Counts'
    BY <2>3, <2>5, <2>12, <2>13
  <2>9. Content'
    BY <2>3, <2>4
  <2>10. Results'
    BY <2>3, <2>5, <2>13
  <2> QED
    BY <2>7, <2>8, <2>9, <2>10, <2>11
<1>25. CASE Probe
  BY <1>3, <1>25, <1>R DEF Probe, Proceed
<1>26. CASE ProbeFails
  BY <1>3, <1>26, <1>R DEF ProbeFails, Disturbed
<1>24. CASE SinkFails
  BY <1>3, <1>24, <1>R DEF SinkFails, Disturbed
<1> QED
  BY <1>1, <1>2, <1>4, <1>5, <1>6, <1>7, <1>8, <1>9, <1>10, <1>11, <1>12, <1>13, <1>14, <1>15,
     <1>16, <1>17, <1>18, <1>19, <1>20, <1>21, <1>22, <1>23, <1>24, <1>25,
     <1>26 DEF Next, Proceed, Disturbed

\* The invariant of the handlers holds in every reachable state.
THEOREM Invariance == Spec => []IndInv
<1>1. Init => IndInv
  BY InitEstablishes
<1>2. IndInv /\ [Next]_vars => IndInv'
  BY NextPreserves
<1> QED
  BY <1>1, <1>2, PTL DEF Spec

\* The members of the handlers' state have their types.
THEOREM TypeCorrect == Spec => []TypeOK
BY Invariance, PTL DEF IndInv

\* No byte of an encrypted row is written before its plaintext was verified.
THEOREM WritesAreVerified == Spec => []OnlyVerifiedIsWritten
<1>1. IndInv => OnlyVerifiedIsWritten
  BY DEF IndInv, Place, OnlyVerifiedIsWritten
<1> QED
  BY <1>1, Invariance, PTL

\* A copy reports what it has written, a conversion its stored size once its
\* output is complete, and a call that returns the size of its row.
THEOREM ProgressStaysHonest == Spec => []ProgressIsHonest
<1>1. IndInv => ProgressIsHonest
  BY DEF IndInv, Counts, Results, ProgressIsHonest
<1> QED
  BY <1>1, Invariance, PTL

\* A handler that returns has written its whole row, a row copied from a
\* faulting view excepted.
THEOREM HandlersDeliverRows == Spec => []HandlersDeliver
<1>1. IndInv => HandlersDeliver
  <2> SUFFICES ASSUME IndInv, outcome = "returned", ~Torn PROVE sink = WholeRow
    BY DEF HandlersDeliver, Torn
  <2>1. sink \in Seq(Nat) /\ Len(sink) = Total /\ \A k \in 1..Len(sink) : sink[k] = k
    BY DEF IndInv, TypeOK, Content, Results
  <2> QED
    BY <2>1 DEF WholeRow, Total
<1> QED
  BY <1>1, Invariance, PTL

\* A call without a fault of its own is refused only over forged bytes, or as
\* an encrypted row or a texture behind an earlier fault, with nothing written.
THEOREM PlainRowsAlwaysRecover == Spec => []PlainRowsRecover
<1>1. IndInv => PlainRowsRecover
  BY DEF IndInv, Results
<1> QED
  BY <1>1, Invariance, PTL
-----------------------------------------------------------------------------
\* Between its poll and its write a conversion has one grant in hand.
Polled ==
  Converted => /\ Len(sink) <= granted
               /\ pc = "sink" => Len(sink) < granted

\* Nothing is written before the first poll.
LEMMA InitPolled == Init => Polled
BY NoPieces DEF Init, Polled

\* Only a poll's grant is spent by a write, and no step takes a grant back.
LEMMA NextKeepsPolled == IndInv /\ Polled /\ [Next]_vars => Polled'
<1> SUFFICES ASSUME IndInv, Polled, [Next]_vars PROVE Polled'
  OBVIOUS
<1>1. TypeOK /\ Place
  BY DEF IndInv
<1>2. CASE sink' = sink /\ granted' = granted /\ row' = row /\ pc' # "sink"
  BY <1>2 DEF Polled, Converted, R
<1>3. CASE UNCHANGED vars
  BY <1>3 DEF vars, Polled, Converted, R
<1>4. ASSUME NEW r \in Rows, ExtractItem(r) PROVE Polled'
  BY <1>4, NoPieces DEF ExtractItem, Polled
<1>5. CASE CopyWrite
  BY <1>1, <1>5 DEF CopyWrite, Place, Polled, Converted, R
<1>6. ASSUME NEW c \in BOOLEAN, CopyReport(c) PROVE Polled'
  BY <1>1, <1>6 DEF CopyReport, Place, Polled, Converted, R
<1>7. ASSUME NEW c \in BOOLEAN, ConvertPoll(c) PROVE Polled'
  <2>1. Len(sink) \in Nat /\ granted \in Nat
    BY <1>1, AppendPiece DEF TypeOK
  <2>2. UNCHANGED <<row, sink>> /\ granted' \in {granted, granted + 1}
        /\ (pc' = "sink" => granted' = granted + 1)
    BY <1>7 DEF ConvertPoll, Throw
  <2> QED
    BY <2>1, <2>2 DEF Polled, Converted, R
<1>8. CASE ConvertWrite
  <2>1. sink' = Append(sink, buffer) /\ pc = "sink" /\ pc' # "sink" /\ UNCHANGED <<row, granted>>
    BY <1>8 DEF ConvertWrite
  <2>2. Len(sink') = Len(sink) + 1 /\ Len(sink) \in Nat /\ granted \in Nat
    BY <1>1, <2>1, AppendPiece DEF TypeOK
  <2> QED
    BY <2>1, <2>2 DEF Polled, Converted, R
<1>9. ASSUME NEW c \in BOOLEAN, ConvertEnds(c) PROVE Polled'
  <2>1. Len(sink) \in Nat /\ granted \in Nat
    BY <1>1, AppendPiece DEF TypeOK
  <2>2. UNCHANGED <<row, sink>> /\ granted' \in {granted, granted + 1} /\ pc' # "sink"
    BY <1>9 DEF ConvertEnds, Throw
  <2> QED
    BY <2>1, <2>2 DEF Polled, Converted, R
<1>10. ASSUME NEW c \in BOOLEAN, WriteGenerated(c) PROVE Polled'
  <2>1. R' = R /\ R.stored = "generated"
    BY <1>1, <1>10 DEF WriteGenerated, Place, R
  <2>2. ~Converted
    BY <1>1, <2>1, RowAssumption DEF TypeOK, Converted, R
  <2> QED
    BY <2>1, <2>2 DEF Polled, Converted
<1> QED
  BY <1>2, <1>3, <1>4, <1>5, <1>6, <1>7, <1>8, <1>9, <1>10
     DEF Next, Proceed, Disturbed, PlainSource, EncryptedSource, EncryptedSourceFails, VerifyChunk,
     VerifyEnds, VerifyCancelled, ReadPlain, ReadPlainFails, ReadView, ReadViewFails, CopyEnds,
     Probe, ProbeFails, ConvertRead, ConvertReadFails, ConversionFails, SinkFails, Throw, Body

\* Every write of a conversion was allowed by a poll of its own.
THEOREM WritesStayPolled == Spec => []WritesArePolled
<1>1. Polled => WritesArePolled
  BY DEF Polled, WritesArePolled
<1> QED
  BY <1>1, InitPolled, NextKeepsPolled, Invariance, PTL DEF Spec

-----------------------------------------------------------------------------
(***************************************************************************)
(* The safety half of HandlerEnds: what is left of a call is a number that *)
(* every step of the handler lowers, so a call on a row of n chunks that   *)
(* delivers m pieces is over after at most n + 3 * m + 4 steps: one for    *)
(* the source, a pass over the row that verifies it, one for the look at   *)
(* a resource, and three for each piece that is delivered.  A fill that    *)
(* keeps failing under a copy from the view takes a chunk's turn like one  *)
(* that succeeds.                                                          *)
(***************************************************************************)
Remaining(at, chunks, pieces) ==
  CASE at = "idle" -> 0
    [] at = "generate" -> 1
    [] at \in {"copy", "convert"} -> 3 * pieces + 1
    [] at \in {"write", "poll"} -> 3 * pieces
    [] at \in {"report", "sink"} -> 3 * pieces - 1
    [] at = "probe" -> 3 * pieces + 2
    [] at = "verify" -> chunks + 3 * pieces + 3
    [] at = "source" -> chunks + 3 * pieces + 4

\* The pass over the chunks comes before the delivery of the pieces.
ChunksToVerify == R.chunks - offset
PiecesToDeliver == IF pc = "verify" THEN Total ELSE Total - offset

HandlerMeasure == Remaining(pc, ChunksToVerify, PiecesToDeliver)

HandlerShrinks == [][pc # "idle" => HandlerMeasure' < HandlerMeasure]_vars

\* What is left, place by place.
LEMMA Remainders ==
  ASSUME NEW chunks \in Int, NEW pieces \in Int
  PROVE  /\ Remaining("idle", chunks, pieces) = 0
         /\ Remaining("generate", chunks, pieces) = 1
         /\ Remaining("copy", chunks, pieces) = 3 * pieces + 1
         /\ Remaining("convert", chunks, pieces) = 3 * pieces + 1
         /\ Remaining("write", chunks, pieces) = 3 * pieces
         /\ Remaining("poll", chunks, pieces) = 3 * pieces
         /\ Remaining("report", chunks, pieces) = 3 * pieces - 1
         /\ Remaining("sink", chunks, pieces) = 3 * pieces - 1
         /\ Remaining("probe", chunks, pieces) = 3 * pieces + 2
         /\ Remaining("verify", chunks, pieces) = chunks + 3 * pieces + 3
         /\ Remaining("source", chunks, pieces) = chunks + 3 * pieces + 4
BY DEF Remaining

\* The sizes of a running call are numbers.
LEMMA Sizes ==
  ASSUME IndInv
  PROVE  /\ offset \in Nat /\ R.chunks \in Nat /\ Total \in Nat
         /\ ChunksToVerify \in Int /\ PiecesToDeliver \in Int
<1>1. offset \in Nat /\ R.chunks \in Nat /\ R.output \in Nat
  BY RowsHaveTypes DEF IndInv, TypeOK, R, RowType
<1>2. Total \in Nat
  BY <1>1 DEF Total
<1> QED
  BY <1>1, <1>2 DEF ChunksToVerify, PiecesToDeliver

\* While a handler runs there is something left of it.
LEMMA SomethingRemains ==
  ASSUME IndInv
  PROVE  HandlerMeasure \in Nat /\ (pc # "idle" => HandlerMeasure > 0)
<1>1. /\ offset \in Nat /\ R.chunks \in Nat /\ Total \in Nat
      /\ ChunksToVerify \in Int /\ PiecesToDeliver \in Int
  BY Sizes
<1>2. pc \in {"idle", "source", "verify", "copy", "write", "report", "probe", "convert", "poll",
              "sink", "generate"}
  BY DEF IndInv, TypeOK
<1>3. /\ pc \in {"source", "verify"} => ChunksToVerify >= 0
      /\ pc \in {"source", "probe", "verify", "copy", "convert"} => PiecesToDeliver >= 0
      /\ pc \in {"write", "report", "poll", "sink"} => PiecesToDeliver > 0
  <2>1. /\ pc \in {"source", "verify"} => offset <= R.chunks
        /\ pc \in {"source", "probe"} => offset = 0
        /\ pc \in {"copy", "convert"} => offset <= Total
        /\ pc \in {"write", "report", "poll", "sink"} => offset < Total
    BY DEF IndInv, Counts, Working
  <2> QED
    BY <1>1, <2>1 DEF ChunksToVerify, PiecesToDeliver
<1> DEFINE c == ChunksToVerify
           p == PiecesToDeliver
<1>4. HandlerMeasure = Remaining(pc, c, p)
  BY DEF HandlerMeasure
<1>5. /\ c \in Int /\ p \in Int
      /\ pc \in {"source", "verify"} => c >= 0
      /\ pc \in {"source", "probe", "verify", "copy", "convert"} => p >= 0
      /\ pc \in {"write", "report", "poll", "sink"} => p > 0
  BY <1>1, <1>3
<1> HIDE DEF c, p
<1>6. CASE pc = "idle" \/ pc = "generate"
  <2>1. HandlerMeasure = IF pc = "idle" THEN 0 ELSE 1
    BY <1>4, <1>5, <1>6, Remainders
  <2> QED
    BY <1>6, <2>1
<1>7. CASE pc \in {"copy", "convert"}
  <2>1. HandlerMeasure = 3 * p + 1
    BY <1>4, <1>5, <1>7, Remainders
  <2> QED
    BY <1>5, <1>7, <2>1
<1>8. CASE pc \in {"write", "poll"}
  <2>1. HandlerMeasure = 3 * p
    BY <1>4, <1>5, <1>8, Remainders
  <2> QED
    BY <1>5, <1>8, <2>1
<1>9. CASE pc \in {"report", "sink"}
  <2>1. HandlerMeasure = 3 * p - 1
    BY <1>4, <1>5, <1>9, Remainders
  <2> QED
    BY <1>5, <1>9, <2>1
<1>10. CASE pc = "probe"
  <2>1. HandlerMeasure = 3 * p + 2
    BY <1>4, <1>5, <1>10, Remainders
  <2> QED
    BY <1>5, <1>10, <2>1
<1>11. CASE pc = "verify"
  <2>1. HandlerMeasure = c + 3 * p + 3
    BY <1>4, <1>5, <1>11, Remainders
  <2> QED
    BY <1>5, <1>11, <2>1
<1>12. CASE pc = "source"
  <2>1. HandlerMeasure = c + 3 * p + 4
    BY <1>4, <1>5, <1>12, Remainders
  <2> QED
    BY <1>5, <1>12, <2>1
<1> QED
  BY <1>2, <1>6, <1>7, <1>8, <1>9, <1>10, <1>11, <1>12

\* Every step of a handler leaves less of it.
LEMMA HandlerStepShrinks ==
  ASSUME IndInv, Next, pc # "idle"
  PROVE  HandlerMeasure' < HandlerMeasure
<1>1. HandlerMeasure \in Nat /\ HandlerMeasure > 0
  BY SomethingRemains
<1>2. Proceed \/ Disturbed
  BY DEF Next, ExtractItem
<1>3. R' = R
  BY <1>2 DEF R, Proceed, Disturbed, PlainSource, EncryptedSource, EncryptedSourceFails, VerifyChunk,
     VerifyEnds, VerifyCancelled, ReadPlain, ReadPlainFails, ReadView, ReadViewFails, CopyWrite,
     CopyReport, CopyEnds, Probe, ProbeFails, ConvertRead, ConvertReadFails, ConversionFails,
     ConvertPoll, ConvertWrite, ConvertEnds, WriteGenerated, SinkFails
<1> DEFINE n == R.chunks
           m == Total
<1>4. offset \in Nat /\ n \in Nat /\ m \in Nat
  BY Sizes
<1>5. HandlerMeasure = Remaining(pc, n - offset, IF pc = "verify" THEN m ELSE m - offset)
  BY DEF HandlerMeasure, ChunksToVerify, PiecesToDeliver
<1>6. HandlerMeasure' = Remaining(pc', n - offset', IF pc' = "verify" THEN m ELSE m - offset')
  BY <1>3 DEF HandlerMeasure, ChunksToVerify, PiecesToDeliver, Total, Converted
<1>7. pc = "verify" => offset <= n
  BY DEF IndInv, Counts
<1>8. pc \in {"source", "probe"} => offset = 0
  BY DEF IndInv, Counts
<1> HIDE DEF n, m
<1>9. n - offset \in Int /\ m - offset \in Int /\ n - (offset + 1) \in Int /\ m - (offset + 1) \in Int
      /\ n - 0 \in Int /\ m - 0 \in Int
  BY <1>4
<1>10. CASE pc' = "idle" /\ offset' = offset
  <2>1. HandlerMeasure' = 0
    BY <1>4, <1>6, <1>9, <1>10, Remainders
  <2> QED
    BY <1>1, <2>1
<1>11. CASE PlainSource \/ EncryptedSource
  <2>1. pc = "source" /\ pc' \in {"copy", "probe", "verify"} /\ offset' = offset
    BY <1>11 DEF PlainSource, EncryptedSource, Body
  <2>2. HandlerMeasure = (n - offset) + 3 * (m - offset) + 4 /\ offset = 0
    BY <1>5, <1>8, <1>9, <2>1, Remainders
  <2>3. CASE pc' = "copy"
    <3>1. HandlerMeasure' = 3 * (m - offset) + 1
      BY <1>6, <1>9, <2>1, <2>3, Remainders
    <3> QED
      BY ONLY <1>4, <2>2, <3>1
  <2>4. CASE pc' = "probe"
    <3>1. HandlerMeasure' = 3 * (m - offset) + 2
      BY <1>6, <1>9, <2>1, <2>4, Remainders
    <3> QED
      BY ONLY <1>4, <2>2, <3>1
  <2>5. CASE pc' = "verify"
    <3>1. HandlerMeasure' = (n - offset) + 3 * m + 3
      BY <1>4, <1>6, <1>9, <2>1, <2>5, Remainders
    <3> QED
      BY ONLY <1>4, <2>2, <3>1
  <2> QED
    BY <2>1, <2>3, <2>4, <2>5
<1>12. CASE VerifyChunk
  <2>1. pc = "verify" /\ pc' = "verify" /\ offset' = offset + 1
    BY <1>12 DEF VerifyChunk
  <2>2. HandlerMeasure = (n - offset) + 3 * m + 3
    BY <1>4, <1>5, <1>9, <2>1, Remainders
  <2>3. HandlerMeasure' = (n - (offset + 1)) + 3 * m + 3
    BY <1>4, <1>6, <1>9, <2>1, Remainders
  <2> QED
    BY ONLY <1>4, <2>2, <2>3
<1>13. CASE VerifyEnds /\ R.authentic
  <2>1. pc = "verify" /\ pc' \in {"copy", "probe"} /\ offset' = 0
    BY <1>13 DEF VerifyEnds, Body
  <2>2. HandlerMeasure = (n - offset) + 3 * m + 3
    BY <1>4, <1>5, <1>9, <2>1, Remainders
  <2>3. CASE pc' = "copy"
    <3>1. HandlerMeasure' = 3 * (m - 0) + 1
      BY <1>6, <1>9, <2>1, <2>3, Remainders
    <3> QED
      BY ONLY <1>4, <1>7, <2>1, <2>2, <3>1
  <2>4. CASE pc' = "probe"
    <3>1. HandlerMeasure' = 3 * (m - 0) + 2
      BY <1>6, <1>9, <2>1, <2>4, Remainders
    <3> QED
      BY ONLY <1>4, <1>7, <2>1, <2>2, <3>1
  <2> QED
    BY <2>1, <2>3, <2>4
<1>14. CASE ReadPlain \/ ReadView \/ ReadViewFails \/ ConvertRead
  <2>1. pc \in {"copy", "convert"} /\ pc' \in {"write", "poll"} /\ offset' = offset
    BY <1>14 DEF ReadPlain, ReadView, ReadViewFails, ConvertRead
  <2>4. HandlerMeasure = Remaining(pc, n - offset, m - offset)
    BY <1>5, <2>1
  <2>5. HandlerMeasure' = Remaining(pc', n - offset, m - offset)
    BY <1>6, <2>1
  <2>6. /\ Remaining("copy", n - offset, m - offset) = 3 * (m - offset) + 1
        /\ Remaining("convert", n - offset, m - offset) = 3 * (m - offset) + 1
    BY <1>9, Remainders
  <2>7. /\ Remaining("write", n - offset, m - offset) = 3 * (m - offset)
        /\ Remaining("poll", n - offset, m - offset) = 3 * (m - offset)
    BY <1>9, Remainders
  <2>2. HandlerMeasure = 3 * (m - offset) + 1
    BY <2>1, <2>4, <2>6
  <2>3. HandlerMeasure' = 3 * (m - offset)
    BY <2>1, <2>5, <2>7
  <2> QED
    BY ONLY <1>4, <2>2, <2>3
<1>15. CASE CopyWrite \/ \E continue \in BOOLEAN : ConvertPoll(continue) /\ pc' # "idle"
  <2>1. pc \in {"write", "poll"} /\ pc' \in {"report", "sink"} /\ offset' = offset
    BY <1>15 DEF CopyWrite, ConvertPoll, Throw
  <2>4. HandlerMeasure = Remaining(pc, n - offset, m - offset)
    BY <1>5, <2>1
  <2>5. HandlerMeasure' = Remaining(pc', n - offset, m - offset)
    BY <1>6, <2>1
  <2>6. /\ Remaining("write", n - offset, m - offset) = 3 * (m - offset)
        /\ Remaining("poll", n - offset, m - offset) = 3 * (m - offset)
    BY <1>9, Remainders
  <2>7. /\ Remaining("report", n - offset, m - offset) = 3 * (m - offset) - 1
        /\ Remaining("sink", n - offset, m - offset) = 3 * (m - offset) - 1
    BY <1>9, Remainders
  <2>2. HandlerMeasure = 3 * (m - offset)
    BY <2>1, <2>4, <2>6
  <2>3. HandlerMeasure' = 3 * (m - offset) - 1
    BY <2>1, <2>5, <2>7
  <2> QED
    BY ONLY <1>4, <2>2, <2>3
<1>16. CASE ConvertWrite \/ \E continue \in BOOLEAN : CopyReport(continue) /\ pc' # "idle"
  <2>1. pc \in {"report", "sink"} /\ pc' \in {"copy", "convert"} /\ offset' = offset + 1
    BY <1>16 DEF ConvertWrite, CopyReport, Throw
  <2>4. HandlerMeasure = Remaining(pc, n - offset, m - offset)
    BY <1>5, <2>1
  <2>5. HandlerMeasure' = Remaining(pc', n - (offset + 1), m - (offset + 1))
    BY <1>6, <2>1
  <2>6. /\ Remaining("report", n - offset, m - offset) = 3 * (m - offset) - 1
        /\ Remaining("sink", n - offset, m - offset) = 3 * (m - offset) - 1
    BY <1>9, Remainders
  <2>7. /\ Remaining("copy", n - (offset + 1), m - (offset + 1)) = 3 * (m - (offset + 1)) + 1
        /\ Remaining("convert", n - (offset + 1), m - (offset + 1)) = 3 * (m - (offset + 1)) + 1
    BY <1>9, Remainders
  <2>2. HandlerMeasure = 3 * (m - offset) - 1
    BY <2>1, <2>4, <2>6
  <2>3. HandlerMeasure' = 3 * (m - (offset + 1)) + 1
    BY <2>1, <2>5, <2>7
  <2> QED
    BY ONLY <1>4, <2>2, <2>3
<1>17. CASE Probe
  <2>1. pc = "probe" /\ pc' = "convert" /\ offset' = offset
    BY <1>17 DEF Probe
  <2>2. HandlerMeasure = 3 * (m - offset) + 2
    BY <1>5, <1>9, <2>1, Remainders
  <2>3. HandlerMeasure' = 3 * (m - offset) + 1
    BY <1>6, <1>9, <2>1, Remainders
  <2> QED
    BY ONLY <1>4, <2>2, <2>3
\* The other steps end the call where it stands.
<1>18. CASE VerifyEnds /\ ~R.authentic
  BY <1>10, <1>18 DEF VerifyEnds, Throw
<1>19. CASE CopyEnds
  BY <1>10, <1>19 DEF CopyEnds, Throw
<1>20. ASSUME NEW c \in BOOLEAN, CopyReport(c) \/ ConvertPoll(c), pc' = "idle"
       PROVE  HandlerMeasure' < HandlerMeasure
  BY <1>10, <1>20 DEF CopyReport, ConvertPoll, Throw
<1>21. ASSUME NEW c \in BOOLEAN, ConvertEnds(c) \/ WriteGenerated(c)
       PROVE  HandlerMeasure' < HandlerMeasure
  BY <1>10, <1>21 DEF ConvertEnds, WriteGenerated, Throw
<1>22. CASE EncryptedSourceFails \/ ProbeFails
  BY <1>10, <1>22 DEF EncryptedSourceFails, ProbeFails, Throw
<1>23. CASE VerifyCancelled \/ ReadPlainFails \/ ConvertReadFails \/ ConversionFails \/ SinkFails
  BY <1>10, <1>23 DEF VerifyCancelled, ReadPlainFails, ConvertReadFails, ConversionFails, SinkFails, Throw
<1> QED
  BY <1>2, <1>11, <1>12, <1>13, <1>14, <1>15, <1>16, <1>17, <1>18, <1>19, <1>20, <1>21, <1>22, <1>23
     DEF Proceed, Disturbed

\* A call gets shorter with every step of its handler, whatever fails: a source
\* that stays failed under a copy is not read for ever, and a host that answers
\* every callback sees the call end.
THEOREM HandlersShrink == Spec => [](HandlerMeasure \in Nat) /\ HandlerShrinks
<1>1. IndInv => HandlerMeasure \in Nat
  BY SomethingRemains
<1>2. IndInv /\ [Next]_vars => [pc # "idle" => HandlerMeasure' < HandlerMeasure]_vars
  BY HandlerStepShrinks
<1> QED
  BY <1>1, <1>2, Invariance, PTL DEF Spec, HandlerShrinks
=============================================================================
