------------------------------- MODULE FastLz -------------------------------
(***************************************************************************)
(* The two readings of a FastLZ block in                                   *)
(* src/src/core/codecs/resource_compression.cpp: decode_fastlz, which      *)
(* walks the whole input before it hands it to the library, and            *)
(* fill_fastlz, which decodes it token by token for random reads.  Both    *)
(* run over one input, whose tokens are chosen as they are met; literal    *)
(* and match contents are not modelled, lengths and distances are.         *)
(***************************************************************************)
EXTENDS Integers, FiniteSetsExt

CONSTANTS
  Lengths,   \* sizes a compressed block may have
  Expected,  \* logical sizes asked for
  MinOutput, \* fastlz_minimum_output_bytes
  Literals,  \* lengths of literal runs
  Matches,   \* matches: length of the copy, its escape bytes, its distance, whether it is far
  Levels     \* 1 and 2

\* A literal run has at least one byte (its control byte counts them from one).
ASSUME LzAssumption ==
  /\ Lengths \subseteq Nat /\ Expected \subseteq Nat /\ MinOutput \in Nat
  /\ Literals \subseteq Nat \ {0} /\ Levels \subseteq {1, 2}
  /\ Matches \subseteq [length : Nat, escapes : Nat, distance : Nat, far : BOOLEAN]

VARIABLES
  size, expected, level,
  ip,        \* bytes consumed, the control byte of a token met included
  turn,      \* "token", or "between" tokens
  produced,
  far,       \* the last token was a far match
  block,     \* decode_fastlz: "runs", "accepts" or "rejects"
  stream     \* fill_fastlz, likewise

lz == <<size, expected, level, ip, turn, produced, far, block, stream>>

Bound == Max({expected, MinOutput})

LzInit ==
  /\ size \in Lengths /\ expected \in Expected /\ level \in Levels
  /\ ip = 1 /\ turn = "token" /\ produced = 0 /\ far = FALSE
  /\ block = IF size = 0 THEN "rejects" ELSE "runs"
  /\ stream = IF size < 2 THEN "rejects" ELSE "runs"

Reject(reader, if) == IF if THEN "rejects" ELSE reader

\* A token of so many bytes after its control byte makes so many bytes of output.
Token(bytes, length) ==
  /\ ip' = ip + bytes
  /\ produced' = produced + length
  /\ turn' = "between"
  /\ UNCHANGED <<size, expected, level>>

Overruns(bytes, length) == ip + bytes > size \/ produced + length > Bound

LzRunning == block = "runs" \/ stream = "runs"
AtToken == LzRunning /\ turn = "token"

\* A reader that still runs has met no end before this token.
Literal ==
  /\ AtToken
  /\ \E n \in Literals :
       /\ Token(n, n) /\ far' = FALSE
       /\ block' = Reject(block, Overruns(n, n))
       /\ stream' = Reject(stream, Overruns(n, n))

\* Mutant of Match: the stream does not bound a distance by its history.
MatchAnywhere ==
  /\ AtToken /\ ip > 1
  /\ \E m \in Matches :
       LET bytes == m.escapes + 1 + (IF m.far THEN 2 ELSE 0)
       IN /\ m.escapes > 1 \/ m.far => level = 2
          /\ Token(bytes, m.length) /\ far' = m.far
          /\ block' = Reject(block, \/ Overruns(bytes, m.length) \/ m.distance > produced
                                    \/ m.far /\ ip + m.escapes + 1 >= size - 2)
          /\ stream' = Reject(stream, Overruns(bytes, m.length))

(***************************************************************************)
(* A match: escape bytes lengthen it, more than one on level 2, and two    *)
(* more bytes make a far one.  The walk wants a byte after those two, as   *)
(* the library does; the stream does not.  The library and the stream      *)
(* refuse a distance before the first byte.                                *)
(***************************************************************************)
Match ==
  /\ AtToken /\ ip > 1
  /\ \E m \in Matches :
       LET bytes == m.escapes + 1 + (IF m.far THEN 2 ELSE 0)
       IN /\ m.escapes > 1 \/ m.far => level = 2
          /\ Token(bytes, m.length) /\ far' = m.far
          /\ block' = Reject(block, \/ Overruns(bytes, m.length) \/ m.distance > produced
                                    \/ m.far /\ ip + m.escapes + 1 >= size - 2)
          /\ stream' = Reject(stream, Overruns(bytes, m.length) \/ m.distance > produced)

\* Level 1 stops when fewer than two bytes are left, level 2 when none is.
Ended == IF level = 1 THEN ip > size - 2 ELSE ip >= size
Exact == ip = size /\ produced = Bound

Verdict == IF Exact THEN "accepts" ELSE "rejects"

End ==
  /\ LzRunning /\ turn = "between" /\ Ended
  /\ block' = IF block = "runs" THEN Verdict ELSE block
  /\ stream' = IF stream = "runs" THEN Verdict ELSE stream
  /\ UNCHANGED <<size, expected, level, ip, turn, produced, far>>

Control ==
  /\ LzRunning /\ turn = "between" /\ ~Ended
  /\ ip' = ip + 1 /\ turn' = "token"
  /\ UNCHANGED <<size, expected, level, produced, far, block, stream>>

LzNext == Literal \/ Match \/ End \/ Control

LzSpec == LzInit /\ [][LzNext]_lz /\ WF_lz(LzNext)

-----------------------------------------------------------------------------
(***************************************************************************)
(* The two readings agree on every block: a row that was listed from the   *)
(* stream decodes as the library decodes it.  Only a block whose last      *)
(* bytes are the operands of a far match is taken by the stream alone; no  *)
(* encoder ends a block so, for it ends in literals.                       *)
(***************************************************************************)
ReadingsAgree ==
  /\ block = "accepts" => stream = "accepts"
  /\ stream = "accepts" /\ ~LzRunning => block = "accepts" \/ far
=============================================================================
