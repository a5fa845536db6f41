---------------------------- MODULE RawListings -----------------------------
(***************************************************************************)
(* The listings of the formats without a session: RPG Maker's two          *)
(* (rpgmaker.cpp), Zanzarah's (zanzarah.cpp) and Ren'Py's (renpy.cpp, with *)
(* zlib_codec.cpp under it); and the decryption of an RPG Maker row.  What *)
(* a field holds is chosen when it is read.  A key is the number of times  *)
(* it was advanced: advance_magic maps a 32-bit key to the next.           *)
(***************************************************************************)
EXTENDS Integers, Sequences, FiniteSetsExt, SequencesExt

CONSTANTS
  SourceSizes,
  FieldValues,      \* what a signed or an unsigned field may hold
  NameLengths, MaxNameBytes, MaxRows,  \* archive_limits
  ChunkBytes,  \* what archive decrypts at a time
  Budget,      \* max_compressed_index_size and max_decompressed_index_size
  Pieces,      \* bytes one call of inflate produces
  Roots        \* what pickle::loads may return: [kind, rows], a row an [offset, size, header]

ASSUME ChunkIsWholeWords == ChunkBytes \in Nat /\ ChunkBytes > 0 /\ ChunkBytes % 4 = 0
ASSUME FieldAssumption ==
  /\ SourceSizes \subseteq Nat /\ FieldValues \subseteq Int /\ NameLengths \subseteq Nat
  /\ Budget \in Nat /\ Pieces \subseteq Nat

VARIABLES
  format, bytes,     \* of the source
  readAt,                \* position of the bounded stream
  step,
  runningKey,               \* the running key of a legacy listing
  announced,         \* entries announced, or the index offset
  rows,              \* [offset, size, key, name]: name is the length of its name
  inflated, consumed,  \* decompress_zlib: output, and whether all input was used
  row, body,         \* a row being extracted, and its bytes so far: [key, shift] for each
  outcome

listing == <<format, bytes, readAt, step, runningKey, announced, rows, inflated, consumed, row, body, outcome>>

ListingInit ==
  /\ format \in {"legacy", "ace", "zanzarah", "rpa"} /\ bytes \in SourceSizes
  /\ readAt = 0 /\ step = "header" /\ runningKey = 0 /\ announced = 0 /\ rows = <<>>
  /\ inflated = 0 /\ consumed = FALSE /\ row = 0 /\ body = <<>> /\ outcome = "none"

EndListing(how) == outcome' = how /\ step' = "done"
Refuse == EndListing("error") /\ rows' = <<>>
Has(n) == readAt + n <= bytes
Left == bytes - readAt
Row(offset, size, k, name) == [offset |-> offset, size |-> size, key |-> k, name |-> name]

-----------------------------------------------------------------------------
(* RPG Maker.                                                              *)

\* validate_header, from the start on every listing; Ace has a key behind it.
RgssHeader ==
  /\ format \in {"legacy", "ace"} /\ step = "header"
  /\ LET header == IF format = "ace" THEN 12 ELSE 8
     IN IF bytes < header THEN Refuse /\ UNCHANGED readAt
        ELSE readAt' = header /\ step' = "entries" /\ UNCHANGED <<rows, outcome>>
  /\ UNCHANGED <<format, bytes, runningKey, announced, inflated, consumed, row, body>>

RgssOther == step = "header" /\ format \in {"legacy", "ace"} /\ Refuse
             /\ UNCHANGED <<format, bytes, readAt, runningKey, announced, inflated, consumed, row, body>>

\* Mutant of KeyBehind: skipping the body advances the key as decrypting it would.
KeyBehindBody(name, size) == runningKey + 1 + name + 1 + (size \div 4)

\* The key of a body: one step for the length, one for each byte of the name, one for the size.
BodyKey(name) == runningKey + 1 + name + 1

\* Where the next entry finds the key: the body does not move it.
KeyBehind(name, size) == BodyKey(name)

LegacyEntry ==
  /\ format = "legacy" /\ step = "entries" /\ Left > 0
  /\ \/ Refuse /\ UNCHANGED <<readAt, runningKey>>  \* a NUL in the name, a fault of the source
     \/ \E name \in NameLengths, size \in {v \in FieldValues : v >= 0} :
          LET start == readAt + 8 + name
          IN IF \/ Len(rows) = MaxRows \/ ~Has(4) \/ name = 0 \/ name > MaxNameBytes
                \/ ~Has(8 + name) \/ size > bytes - start
             THEN Refuse /\ UNCHANGED <<readAt, runningKey>>
             ELSE /\ rows' = Append(rows, Row(start, size, BodyKey(name), name))
                  /\ runningKey' = KeyBehind(name, size) /\ readAt' = start + size
                  /\ UNCHANGED <<step, outcome>>
  /\ UNCHANGED <<format, bytes, announced, inflated, consumed, row, body>>

LegacyEnds ==
  /\ format = "legacy" /\ step = "entries" /\ Left = 0
  /\ EndListing("listed") /\ UNCHANGED <<format, bytes, readAt, runningKey, announced, rows, inflated, consumed, row, body>>

\* An Ace entry names its extent and its key; neither is looked at.
AceEntry ==
  /\ format = "ace" /\ step = "entries"
  /\ \/ ~Has(4) /\ Refuse /\ UNCHANGED readAt
     \/ Has(4) /\ EndListing("listed") /\ readAt' = readAt + 4 /\ UNCHANGED rows
     \/ \E name \in NameLengths, offset, size \in FieldValues :
          /\ offset > 0 /\ size >= 0 /\ Has(4)  \* unsigned, and not the end
          /\ IF ~Has(16) \/ name > MaxNameBytes \/ ~Has(16 + name)
             THEN Refuse /\ UNCHANGED readAt
             ELSE /\ rows' = Append(rows, Row(offset, size, 0, name)) /\ readAt' = readAt + 16 + name
                  /\ UNCHANGED <<step, outcome>>
  /\ UNCHANGED <<format, bytes, runningKey, announced, inflated, consumed, row, body>>

\* decrypt: which key, and which of its bytes, every byte of a chunk meets.
DecryptedBytes(k, n) == [i \in 1..n |-> [key |-> k + ((i - 1) \div 4), shift |-> (i - 1) % 4]]

\* An extraction begins with the key the row was given.
BeginRow ==
  /\ format = "legacy" /\ step = "done" /\ \E i \in DOMAIN rows : row' = i /\ runningKey' = rows[i].key
  /\ step' = "row"
  /\ UNCHANGED <<format, bytes, readAt, announced, rows, inflated, consumed, body, outcome>>

\* archive decrypts chunk by chunk and hands each chunk the key the last one left.
DecryptChunk ==
  /\ step = "row" /\ Len(body) < rows[row].size
  /\ LET n == Min({ChunkBytes, rows[row].size - Len(body)})
     IN body' = body \o DecryptedBytes(runningKey, n) /\ runningKey' = runningKey + (n \div 4)
  /\ UNCHANGED <<format, bytes, readAt, step, announced, rows, inflated, consumed, row, outcome>>

-----------------------------------------------------------------------------
(* Zanzarah.                                                               *)

ZanHeader ==
  /\ format = "zanzarah" /\ step = "header"
  /\ \E count \in FieldValues :
       IF ~Has(8) \/ count <= 0 \/ count > MaxRows \/ count > (bytes - 8) \div 13
       THEN Refuse /\ UNCHANGED <<readAt, announced>>
       ELSE announced' = count /\ readAt' = 8 /\ step' = "entries" /\ UNCHANGED <<rows, outcome>>
  /\ UNCHANGED <<format, bytes, runningKey, inflated, consumed, row, body>>

ZanEntry ==
  /\ format = "zanzarah" /\ step = "entries" /\ Len(rows) < announced
  /\ \E name \in NameLengths, offset, size \in FieldValues :
       IF name = 0 \/ name > MaxNameBytes \/ ~Has(12 + name) \/ offset < 0 \/ size < 4
       THEN Refuse /\ UNCHANGED readAt
       ELSE /\ rows' = Append(rows, Row(offset + 4, size - 4, 0, name)) /\ readAt' = readAt + 12 + name
            /\ UNCHANGED <<step, outcome>>
  /\ UNCHANGED <<format, bytes, runningKey, announced, inflated, consumed, row, body>>

\* Mutant of Overlong: only where the row begins is looked at.
OverlongOffset(r) == r.offset > Left

\* Offsets count from behind the directory: the row must end inside the source.
Overlong(r) == r.offset > Left \/ r.size > Left - r.offset

\* The rows once checked; when every body is framed by both markers, each loses its last one.
ZanEnds ==
  /\ format = "zanzarah" /\ step = "entries" /\ Len(rows) = announced
  /\ IF \E i \in DOMAIN rows : Overlong(rows[i])
     THEN Refuse
     ELSE /\ \E framed \in BOOLEAN :
               /\ framed => \A i \in DOMAIN rows : rows[i].size >= 4
               /\ rows' = [i \in DOMAIN rows |->
                             [rows[i] EXCEPT !.offset = @ + readAt, !.size = IF framed THEN @ - 4 ELSE @]]
          /\ EndListing("listed")
  /\ UNCHANGED <<format, bytes, readAt, runningKey, announced, inflated, consumed, row, body>>

-----------------------------------------------------------------------------
(* Ren'Py.                                                                 *)

\* parse_header: the offset of the index, and for version 3 a key.
RpaHeader ==
  /\ format = "rpa" /\ step = "header"
  /\ \E offset \in FieldValues, header \in {24, 40} :
       IF ~Has(header) \/ offset <= 0 \/ offset >= bytes \/ bytes - offset > Budget
       THEN Refuse /\ UNCHANGED <<readAt, announced>>
       ELSE announced' = offset /\ readAt' = bytes /\ step' = "inflate" /\ UNCHANGED <<rows, outcome>>
  /\ UNCHANGED <<format, bytes, runningKey, inflated, consumed, row, body>>

RpaOther == format = "rpa" /\ step = "header" /\ Refuse  \* another version, or no number
            /\ UNCHANGED <<format, bytes, readAt, runningKey, announced, inflated, consumed, row, body>>

\* The zlib stream ends before its input does.
Trailing(ends, all) == ends /\ ~all

\* One call of inflate: an error, more output, or the end of the zlib stream,
\* which must be the end of the input.
Inflate ==
  /\ format = "rpa" /\ step = "inflate"
  /\ \/ Refuse /\ UNCHANGED <<inflated, consumed>>
     \/ \E piece \in Pieces, ends, all \in BOOLEAN :
          /\ consumed => all
          /\ piece > 0 \/ all # consumed \/ ends
          /\ IF piece > Budget - inflated \/ Trailing(ends, all)
             THEN Refuse /\ UNCHANGED <<inflated, consumed>>
             ELSE /\ inflated' = inflated + piece /\ consumed' = all
                  /\ step' = (IF ends THEN "index" ELSE step) /\ UNCHANGED <<rows, outcome>>
  /\ UNCHANGED <<format, bytes, readAt, runningKey, announced, row, body>>

\* Every value of the index is a list of one tuple of two numbers and perhaps a header.
RpaIndex ==
  /\ format = "rpa" /\ step = "index"
  /\ \E root \in Roots :
       IF root.kind = "invalid"
       THEN Refuse
       ELSE /\ rows' = [i \in DOMAIN root.rows |->
                          Row(root.rows[i].offset, root.rows[i].size - root.rows[i].header, 0, root.rows[i].header)]
            /\ EndListing("listed")
  /\ UNCHANGED <<format, bytes, readAt, runningKey, announced, inflated, consumed, row, body>>

ListingNext ==
  \/ RgssHeader \/ RgssOther \/ LegacyEntry \/ LegacyEnds \/ AceEntry \/ BeginRow \/ DecryptChunk
  \/ ZanHeader \/ ZanEntry \/ ZanEnds
  \/ RpaHeader \/ RpaOther \/ Inflate \/ RpaIndex

ListingSpec == ListingInit /\ [][ListingNext]_listing

-----------------------------------------------------------------------------
(***************************************************************************)
(* The two formats that validate extents hand out only rows that lie       *)
(* inside the source, behind the metadata that names them; the rows of a   *)
(* legacy archive follow each other without overlap.                       *)
(***************************************************************************)
ValidatedRowsAreInside ==
  outcome = "listed" /\ format \in {"legacy", "zanzarah"} =>
    \A i \in DOMAIN rows :
      /\ rows[i].size >= 0 /\ rows[i].offset + rows[i].size <= bytes
      /\ format = "zanzarah" => rows[i].offset >= readAt + 4
      /\ \A j \in 1..(i - 1) : format = "legacy" => rows[j].offset + rows[j].size + 8 + rows[i].name <= rows[i].offset

(***************************************************************************)
(* The key of a legacy row depends on the names and the number of the      *)
(* entries before it and on no body, and a row decrypted in chunks meets,  *)
(* byte by byte, the keys it would meet in one piece.                      *)
(***************************************************************************)
KeysFollowTheBytes ==
  format = "legacy" =>
    /\ \A i \in DOMAIN rows : rows[i].key = SumFunctionOnSet([j \in DOMAIN rows |-> rows[j].name + 2], 1..i)
    /\ \A b \in DOMAIN body : body[b] = [key |-> rows[row].key + ((b - 1) \div 4), shift |-> (b - 1) % 4]

(***************************************************************************)
(* A listing is the whole of what announced it: a legacy archive to its    *)
(* last byte, as many entries as Zanzarah's count, and a Ren'Py index      *)
(* inflated to the end of both streams within its budget.                  *)
(***************************************************************************)
ListingsAreWhole ==
  outcome = "listed" =>
    CASE format = "legacy"   -> readAt = bytes
      [] format = "zanzarah" -> Len(rows) = announced
      [] format = "rpa"      -> consumed /\ inflated <= Budget
      [] OTHER               -> readAt <= bytes

\* What a format validates of its listing holds of every row and of the whole.
ListingsAreSound == ValidatedRowsAreInside /\ ListingsAreWhole
=============================================================================
