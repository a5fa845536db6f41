--------------------------- MODULE BinaryResource ---------------------------
(***************************************************************************)
(* The reader of Godot binary resources                                    *)
(* (src/src/core/godot/binary_resource.cpp): header, string table, the two *)
(* directories, and one tree of properties per record.  The recursion of   *)
(* read_value is the stack.  What a field holds is chosen when it is read; *)
(* a text is [length, text, local, id]: the stored length with its NUL,    *)
(* what it says ("invalid" if it fails validation), and whether it is a    *)
(* "local://" path.  Widths are the format's, in bytes.                    *)
(***************************************************************************)
EXTENDS Integers, Sequences, FiniteSetsExt, SequencesExt

CONSTANTS
  InputSizes, MaxInput, MaxAllocation, MaxNodes, MaxString, MaxDepth,  \* resource_limits
  Headers,    \* [major, format, uids, named, script]: the fields of a header that matter later
  Texts,      \* what a name, a path or a value may say
  Types,      \* what a type may say
  Counts, Offsets, Indexes,
  Widths,     \* sizes of the values without structure: 0 for nil up to a projection
  Prefix,     \* bytes of a medium the metadata mode copies: 64
  Cost        \* sizeof of "strings", "externals", "internals", "id", "record", "property", "value", "order"

\* Sizes, counts, lengths and indexes are unsigned.
ASSUME ResourceAssumption ==
  /\ InputSizes \subseteq Nat /\ MaxAllocation \in Nat /\ MaxNodes \in Nat /\ MaxDepth \in Nat
  /\ Counts \subseteq Nat /\ Offsets \subseteq Nat /\ Indexes \subseteq Nat /\ Widths \subseteq Nat
  /\ \A t \in Texts \union Types : t.length \in Nat
  /\ Prefix \in Nat
  /\ Cost \in [{"strings", "externals", "internals", "id", "record", "property", "value", "order"} -> Nat]

VARIABLES
  size, mode,      \* data_size_; "full" or "metadata"
  pc, position, allocation, nodes,
  header,
  strings, externals, internals, ids,
  left,            \* rows of the table being read, Unknown before its count
  row,             \* the record being read
  stack,           \* the values being read, outermost first
  owned,           \* what the tree holds: bytes of texts and media, records, properties, values
  handed,          \* references and media ranges handed to converters
  result

vars == <<size, mode, pc, position, allocation, nodes, header, strings, externals, internals, ids,
          left, row, stack, owned, handed, result>>

Unknown == -1
Nothing == [texts |-> 0, media |-> 0, record |-> 0, property |-> 0, value |-> 0]

NoHeader == [major |-> 0, format |-> 0, uids |-> FALSE, named |-> FALSE, script |-> FALSE]

ResourceInit ==
  /\ size \in InputSizes /\ mode \in {"full", "metadata"}
  /\ pc = "header" /\ position = 0 /\ allocation = 0 /\ nodes = 0 /\ header = NoHeader
  /\ strings = <<>> /\ externals = 0 /\ internals = <<>> /\ ids = {}
  /\ left = Unknown /\ row = 0 /\ stack = <<>> /\ owned = Nothing /\ handed = {}
  /\ result = "none"

\* fail, or a parse_if that is not wanted: the parser is gone.
Drop(how) ==
  /\ pc' = "done" /\ position' = 0 /\ allocation' = 0 /\ nodes' = 0 /\ header' = NoHeader
  /\ strings' = <<>> /\ externals' = 0 /\ internals' = <<>> /\ ids' = {}
  /\ left' = Unknown /\ row' = 0 /\ stack' = <<>> /\ owned' = Nothing /\ handed' = {}
  /\ result' = how
  /\ UNCHANGED <<size, mode>>
Fail == Drop("error")

\* require and charge, for what is read and kept in one go.
Fits(bytes, amount) == position + bytes <= size /\ amount <= MaxAllocation - allocation
Take(bytes, amount) == position' = position + bytes /\ allocation' = allocation + amount

\* read_string_body: an empty text is neither charged nor checked.
Valid(text) == text.length = 0 \/ (text.length <= MaxString /\ text.text # "invalid")
Kept(text)  == IF text.length = 0 THEN 0 ELSE text.length - 1

\* read_count: so many elements can still be there.
Promised(count, minimum, before) == position + before + count * minimum <= size

\* preflight_children.
Preflight(count, depth) == count = 0 \/ (depth <= MaxDepth /\ count <= MaxNodes - nodes)

-----------------------------------------------------------------------------
Modern == header.major = 4
LegacyIdMode == ~Modern \/ ~header.named
MaxFormat(major) == CASE major = 2 -> 1 [] major = 3 -> 3 [] OTHER -> 6

Tables == <<externals, internals, strings, ids, row, stack, handed>>

\* read_header; parse_if stops behind it when the main type is not wanted.
Header ==
  /\ pc = "header"
  /\ \E h \in Headers, magic \in {"RSRC", "other", "none"}, type, script \in Types, import \in Offsets :
       LET bytes == (IF magic = "none" THEN 0 ELSE 4) + 20 + 4 + type.length + 8
                    + (IF h.major = 4 THEN 12 + (IF h.script THEN 4 + script.length ELSE 0) + 44 ELSE 56)
           texts == Kept(type)
           paid  == type.length + IF h.script THEN script.length ELSE 0
       IN /\ ~h.script => script = type
          /\ IF \/ size > MaxInput \/ magic = "other" \/ h.major \notin {2, 3, 4} \/ h.format > MaxFormat(h.major)
                \/ ~Valid(type) \/ ~Valid(script) \/ import > size \/ ~Fits(bytes, paid)
             THEN Fail
             ELSE \/ Drop("unwanted")
                  \/ /\ header' = h /\ Take(bytes, paid) /\ owned' = [owned EXCEPT !.texts = @ + texts]
                     /\ pc' = "strings" /\ UNCHANGED <<size, mode, nodes, Tables, left, result>>

Minimum == [strings |-> 4, externals |-> IF Modern /\ header.uids THEN 16 ELSE 8, internals |-> 12]
After   == [strings |-> "externals", externals |-> "internals", internals |-> "ids"]

\* The count of a table: room for every row, paid for before it is reserved.
TableCount ==
  /\ pc \in DOMAIN After /\ left = Unknown
  /\ \E count \in Counts :
       IF Promised(count, Minimum[pc], 4) /\ Fits(4, count * Cost[pc])
       THEN /\ Take(4, count * Cost[pc]) /\ left' = count
            /\ UNCHANGED <<size, mode, pc, nodes, header, Tables, owned, result>>
       ELSE Fail

TableRow ==
  /\ pc \in DOMAIN After /\ left > 0
  /\ \E text \in Texts, path \in Types, offset \in Offsets :
       LET read  == IF pc = "externals" THEN text.length + path.length ELSE text.length
           bytes == read + Minimum[pc]
       IN /\ pc # "externals" => path = CHOOSE t \in Types : Valid(t)
          /\ pc # "internals" => offset = Min(Offsets)
          /\ IF ~Valid(text) \/ ~Valid(path) \/ ~Fits(bytes, read)
             THEN Fail
             ELSE /\ Take(bytes, read) /\ left' = left - 1
                  /\ strings' = IF pc = "strings" THEN Append(strings, text) ELSE strings
                  /\ externals' = IF pc = "externals" THEN externals + 1 ELSE externals
                  /\ internals' = IF pc = "internals" THEN Append(internals, [path |-> text, offset |-> offset]) ELSE internals
                  /\ owned' = [owned EXCEPT !.texts = @ + Kept(text) + IF pc = "externals" THEN Kept(path) ELSE 0]
                  /\ UNCHANGED <<size, mode, pc, nodes, header, ids, row, stack, handed, result>>

TableEnds ==
  /\ pc \in DOMAIN After /\ left = 0
  /\ pc' = After[pc] /\ left' = Unknown
  /\ UNCHANGED <<size, mode, position, allocation, nodes, header, Tables, owned, result>>

-----------------------------------------------------------------------------
\* Mutant of Subresources: the main resource, the last row, has an id too.
SubresourcesAll == {i \in DOMAIN internals : internals[i].path.local # "no"}

\* The rows whose path is read as an id: not the last, which is the main resource.
Subresources == {i \in 1..(Len(internals) - 1) : internals[i].path.local # "no"}

\* build_legacy_ids: ids are well formed and distinct.
IdsAreClear ==
  /\ \A i \in Subresources : internals[i].path.local = "id"
  /\ \A i, j \in Subresources : i # j => internals[i].path.id # internals[j].path.id

\* read_records before its loop.
BeginRecords ==
  /\ pc = "ids"
  /\ LET rows   == Len(internals)
         paid   == rows * Cost["record"] + (IF LegacyIdMode /\ rows > 0 THEN (rows - 1) * Cost["id"] ELSE 0)
     IN IF (LegacyIdMode /\ ~IdsAreClear) \/ ~Fits(0, paid)
        THEN Fail
        ELSE /\ Take(0, paid)
             /\ ids' = IF LegacyIdMode THEN {[id |-> internals[i].path.id, row |-> i] : i \in Subresources} ELSE {}
             /\ owned' = [owned EXCEPT !.record = rows]
             /\ pc' = "records" /\ row' = 1
             /\ UNCHANGED <<size, mode, nodes, header, strings, externals, internals, left, stack, handed, result>>

Frame(kind, count, next) == [kind |-> kind, left |-> count, next |-> next, plain |-> TRUE, keys |-> {}, twice |-> FALSE]

\* A record begins where its directory row says, wherever that is.
BeginRecord ==
  /\ pc = "records" /\ stack = <<>> /\ row <= Len(internals)
  /\ \E type \in Types, count \in Counts :
       LET start == internals[row].offset
           bytes == 4 + type.length + 4
           path  == Kept(internals[row].path) + 1
           paid  == path + type.length + count * Cost["property"]
       IN IF \/ start > size \/ start + bytes + 8 * count > size
             \/ ~Valid(type) \/ ~Preflight(count, 1) \/ ~Fits(0, paid)
          THEN Fail
          ELSE /\ position' = start + bytes /\ allocation' = allocation + paid
               /\ stack' = <<Frame("record", count, "name")>>
               /\ owned' = [owned EXCEPT !.texts = @ + path - 1 + Kept(type), !.property = @ + count]
               /\ UNCHANGED <<size, mode, pc, nodes, header, strings, externals, internals, ids, left, row, handed, result>>

Top == Last(stack)
Due(next) == pc = "records" /\ stack # <<>> /\ Top.left > 0 /\ Top.next = next

First(kind) == CASE kind = "record" -> "name" [] kind = "dictionary" -> "key" [] OTHER -> "value"

\* The frame once what was due is read; text is what a string said.
Advanced(text) ==
  CASE Top.next = "name" /\ Top.kind = "record" -> [Top EXCEPT !.next = "value"]
    [] Top.next = "key" -> [Top EXCEPT !.next = "value", !.plain = @ /\ text # "", !.keys = @ \union {text},
                                       !.twice = @ \/ text \in Top.keys]
    [] OTHER -> [Top EXCEPT !.left = @ - 1, !.next = IF Top.kind \in {"path", "strings"} THEN @ ELSE First(Top.kind)]

Return(text) == stack' = Append(Front(stack), Advanced(text))
Enter(frame) == stack' = Append(Append(Front(stack), Advanced("")), frame)

Kind == <<size, mode, pc, header, strings, externals, internals, ids, left, row, result>>

\* Mutant of NamePrice: the copy of a name of the table is not charged.
NamePriceFree(text) == 0

\* A name of the string table is copied, so its copy is charged.
NamePrice(text) == Kept(text) + 1

\* read_name, of a property or of a node path: inline, or an index into the string table.
ReadName ==
  /\ Due("name")
  /\ LET keep == IF Top.kind = "record" THEN 1 ELSE 0
     IN \/ \E i \in Indexes :
             IF i >= Len(strings) \/ ~Fits(4, 0)
             THEN Fail
             ELSE IF ~Fits(4, NamePrice(strings[i + 1])) \/ (Top.kind = "record" /\ Kept(strings[i + 1]) = 0)
             THEN Fail
             ELSE /\ Take(4, NamePrice(strings[i + 1])) /\ Return("")
                  /\ owned' = [owned EXCEPT !.texts = @ + keep * Kept(strings[i + 1])]
                  /\ UNCHANGED <<nodes, handed, Kind>>
        \/ /\ header.major # 2
           /\ \E text \in Texts :
                IF ~Valid(text) \/ ~Fits(4 + text.length, text.length) \/ (Top.kind = "record" /\ Kept(text) = 0)
                THEN Fail
                ELSE /\ Take(4 + text.length, text.length) /\ Return("")
                     /\ owned' = [owned EXCEPT !.texts = @ + keep * Kept(text)]
                     /\ UNCHANGED <<nodes, handed, Kind>>

-----------------------------------------------------------------------------
(***************************************************************************)
(* read_value: depth, node, tag, then the decoder of the tag.              *)
(***************************************************************************)
ValueDue == Due("key") \/ Due("value")
Entered == Len(stack) <= MaxDepth /\ nodes < MaxNodes
Reads(bytes, amount) == Entered /\ Fits(4 + bytes, amount)
Read(bytes, amount) == Take(4 + bytes, amount) /\ nodes' = nodes + 1

UnknownTag == ValueDue /\ Fail

\* Scalars, mathematical structures and their counted arrays, which are skipped.
ReadPlain ==
  /\ ValueDue /\ Top.kind # "strings"
  /\ \/ \E width \in Widths :
          IF Reads(width, 0) THEN Read(width, 0) /\ Return("") /\ UNCHANGED <<owned, handed, Kind>> ELSE Fail
     \/ \E count \in Counts, width \in Widths :
          IF Reads(4 + count * width, 0)
          THEN Read(4 + count * width, 0) /\ Return("") /\ UNCHANGED <<owned, handed, Kind>> ELSE Fail

\* Integer and real arrays become arrays of the widest kind.
ReadNumbers ==
  /\ ValueDue /\ Top.kind # "strings"
  /\ \E count \in Counts, width \in {4, 8} :
       IF Reads(4 + count * width, count * 8)
       THEN /\ Read(4 + count * width, count * 8) /\ Return("")
            /\ owned' = [owned EXCEPT !.media = @ + count * 8]
            /\ UNCHANGED <<handed, Kind>>
       ELSE Fail

ReadString ==
  /\ ValueDue /\ Top.kind # "strings"
  /\ \E text \in Texts :
       IF Valid(text) /\ Reads(4 + text.length, text.length)
       THEN /\ Read(4 + text.length, text.length)
            /\ Return(IF text.length = 0 THEN "empty" ELSE text.text)
            /\ owned' = [owned EXCEPT !.texts = @ + Kept(text)]
            /\ UNCHANGED <<handed, Kind>>
       ELSE Fail

\* The bytes of a medium that are copied.
Copied(count) == IF mode = "metadata" THEN Min({Prefix, count}) ELSE count
Padding(count) == (4 - (count % 4)) % 4

\* A raw array, or the bytes of a legacy image behind its five words or one.
ReadMedium ==
  /\ ValueDue /\ Top.kind # "strings"
  /\ \E count \in Counts, before \in IF Modern THEN {0} ELSE {0, 4, 20} :
       LET bytes == before + 4 + count + Padding(count)
           start == position + 4 + before + 4
       IN IF Reads(bytes, Copied(count)) /\ (mode = "metadata" => Copied(count) <= MaxString)
          THEN /\ Read(bytes, Copied(count)) /\ Return("")
               /\ owned' = [owned EXCEPT !.media = @ + Copied(count)]
               /\ handed' = handed \union {[what |-> "medium", index |-> start, wire |-> count]}
               /\ UNCHANGED Kind
          ELSE Fail

\* resolve_internal_reference: the row, 0 when there is none.
Resolve(wire) ==
  IF LegacyIdMode
  THEN IF \E e \in ids : e.id = wire THEN (CHOOSE e \in ids : e.id = wire).row ELSE 0
  ELSE IF wire < Len(internals) THEN wire + 1 ELSE 0

ReadObject ==
  /\ ValueDue /\ Top.kind # "strings"
  /\ \/ IF Reads(4, 0) THEN Read(4, 0) /\ Return("") /\ UNCHANGED <<owned, handed, Kind>> ELSE Fail
     \/ \E wire \in Indexes :
          IF Reads(8, 0) /\ Resolve(wire) # 0
          THEN /\ Read(8, 0) /\ Return("")
               /\ handed' = handed \union {[what |-> "internal", index |-> Resolve(wire), wire |-> wire]}
               /\ UNCHANGED <<owned, Kind>>
          ELSE Fail
     \/ \E type, path \in Types :
          LET bytes == type.length + path.length
          IN IF Valid(type) /\ Valid(path) /\ Reads(12 + bytes, bytes)
             THEN /\ Read(12 + bytes, bytes) /\ Return("")
                  /\ owned' = [owned EXCEPT !.texts = @ + Kept(type) + Kept(path)]
                  /\ UNCHANGED <<handed, Kind>>
             ELSE Fail
     \/ \E wire \in Indexes :
          IF Reads(8, 0) /\ wire < externals
          THEN /\ Read(8, 0) /\ Return("")
               /\ handed' = handed \union {[what |-> "external", index |-> wire + 1, wire |-> wire]}
               /\ UNCHANGED <<owned, Kind>>
          ELSE Fail

\* A node path: two counts, then names; before format 3 one more for the property.
ReadPath ==
  /\ ValueDue /\ Top.kind # "strings"
  /\ \E count \in Counts :
       IF Reads(4, 0)
       THEN /\ Read(4, 0) /\ UNCHANGED <<owned, handed, Kind>>
            /\ Enter(Frame("path", count + (IF header.format < 3 THEN 1 ELSE 0), "name"))
       ELSE Fail

(***************************************************************************)
(* Arrays, arrays of strings and dictionaries: room for the children, their*)
(* nodes and their slots before the first one is read.  A dictionary pays  *)
(* two nodes and two slots a pair.                                         *)
(***************************************************************************)
ReadContainer ==
  /\ ValueDue /\ Top.kind # "strings"
  /\ \E kind \in {"array", "strings", "dictionary"}, count \in Counts :
       LET pairs    == kind = "dictionary"
           children == IF pairs THEN 2 * count ELSE count
           paid     == count * (Cost["value"] + IF pairs THEN Cost["property"] ELSE 0)
       IN IF /\ Reads(4, paid) /\ Promised(count, IF pairs THEN 8 ELSE 4, 8)
             /\ count = 0 \/ (Len(stack) + 1 <= MaxDepth /\ children <= MaxNodes - (nodes + 1))
          THEN /\ Read(4, paid) /\ Enter(Frame(kind, count, First(kind)))
               /\ owned' = [owned EXCEPT !.value = @ + count, !.property = @ + IF pairs THEN count ELSE 0]
               /\ UNCHANGED <<handed, Kind>>
          ELSE Fail

\* An element of an array of strings has a node and no tag.
ReadElement ==
  /\ Due("value") /\ Top.kind = "strings"
  /\ \E text \in Texts :
       IF nodes < MaxNodes /\ Valid(text) /\ Fits(4 + text.length, text.length)
       THEN /\ Take(4 + text.length, text.length) /\ nodes' = nodes + 1 /\ Return("")
            /\ owned' = [owned EXCEPT !.texts = @ + Kept(text)]
            /\ UNCHANGED <<handed, Kind>>
       ELSE Fail

\* The last child is read.  A dictionary of texts is ordered, in paid memory,
\* to find a key that stands twice.
ValueEnds ==
  /\ pc = "records" /\ stack # <<>> /\ Top.left = 0
  /\ LET sorts == Top.kind = "dictionary" /\ Top.plain
         index == IF sorts THEN Cardinality(Top.keys) * Cost["order"] ELSE 0
     IN IF sorts /\ (Top.twice \/ ~Fits(0, index))
        THEN Fail
        ELSE /\ stack' = Front(stack) /\ allocation' = allocation + index
             /\ row' = IF Len(stack) = 1 THEN row + 1 ELSE row
             /\ UNCHANGED <<size, mode, pc, position, nodes, header, strings, externals, internals, ids, left, owned, handed, result>>

ResourceRead ==
  /\ pc = "records" /\ stack = <<>> /\ row > Len(internals)
  /\ pc' = "done" /\ result' = "resource"
  /\ UNCHANGED <<size, mode, position, allocation, nodes, header, Tables, left, owned>>

Value ==
  \/ UnknownTag \/ ReadPlain \/ ReadNumbers \/ ReadString \/ ReadMedium
  \/ ReadObject \/ ReadPath \/ ReadContainer

ResourceNext ==
  \/ Header \/ TableCount \/ TableRow \/ TableEnds \/ BeginRecords \/ BeginRecord
  \/ ReadName \/ Value \/ ReadElement \/ ValueEnds \/ ResourceRead

ResourceSpec == ResourceInit /\ [][ResourceNext]_vars

-----------------------------------------------------------------------------
(***************************************************************************)
(* The reader never holds more than it was charged for, whatever the order *)
(* of counts, copies and refused children, and never more than its limit:  *)
(* records read from the same bytes are paid for each time.                *)
(***************************************************************************)
TreeIsPaidFor ==
  /\ allocation <= MaxAllocation
  /\ owned.texts + owned.media
     + owned.record * Cost["record"] + owned.property * Cost["property"] + owned.value * Cost["value"]
     + Len(strings) * Cost["strings"] + externals * Cost["externals"] + Len(internals) * Cost["internals"]
     + Cardinality(ids) * Cost["id"] <= allocation

(***************************************************************************)
(* What converters are handed exists: an internal reference names a row of *)
(* the directory, under the ids of older engines the one row below the     *)
(* main resource that carries that id; a medium lies inside the input.     *)
(***************************************************************************)
ReferencesResolve ==
  \A h \in handed :
    CASE h.what = "medium"   -> h.index + h.wire <= size
      [] h.what = "external" -> h.index \in 1..externals
      [] OTHER -> /\ h.index \in 1..Len(internals)
                  /\ LegacyIdMode =>
                       {h.index} = {i \in 1..(Len(internals) - 1) :
                                      internals[i].path.local = "id" /\ internals[i].path.id = h.wire}
=============================================================================
