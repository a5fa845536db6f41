----------------------------- MODULE ImportRemap -----------------------------
(***************************************************************************)
(* read_import_remap (core/godot/import_remap.cpp): a scanner of ConfigFile*)
(* text that keeps the paths of [remap] and the source file of [deps] and  *)
(* skips every other value, and the normalisation of what it found.  The   *)
(* text is chosen as it is scanned, one token or one escape per step; a    *)
(* token the scanner refuses is one of Malformed's.                        *)
(***************************************************************************)
EXTENDS Integers, Sequences, FiniteSetsExt, SequencesExt

CONSTANTS
  MetadataPaths,  \* names of fragments: [whole, stem: paths, suffix: whether it has one]
  Texts,          \* what a string may say: paths [res, long, parts]
  Variants,       \* features of "path.<feature>", "" that of "path."
  Escapes,        \* values an escape may have
  MaxMappings, MaxNesting  \* metadata_limits

\* A count of mappings, and what hexadecimal digits spell.
ASSUME RemapAssumption == MaxMappings \in Nat /\ Escapes \subseteq Nat

VARIABLES
  named,      \* metadata_path
  scanning,   \* "line", "assign", "value", "string", "balanced", "done"
  section,    \* "remap", "deps", "other"
  keyed,      \* the key of the line: [key, variant]
  quoted,     \* what the string being read is: "key", "value", "typed", "skipped"
  brackets,   \* skip_balanced's stack
  pending,    \* pending_lead, 0 if none
  codePoints,    \* code points of the escapes of this string (observation only)
  paths,      \* found.paths: [variant, value]
  sourceFile, \* found.source_file or Unnamed
  recorded,   \* every [variant, value] a line of [remap] had (observation only)
  given       \* "none", "error" or "mappings", which Mappings then is

remap == <<named, scanning, section, keyed, quoted, brackets, pending, codePoints, paths, sourceFile,
           recorded, given>>

Unnamed == [res |-> FALSE, long |-> FALSE, parts |-> <<>>]

\* A path is a prefix res://, and the texts between its separators; a long one
\* is refused before it is read.  "c:" has a character no path may have.
NoPath == <<"..">>
Normalize(path) ==
  LET kept == SelectSeq(path.parts, LAMBDA p : p \notin {"", "."})
  IN IF path.long \/ path.parts = <<>> \/ Head(path.parts) = "" \/ kept = <<>> THEN NoPath
     ELSE IF {"..", "c:"} \cap {path.parts[i] : i \in DOMAIN path.parts} # {} THEN NoPath
     ELSE kept

Derived == IF Normalize(named.whole) = NoPath \/ ~named.suffix THEN NoPath ELSE Normalize(named.stem)

RemapInit ==
  /\ named \in MetadataPaths
  /\ scanning = IF Derived = NoPath THEN "done" ELSE "line"
  /\ given = IF Derived = NoPath THEN "error" ELSE "none"
  /\ section = "other" /\ keyed = [key |-> "other", variant |-> ""] /\ quoted = "key"
  /\ brackets = <<>> /\ pending = 0 /\ codePoints = {} /\ paths = <<>> /\ sourceFile = Unnamed
  /\ recorded = {}

Fail == given' = "error" /\ scanning' = "done"

\* The text ends too early, has a line break or a character the token cannot have.
MalformedText ==
  /\ scanning # "done"
  /\ Fail
  /\ UNCHANGED <<named, section, keyed, quoted, brackets, pending, codePoints, paths, sourceFile, recorded>>

SectionName ==
  /\ scanning = "line"
  /\ section' \in {"remap", "deps", "other"}
  /\ UNCHANGED <<named, scanning, keyed, quoted, brackets, pending, codePoints, paths, sourceFile,
                 recorded, given>>

Keys == [key : {"path", "source_file", "other"}, variant : {""}] \cup [key : {"path."}, variant : Variants]

Key ==
  /\ scanning = "line"
  /\ \/ keyed' \in Keys /\ scanning' = "assign" /\ UNCHANGED <<quoted, pending, codePoints>>
     \/ scanning' = "string" /\ quoted' = "key" /\ pending' = 0 /\ codePoints' = {} /\ UNCHANGED keyed
  /\ UNCHANGED <<named, section, brackets, paths, sourceFile, recorded, given>>

Assignment ==
  /\ scanning = "assign"
  /\ scanning' = "value"
  /\ UNCHANGED <<named, section, keyed, quoted, brackets, pending, codePoints, paths, sourceFile, recorded,
                 given>>

-----------------------------------------------------------------------------
(* Recording a line.                                                       *)

\* Mutant of AddPath: a later line for a feature replaces the earlier one.
AddPathLastWins(variant, value) ==
  LET same == {i \in DOMAIN paths : paths[i].variant = variant}
  IN /\ scanning' = "line"
     /\ paths' = IF same = {} THEN Append(paths, [variant |-> variant, value |-> value])
                 ELSE [paths EXCEPT ![Min(same)].value = value]
     /\ UNCHANGED given

AddPath(variant, value) ==
  LET same == {i \in DOMAIN paths : paths[i].variant = variant}
  IN CASE \E i \in same : paths[i].value # value -> Fail /\ UNCHANGED paths
       [] same # {} /\ (\A i \in same : paths[i].value = value) ->
            scanning' = "line" /\ UNCHANGED <<paths, given>>
       [] same = {} /\ Len(paths) >= MaxMappings -> Fail /\ UNCHANGED paths
       [] OTHER -> /\ paths' = Append(paths, [variant |-> variant, value |-> value])
                   /\ scanning' = "line" /\ UNCHANGED given

Kept == (section = "remap" /\ keyed.key \in {"path", "path."}) \/ (section = "deps" /\ keyed.key = "source_file")

\* A value that is not a string is worth nothing, and an error where one is kept.
Skip == IF Kept THEN Fail ELSE scanning' = "line" /\ UNCHANGED given

Record(value) ==
  CASE ~Kept -> scanning' = "line" /\ UNCHANGED <<paths, sourceFile, recorded, given>>
    [] Kept /\ section = "deps" ->
         /\ IF sourceFile \notin {Unnamed, value} THEN Fail ELSE scanning' = "line" /\ UNCHANGED given
         /\ sourceFile' = IF sourceFile = Unnamed THEN value ELSE sourceFile
         /\ UNCHANGED <<paths, recorded>>
    [] Kept /\ keyed = [key |-> "path.", variant |-> ""] -> Fail /\ UNCHANGED <<paths, sourceFile, recorded>>
    [] OTHER -> /\ AddPath(keyed.variant, value)
                /\ recorded' = recorded \cup {[variant |-> keyed.variant, value |-> value]}
                /\ UNCHANGED sourceFile

-----------------------------------------------------------------------------
(* Values.                                                                 *)

\* A bare token; a constructor, whose parenthesis trivia may precede, is a group.
BareToken ==
  /\ scanning = "value"
  /\ Skip
  /\ UNCHANGED <<named, section, keyed, quoted, brackets, pending, codePoints, paths, sourceFile, recorded>>

String ==
  /\ scanning \in {"value", "balanced"}
  /\ quoted' \in IF scanning = "value" THEN {"value", "typed"} ELSE {"skipped"}
  /\ scanning' = "string" /\ pending' = 0 /\ codePoints' = {}
  /\ UNCHANGED <<named, section, keyed, brackets, paths, sourceFile, recorded, given>>

OpenBracket ==
  /\ scanning \in {"value", "balanced"}
  /\ \E open \in {"[", "{", "("} : brackets' = Append(brackets, open)
  /\ IF Len(brackets') > MaxNesting THEN Fail ELSE scanning' = "balanced" /\ UNCHANGED given
  /\ UNCHANGED <<named, section, keyed, quoted, pending, codePoints, paths, sourceFile, recorded>>

CloseBracket ==
  /\ scanning = "balanced"
  /\ \E open \in {"[", "{", "("} :
       IF open # Last(brackets) THEN Fail /\ UNCHANGED brackets
       ELSE /\ brackets' = Front(brackets)
            /\ IF brackets' = <<>> THEN Skip ELSE UNCHANGED <<scanning, given>>
  /\ UNCHANGED <<named, section, keyed, quoted, pending, codePoints, paths, sourceFile, recorded>>

-----------------------------------------------------------------------------
(* parse_string: an escape, another character, the closing quote.          *)

Lead(value) == value \div 1024 = 54   \* 16#D800#..16#DBFF#
Trail(value) == value \div 1024 = 55  \* 16#DC00#..16#DFFF#
Unicode == 1114111                    \* 16#10FFFF#

\* No term leaves 32 bits.
Joined(lead, trail) == lead * 1024 + trail - (55296 * 1024 + 56320 - 65536)

Surrogate(value) == Lead(value) /\ pending = 0

Decodable(value) == IF Trail(value) THEN pending # 0 ELSE pending = 0 /\ value <= Unicode

Escape(value) ==
  /\ scanning = "string"
  /\ CASE Surrogate(value) -> pending' = value /\ UNCHANGED <<codePoints, scanning, given>>
       [] ~Lead(value) /\ Decodable(value) ->
            /\ codePoints' = codePoints \cup {IF Trail(value) THEN Joined(pending, value) ELSE value}
            /\ pending' = 0 /\ UNCHANGED <<scanning, given>>
       [] OTHER -> Fail /\ UNCHANGED <<pending, codePoints>>
  /\ UNCHANGED <<named, section, keyed, quoted, brackets, paths, sourceFile, recorded>>

\* A plain character after a lead.  Elsewhere it changes nothing but the text.
Character ==
  /\ scanning = "string" /\ pending # 0
  /\ Fail
  /\ UNCHANGED <<named, section, keyed, quoted, brackets, pending, codePoints, paths, sourceFile, recorded>>

Quote ==
  /\ scanning = "string"
  /\ IF pending # 0 THEN Fail /\ UNCHANGED <<keyed, paths, sourceFile, recorded>>
     ELSE \/ /\ quoted = "key" /\ keyed' \in Keys /\ scanning' = "assign"
             /\ UNCHANGED <<paths, sourceFile, recorded, given>>
          \/ quoted = "value" /\ (\E value \in Texts : Record(value)) /\ UNCHANGED keyed
          \/ quoted = "typed" /\ Skip /\ UNCHANGED <<keyed, paths, sourceFile, recorded>>
          \/ /\ quoted = "skipped" /\ scanning' = "balanced"
             /\ UNCHANGED <<keyed, paths, sourceFile, recorded, given>>
  /\ codePoints' = {}
  /\ UNCHANGED <<named, section, quoted, brackets, pending>>

-----------------------------------------------------------------------------
(* The end of the text.                                                    *)

Shown == IF sourceFile = Unnamed THEN Derived ELSE Normalize(sourceFile)

Mappings == [i \in DOMAIN paths |->
             [virtual |-> Shown, compiled |-> Normalize(paths[i].value), variant |-> paths[i].variant]]

EndOfText ==
  /\ scanning = "line"
  /\ scanning' = "done"
  /\ given' = IF Shown = NoPath \/ (\E i \in DOMAIN paths : Normalize(paths[i].value) = NoPath)
              THEN "error" ELSE "mappings"
  /\ UNCHANGED <<named, section, keyed, quoted, brackets, pending, codePoints, paths, sourceFile, recorded>>

RemapNext ==
  \/ MalformedText \/ SectionName \/ Key \/ Assignment \/ BareToken \/ String
  \/ OpenBracket \/ CloseBracket \/ (\E value \in Escapes : Escape(value)) \/ Character \/ Quote
  \/ EndOfText

RemapSpec == RemapInit /\ [][RemapNext]_remap

-----------------------------------------------------------------------------
\* What is accepted is one mapping per feature, and every line of [remap] that
\* named the feature agrees with it: no order of repeated lines picks a winner.
PathsAgree ==
  given = "mappings" =>
    /\ \A i, j \in DOMAIN Mappings : Mappings[i].variant = Mappings[j].variant => i = j
    /\ \A line \in recorded : \E i \in DOMAIN Mappings :
         Mappings[i].variant = line.variant /\ Mappings[i].compiled = Normalize(line.value)
    /\ Len(Mappings) <= MaxMappings

\* The escapes of a string decode to scalar values of Unicode, whatever halves
\* of surrogate pairs they are: a half is joined with its other half or refused.
StringsAreScalar == \A c \in codePoints : c \in 0..Unicode /\ ~Lead(c) /\ ~Trail(c)

\* A skipped value is skipped as a whole: no line starts inside its brackets.
GroupsAreClosed == scanning \in {"line", "assign", "value"} => brackets = <<>>

\* What read_import_remap accepts says one thing, whatever the text repeats,
\* nests or escapes.
MetadataIsSound == PathsAgree /\ StringsAreScalar /\ GroupsAreClosed
=============================================================================
