----------------------------- MODULE VirtualTree -----------------------------
(***************************************************************************)
(* The names the Godot module shows the host                               *)
(* (src/src/modules/godot/virtual_tree.cpp), and the retries of            *)
(* build_bounded_tree (godot.cpp).  Every file of the pack gets a row: the *)
(* raw file, or one converted view per name its metadata gives it.  The    *)
(* rows are placed one after the other; a name already taken, in any       *)
(* letter case, by a row or by a folder of any row gets the suffix ~1, ~2, *)
(* ..., and a name too long gets a number instead.  Two generated rows     *)
(* follow: the removals of a patch, and the map of the renamed rows.       *)
(***************************************************************************)
EXTENDS Integers, Sequences, FiniteSets, SequencesExt

CONSTANTS
  Stems,       \* what a path component is made of, before suffix and extension
  Extensions,  \* extensions; "" is none
  Folded,      \* Folded[s]: the stem under CompareStringOrdinal's case folding
  Width,       \* Width[s]: code units of a stem
  Numeral,     \* Numeral[n]: the stem std::to_string gives n
  Physical,    \* physical paths of packs
  Presented,   \* Presented[p]: escape_path of a physical path
  Untouched,   \* physical paths escape_path leaves as they are
  Inputs,      \* indexes, mappings and hints to present
  MaxChars,    \* tree_limits::max_path_chars
  MaxEntries   \* tree_limits::max_entries

(***************************************************************************)
(* A path is the sequence of its components; a component is a stem, the    *)
(* ~counters appended to it, and an extension (the variant of a mapping is *)
(* part of its stem).                                                      *)
(***************************************************************************)
Component == [stem : Stems, sfx : Seq(Nat), ext : Extensions]
Path == Seq(Component) \ {<<>>}

(***************************************************************************)
(* The entries of the pack in order; the mappings the metadata gave, the   *)
(* name to show and the physical path it names; after how many mappings    *)
(* each metadata fragment ends; the extension a convertible entry gets;    *)
(* and a number for every row.                                             *)
(***************************************************************************)
IsInput(in) ==
  /\ in.entries \in Seq([kind : {"file", "removal"}, path : Physical])
  /\ in.maps \in Seq([shown : Path, compiled : Physical])
  /\ in.checkpoints \in Seq(0..Len(in.maps))
  /\ in.hints \in [1..Len(in.entries) -> Extensions \cup {"no hint"}]
  /\ \A n \in 0..(2 * Len(in.entries) + Len(in.maps)) : Numeral[n] \in Stems

ASSUME TreeAssumption ==
  /\ Folded \in [Stems -> Stems]
  /\ Presented \in [Physical -> Path]
  /\ "no hint" \notin Extensions
  /\ {"patch-removals", "name-map", "r", "n"} \subseteq Stems
  /\ {"", ".tsv"} \subseteq Extensions
  /\ MaxEntries \in Nat
  /\ \A in \in Inputs : IsInput(in)

VARIABLES
  input,      \* what is presented
  fragments,  \* build_bounded_tree: metadata fragments still used
  pc,         \* "build", "next" row, "try" a name, "done"
  stage,      \* "files", "removals", "map": what is being placed
  rows,       \* rows not placed yet
  base,       \* the name whose candidates are tried
  counter,    \* the candidate's number
  dirs,       \* dirs_, folded
  files,      \* files_, folded
  memo,       \* suffix_next_
  entries,    \* the tree so far
  renamed,    \* the rows of name-map.tsv
  result      \* "none", "tree", "tree_error", "tree_budget_error"

vars == <<input, fragments, pc, stage, rows, base, counter, dirs, files, memo, entries, renamed,
          result>>

-----------------------------------------------------------------------------
\* Names.

Fold(path) == [i \in DOMAIN path |-> [path[i] EXCEPT !.stem = Folded[@]]]
Named(stem, ext) == <<[stem |-> stem, sfx |-> <<>>, ext |-> ext]>>
WithExtension(path, ext) == [path EXCEPT ![Len(path)].ext = ext]
Suffixed(path, n) == [path EXCEPT ![Len(path)].sfx = Append(@, n)]
Candidate(path, n) == IF n = 0 THEN path ELSE Suffixed(path, n)

\* A suffix of one digit is two code units; separators count one each.
Chars(path) ==
  FoldSeq(+, Len(path) - 1,
          [i \in DOMAIN path |-> Width[path[i].stem] + 2 * Len(path[i].sfx)])
Fits(path) == Chars(path) <= MaxChars

Ancestors(path) == {SubSeq(path, 1, n) : n \in 1..(Len(path) - 1)}

-----------------------------------------------------------------------------
\* Rows.

Positions(in) == 1..Len(in.entries)
IsFile(in, i) == in.entries[i].kind = "file"
Hinted(in, i) == in.hints[i] # "no hint"
First(S) == CHOOSE n \in S : \A m \in S : n <= m

\* The mappings in use: those of the first fragments.
Mappings(in, f) == SubSeq(in.maps, 1, IF f = 0 THEN 0 ELSE in.checkpoints[f])

\* The entry a mapping names: the first file with its physical path.
NamedBy(in, m) == {i \in Positions(in) : IsFile(in, i) /\ in.entries[i].path = m.compiled}
IsTarget(in, m, i) == NamedBy(in, m) # {} /\ i = First(NamedBy(in, m))
MappingsTo(in, f, i) == {k \in DOMAIN Mappings(in, f) : IsTarget(in, in.maps[k], i)}

OrFallback(path, fallback) == IF Fits(path) THEN path ELSE fallback
RowOf(i, converted, path, fallback) ==
  [source |-> i, converted |-> converted, kind |-> "file",
   effective |-> OrFallback(path, fallback), fallback |-> fallback]

RawRow(in, f, i) ==
  LET shown == Presented[in.entries[i].path]
      k     == First(MappingsTo(in, f, i))
  IN RowOf(i, FALSE,
           IF MappingsTo(in, f, i) = {} THEN shown
           ELSE WithExtension(in.maps[k].shown, shown[Len(shown)].ext),
           Named(Numeral[i - 1], ""))

\* The elements of a finite set of numbers, in ascending order.
Nth(S, n) == CHOOSE x \in S : Cardinality({y \in S : y <= x}) = n
Ascending(S) == [n \in 1..Cardinality(S) |-> Nth(S, n)]

RawRows(in, f) ==
  LET raw == Ascending({i \in Positions(in) : IsFile(in, i) /\ ~Hinted(in, i)})
  IN [n \in DOMAIN raw |-> RawRow(in, f, raw[n])]

\* The hinted entries no mapping names, and the mappings that name a hinted entry.
Alone(in, f) == {i \in Positions(in) : Hinted(in, i) /\ MappingsTo(in, f, i) = {}}
Mapped(in, f) ==
  {k \in DOMAIN Mappings(in, f) :
     \E i \in Positions(in) : IsTarget(in, in.maps[k], i) /\ Hinted(in, i)}

Number(in, n) == Named(Numeral[Len(in.entries) + n - 1], "")
AloneRow(in, i, n) ==
  RowOf(i, TRUE, WithExtension(Presented[in.entries[i].path], in.hints[i]), Number(in, n))
MappedRow(in, k, n) ==
  LET target == First(NamedBy(in, in.maps[k]))
  IN RowOf(target, TRUE, WithExtension(in.maps[k].shown, in.hints[target]), Number(in, n))

\* Mutant of ConvertedRows: a hinted entry is shown only if a mapping names it.
ConvertedRowsOfMappings(in, f) ==
  LET mapped == Ascending(Mapped(in, f))
  IN [n \in DOMAIN mapped |-> MappedRow(in, mapped[n], n)]

\* Converted views: the hinted entries no mapping names, then one per mapping.
ConvertedRows(in, f) ==
  LET alone  == Ascending(Alone(in, f))
      mapped == Ascending(Mapped(in, f))
  IN [n \in DOMAIN alone |-> AloneRow(in, alone[n], n)] \o
     [n \in DOMAIN mapped |-> MappedRow(in, mapped[n], Len(alone) + n)]

AllRows(in, f) == RawRows(in, f) \o ConvertedRows(in, f)

Generated(kind, stem, fallback) ==
  [source |-> 0, converted |-> FALSE, kind |-> kind,
   effective |-> Named(stem, ".tsv"), fallback |-> Named(fallback, "")]

Removals(in) == {i \in Positions(in) : in.entries[i].kind = "removal"}

-----------------------------------------------------------------------------
Init ==
  /\ input \in Inputs
  /\ fragments = Len(input.checkpoints)
  /\ pc = "build"
  /\ stage = "files"
  /\ rows = <<>>
  /\ base = <<>>
  /\ counter = 0
  /\ dirs = {}
  /\ files = {}
  /\ memo = <<>>
  /\ entries = <<>>
  /\ renamed = {}
  /\ result = "none"

Failed(how) == pc' = "done" /\ result' = how

\* make_virtual_tree up to the placer: the entry limit, the rows, and the
\* folders of all of them.
Build ==
  /\ pc = "build"
  /\ IF Len(input.entries) > MaxEntries \/ Len(Mappings(input, fragments)) > MaxEntries
     THEN Failed("tree_error") /\ UNCHANGED <<rows, dirs>>
     ELSE /\ rows' = AllRows(input, fragments)
          /\ dirs' = UNION {{Fold(d) : d \in Ancestors(rows'[n].effective)} : n \in DOMAIN rows'}
          /\ pc' = "next"
          /\ UNCHANGED result
  /\ UNCHANGED <<input, fragments, stage, base, counter, files, memo, entries, renamed>>

Remembered(path) == IF Fold(path) \in DOMAIN memo THEN memo[Fold(path)] ELSE 0

\* select starts where the last search for this name stopped.
Start(path) == base' = path /\ counter' = Remembered(path)

NextRow ==
  /\ pc = "next" /\ rows # <<>>
  /\ Start(Head(rows).effective)
  /\ pc' = "try"
  /\ UNCHANGED <<input, fragments, stage, rows, dirs, files, memo, entries, renamed, result>>

Taken(path) == Fold(path) \in files \cup dirs

NameTaken ==
  /\ pc = "try"
  /\ Fits(Candidate(base, counter))
  /\ Taken(Candidate(base, counter))
  /\ counter' = counter + 1
  /\ UNCHANGED <<input, fragments, pc, stage, rows, base, dirs, files, memo, entries, renamed,
                 result>>

\* The preferred name does not fit any more: its number; the number neither: the
\* whole tree fails.
NameTooLong ==
  /\ pc = "try"
  /\ ~Fits(Candidate(base, counter))
  /\ IF base = Head(rows).fallback
     THEN Failed("tree_error") /\ UNCHANGED <<base, counter>>
     ELSE Start(Head(rows).fallback) /\ UNCHANGED <<pc, result>>
  /\ UNCHANGED <<input, fragments, stage, rows, dirs, files, memo, entries, renamed>>

\* Mutant of Remember: the next search of this name starts one too late.
RememberTooMuch ==
  memo' = IF counter = 0 THEN memo
          ELSE [k \in DOMAIN memo \cup {Fold(base)} |-> IF k = Fold(base) THEN counter + 2 ELSE memo[k]]

\* Only a name that collided leaves an entry.
Remember ==
  memo' = IF counter = 0 THEN memo
          ELSE [k \in DOMAIN memo \cup {Fold(base)} |-> IF k = Fold(base) THEN counter + 1 ELSE memo[k]]

IsOwnName(row, path) ==
  LET p == input.entries[row.source].path IN p \in Untouched /\ Presented[p] = path

\* Mutant of NameFree: only a name changed by a collision enters the map.
NameFreeMapsCollisions ==
  LET row  == Head(rows)
      path == Candidate(base, counter)
  IN /\ pc = "try"
     /\ Fits(path) /\ ~Taken(path)
     /\ files' = files \cup {Fold(path)}
     /\ Remember
     /\ Len(entries) < MaxEntries
     /\ entries' = Append(entries, [path |-> path, source |-> row.source,
                                    converted |-> row.converted, kind |-> row.kind])
     /\ renamed' = IF row.kind = "file" /\ path # row.effective
                   THEN renamed \cup {[source |-> row.source, path |-> path]} ELSE renamed
     /\ rows' = Tail(rows) /\ pc' = "next"
     /\ UNCHANGED <<input, fragments, stage, base, counter, dirs, result>>

\* select, accept, append_row, add_entry.
NameFree ==
  LET row  == Head(rows)
      path == Candidate(base, counter)
  IN /\ pc = "try"
     /\ Fits(path) /\ ~Taken(path)
     /\ files' = files \cup {Fold(path)}
     /\ Remember
     /\ IF Len(entries) >= MaxEntries
        THEN Failed("tree_error") /\ UNCHANGED <<entries, renamed, rows>>
        ELSE /\ entries' = Append(entries, [path |-> path, source |-> row.source,
                                            converted |-> row.converted, kind |-> row.kind])
             /\ renamed' = IF row.kind = "file" /\ ~IsOwnName(row, path)
                           THEN renamed \cup {[source |-> row.source, path |-> path]} ELSE renamed
             /\ rows' = Tail(rows) /\ pc' = "next" /\ UNCHANGED result
     /\ UNCHANGED <<input, fragments, stage, base, counter, dirs>>

\* The generated rows come after the files, so that they rename none of them.
GeneratedRows ==
  /\ pc = "next" /\ rows = <<>>
  /\ \/ /\ stage = "files" /\ stage' = "removals"
        /\ rows' = IF Removals(input) = {} THEN <<>>
                   ELSE <<Generated("removals", "patch-removals", "r")>>
     \/ /\ stage = "removals" /\ stage' = "map"
        /\ rows' = IF renamed = {} THEN <<>> ELSE <<Generated("map", "name-map", "n")>>
  /\ UNCHANGED <<input, fragments, pc, base, counter, dirs, files, memo, entries, renamed, result>>

TreeDone ==
  /\ pc = "next" /\ rows = <<>> /\ stage = "map"
  /\ Failed("tree")
  /\ UNCHANGED <<input, fragments, stage, rows, base, counter, dirs, files, memo, entries, renamed>>

\* Mutants of BudgetBreach: half of nothing is tried again; the breach is
\* passed on at once.
BudgetBreachForever ==
  /\ pc # "done"
  /\ fragments' = fragments \div 2
  /\ pc' = "build" /\ stage' = "files" /\ rows' = <<>> /\ base' = <<>> /\ counter' = 0
  /\ dirs' = {} /\ files' = {} /\ memo' = <<>> /\ entries' = <<>> /\ renamed' = {}
  /\ UNCHANGED <<input, result>>
BudgetBreachRethrown ==
  /\ pc # "done"
  /\ Failed("tree_budget_error")
  /\ UNCHANGED <<input, fragments, stage, rows, base, counter, dirs, files, memo, entries, renamed>>

(***************************************************************************)
(* A charge exceeds the budget, anywhere: the partial tree unwinds, and    *)
(* half of the fragments is tried; without fragments it is rethrown.       *)
(***************************************************************************)
BudgetBreach ==
  /\ pc # "done"
  /\ IF fragments = 0
     THEN /\ Failed("tree_budget_error")
          /\ UNCHANGED <<fragments, stage, rows, base, counter, dirs, files, memo, entries, renamed>>
     ELSE /\ fragments' = fragments \div 2
          /\ pc' = "build" /\ stage' = "files" /\ rows' = <<>> /\ base' = <<>> /\ counter' = 0
          /\ dirs' = {} /\ files' = {} /\ memo' = <<>> /\ entries' = <<>> /\ renamed' = {}
          /\ UNCHANGED result
  /\ UNCHANGED input

Step == Build \/ NextRow \/ NameTaken \/ NameTooLong \/ NameFree \/ GeneratedRows \/ TreeDone

Next == Step \/ BudgetBreach

Spec == Init /\ [][Next]_vars

\* The listing runs to its end on the host's thread.
FairSpec == Spec /\ WF_vars(Step)

-----------------------------------------------------------------------------
RowType == [source : Nat, converted : BOOLEAN, kind : {"file", "removals", "map"},
            effective : Path, fallback : Path]

TypeOK ==
  /\ input \in Inputs
  /\ fragments \in Nat
  /\ pc \in {"build", "next", "try", "done"}
  /\ stage \in {"files", "removals", "map"}
  /\ rows \in Seq(RowType)
  /\ counter \in Nat
  /\ result \in {"none", "tree", "tree_error", "tree_budget_error"}

(***************************************************************************)
(* On a file system that ignores case no two rows are one file, and no row *)
(* is a file where another one needs a folder, whichever rows come first.  *)
(***************************************************************************)
NamesAreDistinct ==
  \A i, j \in DOMAIN entries :
    i # j => /\ Fold(entries[i].path) # Fold(entries[j].path)
             /\ ~IsStrictPrefix(Fold(entries[i].path), Fold(entries[j].path))

(***************************************************************************)
(* The memory of suffixes only skips names that are taken (the comment on  *)
(* select): every row gets the first free candidate, as if the search had  *)
(* started from the beginning.                                             *)
(***************************************************************************)
FirstFreeNameIsChosen ==
  pc = "try" => \A n \in 0..(counter - 1) : Taken(Candidate(base, n))

\* The tree is typed, no two of its names are one file or need a file as a folder,
\* and every row gets the first of its candidates that is free.
NamesAreSound == TypeOK /\ NamesAreDistinct /\ FirstFreeNameIsChosen

(***************************************************************************)
(* "No physical file or removal record is ever silently dropped"           *)
(* (virtual_tree.h): a finished tree shows every file, raw or converted,   *)
(* and raw only what cannot be converted.                                  *)
(***************************************************************************)
NothingIsDropped ==
  result = "tree" =>
    /\ \A i \in Positions(input) :
         IsFile(input, i) => \E n \in DOMAIN entries :
                               entries[n].source = i /\ entries[n].converted = Hinted(input, i)
    /\ Removals(input) # {} => \E n \in DOMAIN entries : entries[n].kind = "removals"

(***************************************************************************)
(* The name map leads back to the pack: a row shown under another name     *)
(* than its physical one is in it, and nothing else is.                    *)
(***************************************************************************)
MapIsExact ==
  result = "tree" =>
    /\ renamed = {[source |-> entries[n].source, path |-> entries[n].path] :
                    n \in {m \in DOMAIN entries :
                             entries[m].kind = "file" /\ ~IsOwnName(entries[m], entries[m].path)}}
    /\ (renamed # {}) = (\E n \in DOMAIN entries : entries[n].kind = "map")

\* "Optional alias metadata can never lose the raw listing" (godot.cpp): a
\* budget breach fails the listing only after every alias was given up.
AliasesNeverLoseTheListing == result = "tree_budget_error" => fragments = 0

\* Every listing ends: no name is searched for ever, no retry repeats itself.
TreeEnds == <>(pc = "done")
=============================================================================
