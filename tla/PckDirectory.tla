---------------------------- MODULE PckDirectory ----------------------------
(***************************************************************************)
(* Finding a Godot pack in a file and reading its directory                *)
(* (src/src/core/godot/pck.cpp).  Every number the file holds is chosen    *)
(* when it is read, from Numbers: the directory may be damaged, truncated  *)
(* or of another version.  Sums are those of the code, of Word values;     *)
(* file sizes fit half of them, as a signed offset does.  Widths of fields *)
(* are the format's, in bytes.                                             *)
(***************************************************************************)
EXTENDS Integers, Sequences, FiniteSetsExt, SequencesExt

CONSTANTS
  Word,          \* 2^64
  FileSizes,
  Shifts,        \* offsets into a section at which its pack may begin: 0..7
  Numbers,       \* values a field of the file may hold
  Versions,      \* values of the format version
  Counts,        \* values of a count of sections or entries
  RawNames,      \* stored names: bytes [stored], bytes without the padding [logical],
                 \* and the parts between slashes, res:// taken off
  MaxPath,       \* archive_limits::max_path_bytes
  MaxEntries,    \* archive_limits::max_entry_count
  EntryCost,     \* sizeof(pck_entry)
  MaxIndexBytes, \* pck_limits::max_index_bytes
  Chunk          \* encryption_chunk_bytes

ASSUME DirectoryAssumption ==
  /\ Word \in Nat /\ MaxIndexBytes \in 0..(Word - 1) /\ Chunk \in Nat /\ EntryCost \in Nat
  /\ \A s \in FileSizes : s \in Nat /\ 2 * s < Word
  /\ Numbers \subseteq 0..(Word - 1)
  /\ Counts \subseteq Nat /\ Shifts \subseteq Nat /\ MaxPath \in Nat
  /\ \A n \in RawNames : n.stored \in Nat /\ n.logical \in Nat

VARIABLES
  fileSize,
  pack,       \* the located range
  pc,
  version,
  base,       \* file_base
  count,      \* entries announced
  secret,     \* the directory is encrypted
  key,        \* what read_pack is given: "null", "right" or "wrong"
  evidence,   \* index.key_evidence
  cursor, limit,  \* the reader of the directory: its position, its end
  budget,     \* budget_used
  entries,
  result

vars == <<fileSize, pack, pc, version, base, count, secret, key, evidence, cursor, limit, budget,
          entries, result>>

Extent(offset, size) == [offset |-> offset, size |-> size]
Nowhere == Extent(0, 0)
Error == "error"  \* pck_error, also for a read past an end

Stop(how) == pc' = "done" /\ result' = how

\* Mutant of CheckedAdd: sums wrap.
CheckedAddWraps(a, b) == (a + b) % Word

\* The sum, or Word when it does not fit.
CheckedAdd(a, b) == IF a + b < Word THEN a + b ELSE Word
Fits(sum) == sum < Word

Init ==
  /\ fileSize \in FileSizes
  /\ key \in {"null", "right", "wrong"}
  /\ pack = Nowhere /\ pc = "standalone"
  /\ version = 0 /\ base = 0 /\ count = 0 /\ secret = FALSE /\ evidence = FALSE
  /\ cursor = 0 /\ limit = 0 /\ budget = 0 /\ entries = <<>>
  /\ result = "none"

-----------------------------------------------------------------------------
(* locate_pack: the file is a pack, or a section of an executable holds one, *)
(* or its last bytes point back to one.                                      *)

Reading == <<version, base, count, secret, evidence, cursor, limit, budget, entries>>

Locate(where) == pack' = where /\ pc' = "header" /\ UNCHANGED result

Standalone ==
  /\ pc = "standalone"
  /\ \/ fileSize >= 4 /\ Locate(Extent(0, fileSize))
     \/ pc' = "section" /\ UNCHANGED <<pack, result>>
  /\ UNCHANGED <<fileSize, key, Reading>>

\* locate_embedded_pack: the range of the section, the zero placeholder of a
\* template, and the magic at one of eight shifts.
Embedded(raw, size) ==
  \/ (raw >= fileSize \/ raw + size > fileSize) /\ Stop(Error) /\ UNCHANGED pack
  \/ /\ raw < fileSize /\ raw + size <= fileSize
     /\ \/ size = 512 /\ pc' = "footer" /\ UNCHANGED <<pack, result>>
        \/ \E shift \in Shifts : raw + shift + 4 <= raw + size /\ Locate(Extent(raw + shift, size - shift))
        \/ Stop(Error) /\ UNCHANGED pack

Section ==
  /\ pc = "section"
  /\ \/ pc' = "footer" /\ UNCHANGED <<pack, result>>  \* not MZ, not PE, no such section or an empty one
     \/ /\ fileSize >= 2 /\ fileSize < 64
        /\ Stop(Error) /\ UNCHANGED pack
     \/ /\ fileSize >= 64
        /\ \E pe, optional \in Numbers, sections \in Counts :
             LET table == pe + 24 + optional
             IN IF pe + 24 > fileSize \/ table > fileSize \/ (fileSize - table) \div 40 < sections
                THEN Stop(Error) /\ UNCHANGED pack
                ELSE sections > 0 /\ \E raw \in Numbers \ {0}, size \in Numbers : Embedded(raw, size)
  /\ UNCHANGED <<fileSize, key, Reading>>

Footer ==
  /\ pc = "footer"
  /\ \/ Stop("no pack") /\ UNCHANGED pack
     \/ /\ fileSize >= 4
        /\ \E size \in Numbers :
             IF fileSize < 12 \/ size < 4 \/ size > fileSize - 12
             THEN Stop(Error) /\ UNCHANGED pack
             ELSE \/ Locate(Extent(fileSize - 12 - size, size))
                  \/ Stop(Error) /\ UNCHANGED pack
  /\ UNCHANGED <<fileSize, key, Reading>>

-----------------------------------------------------------------------------
PackEnd == pack.offset + pack.size

\* read_encrypted_payload: the envelope of a payload that announces logical
\* bytes, in a window of the file; Nowhere is an encryption_error.
Envelope(window, logical, bound) ==
  LET padded == 16 * ((logical + 15) \div 16)
  IN IF \/ window.offset > fileSize \/ window.size > fileSize - window.offset
        \/ window.size < 40
        \/ logical > bound \/ logical > Word - 16
        \/ padded > window.size - 40
     THEN Nowhere ELSE Extent(window.offset, 40 + padded)

\* charge_budget: the new total, or Word when it is over the limit.
Charged(used, amount) ==
  LET total == CheckedAdd(used, amount) IN IF total > MaxIndexBytes THEN Word ELSE total

MinimumEntryBytes == IF version >= 2 THEN 41 ELSE 37

(***************************************************************************)
(* read_pack_impl up to the directory: the version decides which fields    *)
(* follow, where offsets start and where the directory is.                 *)
(***************************************************************************)
HeaderBytes(v) == IF v >= 3 THEN 40 ELSE IF v = 2 THEN 96 ELSE 84

Header ==
  /\ pc = "header"
  /\ \E v \in Versions, flagged, relative, unsupported \in BOOLEAN, storedBase, storedDirectory \in Numbers :
       LET start     == pack.offset
           fileBase  == IF v <= 1 THEN 0
                        ELSE IF v >= 3 \/ relative THEN CheckedAdd(start, storedBase) ELSE storedBase
           directory == IF v >= 3 THEN CheckedAdd(start, storedDirectory) ELSE start + HeaderBytes(v)
       IN /\ v < 2 => ~flagged /\ ~relative /\ ~unsupported /\ storedBase = 0
          /\ v < 3 => storedDirectory = 0
          /\ IF \/ HeaderBytes(v) > pack.size \/ v > 4 \/ unsupported
                \/ ~Fits(fileBase) \/ ~Fits(directory) \/ directory > PackEnd \/ PackEnd - directory < 4
             THEN Stop(Error) /\ UNCHANGED <<version, base, secret, cursor, limit>>
             ELSE /\ version' = v /\ base' = fileBase /\ secret' = flagged
                  /\ cursor' = directory + 4 /\ limit' = PackEnd
                  /\ pc' = IF flagged THEN "secret directory" ELSE "directory"
                  /\ UNCHANGED result
  /\ count' \in Counts
  /\ UNCHANGED <<fileSize, pack, key, evidence, budget, entries>>

\* An encrypted directory: its envelope lies between the count and the end of
\* the pack; it must be verified, under the key given or none, before it is read.
SecretDirectory ==
  /\ pc = "secret directory"
  /\ \E logical \in Numbers :
       LET envelope  == Envelope(Extent(cursor, PackEnd - cursor), logical, MaxIndexBytes)
           workspace == Min({envelope.size - 40, Chunk})
       IN IF count > MaxEntries \/ envelope = Nowhere
          THEN Stop(Error) /\ UNCHANGED <<evidence, cursor, limit, budget>>
          ELSE IF key = "null" /\ logical # 0
          THEN Stop("key required") /\ UNCHANGED <<evidence, cursor, limit, budget>>
          ELSE IF ~Fits(Charged(workspace, count * EntryCost))
          THEN Stop(Error) /\ UNCHANGED <<evidence, cursor, limit, budget>>
          ELSE IF key # "right" /\ logical # 0
          THEN Stop("key mismatch") /\ UNCHANGED <<evidence, cursor, limit, budget>>
          ELSE /\ evidence' = (logical # 0)
               /\ cursor' = 0 /\ limit' = logical /\ budget' = workspace
               /\ pc' = "directory" /\ UNCHANGED result
  /\ UNCHANGED <<fileSize, pack, version, base, count, secret, key, entries>>

\* Mutant of Directory: the entries are not paid for.
DirectoryUnpaid ==
  /\ pc = "directory"
  /\ count <= MaxEntries /\ count * MinimumEntryBytes <= limit - cursor
  /\ pc' = "entries"
  /\ UNCHANGED <<fileSize, pack, version, base, count, secret, key, evidence, cursor, limit, budget, entries, result>>

\* read_directory before its loop: room and budget for every entry announced.
Directory ==
  /\ pc = "directory"
  /\ LET paid == Charged(budget, count * EntryCost)
     IN IF count > MaxEntries \/ count * MinimumEntryBytes > limit - cursor \/ ~Fits(paid)
        THEN Stop(Error) /\ UNCHANGED budget
        ELSE budget' = paid /\ pc' = "entries" /\ UNCHANGED result
  /\ UNCHANGED <<fileSize, pack, version, base, count, secret, key, evidence, cursor, limit, entries>>

\* sanitize_path: not empty, not rooted, no part of a drive, of another
\* separator or with a NUL, and no way up.
Sanitary(name) == Head(name.parts) # "" /\ \A i \in DOMAIN name.parts : name.parts[i] \notin {"..", "unsafe"}

(***************************************************************************)
(* read_entry: its name is paid for twice, as stored and as kept, its flags*)
(* must be a mode this reader knows, and its body must end inside the file.*)
(***************************************************************************)
Modes == {"plain", "encrypted", "removal", "unknown"}

ReadEntry ==
  /\ pc = "entries" /\ Len(entries) < count
  /\ \E name \in RawNames, storedOffset, size \in Numbers, mode \in Modes :
       LET end    == cursor + MinimumEntryBytes - 1 + name.stored
           paid   == Charged(Charged(budget, name.stored), name.logical)
           offset == CheckedAdd(base, storedOffset)
       IN /\ version < 2 => mode = "plain"
          /\ IF \/ name.stored \notin 1..(MaxPath + 3) \/ name.logical > MaxPath \/ ~Sanitary(name)
                \/ end > limit \/ ~Fits(paid)
                \/ mode = "unknown" \/ (mode = "removal" /\ size # 0)
                \/ ~Fits(offset) \/ CheckedAdd(offset, size) > fileSize
             THEN Stop(Error) /\ UNCHANGED <<budget, cursor, entries>>
             ELSE /\ budget' = paid /\ cursor' = end
                  /\ entries' = Append(entries, [body |-> Extent(offset, size), logical |-> size,
                                                 mode |-> mode, names |-> name.stored + name.logical])
                  /\ UNCHANGED <<pc, result>>
  /\ UNCHANGED <<fileSize, pack, version, base, count, secret, key, evidence, limit>>

\* Nothing may follow the entries of an encrypted directory.
EntriesEnd ==
  /\ pc = "entries" /\ Len(entries) = count
  /\ IF secret /\ cursor # limit THEN Stop(Error) ELSE pc' = "members" /\ UNCHANGED result
  /\ UNCHANGED <<fileSize, pack, version, base, count, secret, key, evidence, cursor, limit, budget, entries>>

Unresolved == {i \in DOMAIN entries : entries[i].mode = "encrypted"}

(***************************************************************************)
(* The encrypted entries, in order: what the entry calls its body begins   *)
(* an envelope, which must lie inside the pack.  The unsigned difference   *)
(* also refuses a body before the pack.  A resolved entry is "sealed".     *)
(***************************************************************************)
ResolveMember ==
  /\ pc = "members"
  /\ \E i \in Unresolved, logical \in Numbers :
       LET relative == (entries[i].body.offset - pack.offset) % Word
           envelope == Envelope(Extent(entries[i].body.offset, pack.size - relative), logical, Word)
       IN /\ \A j \in Unresolved : i <= j
          /\ IF relative > pack.size \/ envelope = Nowhere \/ logical # entries[i].logical
             THEN Stop(Error) /\ UNCHANGED entries
             ELSE /\ entries' = [entries EXCEPT ![i].body = envelope, ![i].mode = "sealed"]
                  /\ UNCHANGED <<pc, result>>
  /\ UNCHANGED <<fileSize, pack, version, base, count, secret, key, evidence, cursor, limit, budget>>

IndexRead ==
  /\ pc = "members" /\ Unresolved = {}
  /\ Stop("index")
  /\ UNCHANGED <<fileSize, pack, version, base, count, secret, key, evidence, cursor, limit, budget, entries>>

Next ==
  \/ Standalone \/ Section \/ Footer
  \/ Header \/ SecretDirectory \/ Directory \/ ReadEntry \/ EntriesEnd \/ ResolveMember \/ IndexRead

Spec == Init /\ [][Next]_vars

-----------------------------------------------------------------------------
Within(r, low, high) == r.offset >= low /\ r.offset + r.size <= high

(***************************************************************************)
(* No extent the session is given, the pack's, a plain entry's or a sealed *)
(* one's, reaches outside what it belongs to, as integers: no sum of the   *)
(* directory's numbers wraps into range, however they were chosen.         *)
(***************************************************************************)
ExtentsAreInside ==
  /\ Within(pack, 0, fileSize)
  /\ \A i \in DOMAIN entries :
       LET e == entries[i]
       IN /\ e.mode # "encrypted" => Within(e.body, 0, fileSize)
          /\ e.mode = "sealed" => /\ Within(e.body, pack.offset, PackEnd)
                                  /\ e.logical <= e.body.size - 40

(***************************************************************************)
(* The budget is never behind what the reader holds: the entries it        *)
(* reserved room for and the bytes of the names read so far fit it, at     *)
(* every point of the read.                                                *)
(***************************************************************************)
BudgetCoversIndex ==
  pc \in {"entries", "members"} =>
    /\ budget >= count * EntryCost + SumFunctionOnSet([i \in DOMAIN entries |-> entries[i].names], DOMAIN entries)
    /\ budget <= MaxIndexBytes

(***************************************************************************)
(* An index is the whole directory and nothing of what lies around it: as  *)
(* many entries as announced, all inside the bytes they were read from,    *)
(* and an encrypted directory read to its last byte under the right key.   *)
(***************************************************************************)
IndexIsWhole ==
  result = "index" =>
    /\ Len(entries) = count /\ cursor <= limit /\ limit <= fileSize
    /\ secret => cursor = limit /\ (evidence => key = "right") /\ evidence = (limit # 0)

\* What read_pack hands to the session lies inside the file and is all there is.
DirectoryIsSound == ExtentsAreInside /\ IndexIsWhole
=============================================================================
