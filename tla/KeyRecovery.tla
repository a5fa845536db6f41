----------------------------- MODULE KeyRecovery -----------------------------
(***************************************************************************)
(* recover_key_candidates (core/godot/key_recovery.cpp), called for one    *)
(* executable after the other with one budget (archive_session.cpp): the   *)
(* sections of the image, the windows of instructions around the magic of  *)
(* a pack, and the keys those windows refer to.  An instruction is one     *)
(* byte long here and says what the decoder says of it; a key is a set, so *)
(* that XOR is the symmetric difference.                                   *)
(***************************************************************************)
EXTENDS Integers, Sequences, FiniteSetsExt, SequencesExt

CONSTANTS
  Executables,   \* what may be visited: [bytes, header, base, sections]
  Visited,       \* how many are
  KeyAt(_), PointerAt(_),  \* the key and the pointer stored at an address
  KeyBytes, PointerBytes, HeaderCost,
  MaxScanned, MaxInstructions, MaxCandidates, MaxWindow,  \* key_recovery_limits
  MaxKeys,       \* max_recovered_keys
  MaxGlobals,    \* 32
  Before         \* fruitless starts tried before the instruction that holds a magic

(***************************************************************************)
(* The parser hands out sections with natural fields; the decoder hands    *)
(* out addresses; and what is stored where a pointer may be is a number.   *)
(***************************************************************************)
ASSUME RecoveryAssumption ==
  /\ {KeyBytes, PointerBytes, HeaderCost, MaxScanned, MaxInstructions, MaxCandidates, MaxWindow, MaxKeys} \subseteq Nat
  /\ KeyBytes > 0 /\ Before \in Nat
  /\ \A image \in Executables :
       /\ image.bytes \in Nat /\ image.base \in Int /\ image.sections \in Seq(ToSet(image.sections))
       /\ \A s \in ToSet(image.sections) :
            /\ {s.address, s.extent, s.rawSize, s.rawOffset} \subseteq Nat
            /\ s.code \in Seq(ToSet(s.code))
            /\ \A i \in ToSet(s.code) : {i.addresses, i.displacements, i.calls} \subseteq Seq(Int)
            /\ \A a \in s.address..(s.address + s.rawSize) : PointerAt(a) \in Int

VARIABLES
  executable,    \* the image, and how many came before it
  recovering,    \* "header", "sections", "search", "globals", "done"
  sections,      \* parsed sections
  here,          \* where the running pass is, of Places
  windows,       \* windows to look at before it goes on: [section, at, outer]
  wanted,        \* what the last window refers to, not looked up yet: [kind, at]
  globals,       \* globals_
  candidates,    \* [key, from]: from is the addresses it was read at
  scannedBytes, instructions, admitted,  \* key_recovery_budget
  yielded        \* candidates of the images before (observation only)

recovery == <<executable, recovering, sections, here, windows, wanted, globals, candidates,
              scannedBytes, instructions, admitted, yielded>>

RecoveryInit ==
  /\ executable \in [image : Executables, number : {1}] /\ recovering = "header"
  /\ sections = <<>> /\ here = 1 /\ windows = <<>> /\ wanted = <<>>
  /\ globals = <<>> /\ candidates = <<>>
  /\ scannedBytes = 0 /\ instructions = 0 /\ admitted = 0 /\ yielded = 0

Image == executable.image

\* unique_address: what of S a sequence lists, once each.
Distinct(s, S) ==
  FoldLeft(LAMBDA kept, x : IF x \in S \ ToSet(kept) THEN Append(kept, x) ELSE kept, <<>>, s)
Unique(s) == Distinct(s, ToSet(s))

\* charge: what does not fit changes nothing.
Pays(used, amount, limit) == used <= limit /\ amount <= limit - used

\* An exception: allowance_exhausted keeps the candidates, any other loses them.
Exhaust == recovering' = "done" /\ UNCHANGED candidates
Abort == recovering' = "done" /\ candidates' = <<>>

-----------------------------------------------------------------------------
(* image::parse and the addresses of its sections.                         *)

PeHeader ==
  /\ recovering = "header"
  /\ CASE MaxCandidates = 0 \/ MaxWindow = 0 \/ Image.bytes < 64 -> Exhaust /\ UNCHANGED scannedBytes
       [] ~Pays(scannedBytes, HeaderCost, MaxScanned) -> Exhaust /\ UNCHANGED scannedBytes
       [] OTHER -> /\ scannedBytes' = scannedBytes + HeaderCost
                   /\ CASE Image.header = "other" -> Exhaust
                        [] Image.header = "broken" -> Abort
                        [] OTHER -> recovering' = "sections" /\ UNCHANGED candidates
  /\ UNCHANGED <<executable, sections, here, windows, wanted, globals, instructions, admitted, yielded>>

Overlap(a, b) ==
  a.extent # 0 /\ b.extent # 0 /\ a.address < b.address + b.extent /\ b.address < a.address + a.extent

Outside(entry) == entry.rawOffset > Image.bytes \/ entry.rawSize > Image.bytes - entry.rawOffset

PeSection ==
  /\ recovering = "sections"
  /\ IF Len(sections) = Len(Image.sections)
     THEN recovering' = "search" /\ UNCHANGED <<sections, candidates, scannedBytes>>
     ELSE LET entry == Image.sections[Len(sections) + 1]
              code == IF entry.executable THEN entry.rawSize ELSE 0
              misplaced == Outside(entry) \/ (\E i \in DOMAIN sections : Overlap(entry, sections[i]))
          IN CASE misplaced -> Abort /\ UNCHANGED <<sections, scannedBytes>>
               [] ~misplaced /\ ~Pays(scannedBytes, code, MaxScanned) -> Exhaust /\ UNCHANGED <<sections, scannedBytes>>
               [] OTHER -> /\ scannedBytes' = scannedBytes + code
                           /\ sections' = Append(sections, entry)
                           /\ UNCHANGED <<recovering, candidates>>
  /\ UNCHANGED <<executable, here, windows, wanted, globals, instructions, admitted, yielded>>

\* Mutant of Mapped: what a section only reserves counts as stored.
MappedReserved(address, count, code, backed) ==
  {i \in DOMAIN sections :
     /\ sections[i].executable = code /\ address >= sections[i].address
     /\ address - sections[i].address + count <= sections[i].extent}

\* mapped: the sections that hold count bytes at the address, in the file if backed.
Mapped(address, count, code, backed) ==
  {i \in DOMAIN sections :
     /\ sections[i].executable = code /\ address >= sections[i].address
     /\ address - sections[i].address + count <= IF backed THEN sections[i].rawSize ELSE sections[i].extent}

Stored(address) == Mapped(address, KeyBytes, FALSE, TRUE) # {}
Reserved(address) == Mapped(address, KeyBytes, FALSE, FALSE) # {}

-----------------------------------------------------------------------------
(* run: the magic of every executable section, then the globals.           *)

Code(i) == sections[i].code
Window(i, at, outer) == [section |-> i, at |-> at, outer |-> outer]

\* Every byte of executable code, in order.
Places ==
  FlattenSeq([i \in DOMAIN sections |->
    IF sections[i].executable THEN [j \in 1..Len(Code(i)) |-> Window(i, j, TRUE)] ELSE <<>>])
Place == Places[here]
Instruction == Code(Place.section)[Place.at]
Scans(pass) == recovering = pass /\ windows = <<>> /\ wanted = <<>>

\* Decoding once, or more often; the window is looked at before the pass goes on.
Decode(times, look) ==
  /\ here' = here + 1
  /\ IF Pays(instructions, times, MaxInstructions)
     THEN /\ instructions' = instructions + times
          /\ windows' = IF look THEN <<Place>> ELSE <<>>
          /\ UNCHANGED <<recovering, candidates>>
     ELSE instructions' = MaxInstructions /\ Exhaust /\ UNCHANGED windows

Search ==
  /\ Scans("search") /\ here <= Len(Places)
  /\ IF Instruction.magic THEN \E n \in 0..Before : Decode(1 + n, Instruction.decodes)
     ELSE here' = here + 1 /\ UNCHANGED <<recovering, windows, candidates, instructions>>
  /\ UNCHANGED <<executable, sections, wanted, globals, scannedBytes, admitted, yielded>>

SearchEnds ==
  /\ Scans("search") /\ here > Len(Places)
  /\ here' = 1 /\ recovering' = IF globals = <<>> THEN "done" ELSE "globals"
  /\ UNCHANGED <<executable, sections, windows, wanted, globals, candidates, scannedBytes,
                 instructions, admitted, yielded>>

\* A section is charged again before its first byte; an instruction whose first
\* byte may start an address is decoded, and looked at when it names a global.
Globals ==
  /\ Scans("globals") /\ here <= Len(Places)
  /\ LET cost == IF Place.at = 1 THEN sections[Place.section].rawSize ELSE 0
         names == {globals[i] : i \in DOMAIN globals} \cap ToSet(Instruction.addresses)
     IN IF ~Pays(scannedBytes, cost, MaxScanned)
        THEN Exhaust /\ UNCHANGED <<here, windows, instructions, scannedBytes>>
        ELSE /\ scannedBytes' = scannedBytes + cost
             /\ IF Instruction.plausible
                THEN Decode(1, Instruction.decodes /\ names # {})
                ELSE here' = here + 1 /\ UNCHANGED <<recovering, windows, candidates, instructions>>
  /\ UNCHANGED <<executable, sections, wanted, globals, admitted, yielded>>

GlobalsEnd ==
  /\ Scans("globals") /\ here > Len(Places)
  /\ recovering' = "done"
  /\ UNCHANGED <<executable, sections, here, windows, wanted, globals, candidates, scannedBytes,
                 instructions, admitted, yielded>>

-----------------------------------------------------------------------------
(* window: the instructions up to a return, an undecodable byte or a bound.*)

Taken(w) ==
  LET last == Min({Len(Code(w.section)), w.at + MaxWindow - 1})
      stops == {j \in w.at..last : Code(w.section)[j].returns \/ ~Code(w.section)[j].decodes}
  IN SubSeq(Code(w.section), w.at, IF stops = {} THEN last ELSE Min(stops))

\* The functions the window calls, looked at after it.
Callees(calls) ==
  FlattenSeq([i \in DOMAIN calls |->
    LET targets == Mapped(calls[i], 1, TRUE, TRUE)
    IN IF targets = {} THEN <<>>
       ELSE <<Window(Min(targets), 1 + calls[i] - sections[Min(targets)].address, FALSE)>>])

Wanted(kind, at) == [kind |-> kind, at |-> at]

\* Three stored arrays under two XORs make one key; then every reference.
Sought(read) ==
  LET addresses == FlattenSeq([i \in DOMAIN read |-> read[i].addresses])
      displacements == FlattenSeq([i \in DOMAIN read |-> read[i].displacements])
      summed == [i \in DOMAIN displacements |-> Image.base + displacements[i]]
      arrays == Distinct(summed, {a \in ToSet(summed) : Stored(a)})
      references == Distinct(addresses, {a \in ToSet(addresses) : Reserved(a)})
      mixed == /\ Contains(addresses, Image.base) /\ Len(arrays) = 3
               /\ Quantify(DOMAIN read, LAMBDA i : read[i].bitXor) >= 2
  IN IF \A i \in DOMAIN read : ~read[i].size32 THEN <<>>
     ELSE (IF mixed THEN <<Wanted("mixed", arrays)>> ELSE <<>>)
          \o [i \in DOMAIN references |-> Wanted("reference", <<references[i]>>)]

LookAtWindow ==
  /\ recovering \in {"search", "globals"} /\ windows # <<>> /\ wanted = <<>>
  /\ LET taken == Taken(Head(windows))
         read == IF taken # <<>> /\ ~Last(taken).decodes THEN Front(taken) ELSE taken
         calls == Unique(FlattenSeq([i \in DOMAIN read |-> read[i].calls]))
         outer == Head(windows).outer /\ recovering = "search"
     IN IF ~Pays(instructions, Len(taken), MaxInstructions)
        THEN instructions' = MaxInstructions /\ Exhaust /\ UNCHANGED <<windows, wanted>>
        ELSE /\ instructions' = instructions + Len(taken)
             /\ wanted' = Sought(read)
             /\ windows' = Tail(windows) \o (IF outer THEN Callees(calls) ELSE <<>>)
             /\ UNCHANGED <<recovering, candidates>>
  /\ UNCHANGED <<executable, sections, here, globals, scannedBytes, admitted, yielded>>

-----------------------------------------------------------------------------
(* consume: each address the pattern refers to.                            *)

Known(key) == \E i \in DOMAIN candidates : candidates[i].key = key
Room == Min({MaxCandidates, MaxKeys})

Admit(key, from) ==
  CASE Known(key) -> UNCHANGED <<recovering, candidates, admitted>>
    [] ~Known(key) /\ ~Pays(admitted, 1, Room) -> Exhaust /\ UNCHANGED admitted
    [] OTHER -> /\ admitted' = admitted + 1 /\ UNCHANGED recovering
                /\ candidates' = Append(candidates, [key |-> key, from |-> from])

SymmetricDifference(A, B) == (A \ B) \cup (B \ A)
Xor(addresses) ==
  FoldSeq(LAMBDA a, key : SymmetricDifference(KeyAt(a), key), {}, addresses)

\* Read the keys at the addresses; what was read before the budget broke stays paid.
ReadKeys(addresses) ==
  LET payable == Min({Len(addresses), (MaxScanned - scannedBytes) \div KeyBytes})
  IN /\ scannedBytes' = scannedBytes + KeyBytes * payable
     /\ IF payable < Len(addresses) THEN Exhaust /\ UNCHANGED admitted
        ELSE Admit(Xor(addresses), ToSet(addresses))

Consume ==
  /\ recovering \in {"search", "globals"} /\ wanted # <<>>
  /\ LET next == Head(wanted)
         address == Head(next.at)
     IN CASE next.kind = "mixed" \/ (next.kind = "constant" /\ Stored(address)) ->
               ReadKeys(next.at) /\ wanted' = Tail(wanted) /\ UNCHANGED globals
          [] next.kind = "constant" /\ ~Stored(address) ->
               wanted' = Tail(wanted) /\ UNCHANGED <<recovering, globals, candidates, scannedBytes, admitted>>
          [] next.kind = "reference" /\ ~Stored(address) ->
               /\ globals' = IF Len(globals) < MaxGlobals THEN Unique(Append(globals, address)) ELSE globals
               /\ wanted' = Tail(wanted) /\ UNCHANGED <<recovering, candidates, scannedBytes, admitted>>
          [] OTHER ->
               /\ wanted' = <<Wanted("constant", <<PointerAt(address)>>), Wanted("constant", next.at)>>
                            \o Tail(wanted)
               /\ IF Pays(scannedBytes, PointerBytes, MaxScanned)
                  THEN scannedBytes' = scannedBytes + PointerBytes /\ UNCHANGED <<recovering, candidates>>
                  ELSE Exhaust /\ UNCHANGED scannedBytes
               /\ UNCHANGED <<globals, admitted>>
  /\ UNCHANGED <<executable, sections, here, windows, instructions, yielded>>

\* A read of the executable fails: what it has spent stays spent.
ReadFails ==
  /\ recovering \in {"header", "sections"} \/ (recovering # "done" /\ wanted # <<>>)
  /\ Abort
  /\ UNCHANGED <<executable, sections, here, windows, wanted, globals, scannedBytes, instructions,
                 admitted, yielded>>

\* The session takes the candidates and visits the next executable.
NextExecutable ==
  /\ recovering = "done" /\ executable.number < Visited
  /\ executable' \in [image : Executables, number : {executable.number + 1}]
  /\ recovering' = "header" /\ sections' = <<>> /\ here' = 1 /\ windows' = <<>> /\ wanted' = <<>>
  /\ globals' = <<>> /\ candidates' = <<>> /\ yielded' = yielded + Len(candidates)
  /\ UNCHANGED <<scannedBytes, instructions, admitted>>

RecoveryNext ==
  \/ PeHeader \/ PeSection \/ Search \/ SearchEnds \/ Globals \/ GlobalsEnd \/ LookAtWindow \/ Consume
  \/ ReadFails \/ NextExecutable

RecoverySpec == RecoveryInit /\ [][RecoveryNext]_recovery

-----------------------------------------------------------------------------
\* One budget holds over all executables, and what they yield together fits the
\* storage the session reserved: keys are met again in every window and image.
RecoveryIsBounded ==
  /\ scannedBytes <= MaxScanned /\ instructions <= MaxInstructions
  /\ yielded + Len(candidates) <= admitted /\ admitted <= MaxKeys
  /\ \A i, j \in DOMAIN candidates : candidates[i].key = candidates[j].key => i = j

\* A candidate is made of bytes the file holds: the addresses it was read at lie
\* with all their bytes in the stored part of a section inside the file.
CandidatesAreStored ==
  \A i \in DOMAIN candidates : \A a \in candidates[i].from : \E j \in DOMAIN sections :
    /\ a >= sections[j].address /\ a - sections[j].address + KeyBytes <= sections[j].rawSize
    /\ sections[j].rawOffset + a - sections[j].address + KeyBytes <= Image.bytes

RecoveryIsSound == RecoveryIsBounded /\ CandidatesAreStored
=============================================================================
