---------------------------- MODULE GodotListing ----------------------------
(***************************************************************************)
(* extractor::list_files of the Godot module (godot.cpp): the pass over    *)
(* the import and remap metadata under its two allowances, the probes of   *)
(* the resources (resource_converter.cpp), and the retries of              *)
(* build_bounded_tree.  VirtualTree models what one attempt builds; here   *)
(* an attempt fits its budget or does not, whatever its cost, since the    *)
(* code claims no monotony.  A read of the source may fault anywhere.      *)
(***************************************************************************)
EXTENDS Integers, Sequences, FiniteSetsExt, SequencesExt

CONSTANTS
  Indexes,     \* indexes a session may have: sequences of entries
  MaxBody,     \* max_metadata_body_bytes
  MaxInput,    \* max_metadata_input_bytes
  MaxOwned,    \* max_alias_owned_bytes
  PeakFactor,  \* body_peak_factor
  Ceiling,     \* parser_mapping_ceiling
  Slot,        \* sizeof(import_mapping)
  MaxClone,    \* archive_limits::max_path_bytes
  Unsigned     \* 2^64

ASSUME ListingAssumption ==
  /\ MaxInput \in Nat /\ MaxOwned \in Nat /\ Unsigned \in Nat
  /\ MaxOwned <= MaxInput /\ MaxInput < Unsigned
  /\ PeakFactor \in Nat /\ Ceiling \in Nat /\ Slot \in Nat /\ MaxClone \in Nat

(***************************************************************************)
(* An entry has a kind, a name that is_metadata_path accepts or not, a     *)
(* size, a cipher or none, what read_import_remap makes of it (the bytes   *)
(* its mappings are charged with and their number; none: malformed), and   *)
(* what the probe makes of it.                                             *)
(***************************************************************************)
Malformed == [charge |-> 0, mappings |-> -1]

\* What is charged for a fragment has the slots of its mappings in it.
ASSUME IndexAssumption ==
  \A index \in Indexes :
    /\ Len(index) \in Nat
    /\ \A i \in 1..Len(index) :
         /\ index[i].size \in Nat
         /\ index[i].fragment.charge \in Nat /\ index[i].fragment.mappings \in Int
         /\ index[i].fragment.charge >= Slot * index[i].fragment.mappings

VARIABLES
  members,      \* session.index()
  decode,       \* session.decode_resources()
  position,     \* of the loop of the running pass
  pass,         \* "metadata", "read", "probe", "build", "done"
  input,        \* metadata_input_bytes
  owned,        \* alias_owned_bytes
  mappings,     \* the positions of the fragments the aliases came from, in order
  checkpoints,
  hints,        \* positions with a descriptor
  fragments,    \* fragments the running attempt uses
  source,       \* the session's ifstream: "good" or "failed"
  torn,         \* fragments parsed from a body the view could not read
  fault,        \* a read error ended the listing (observation only)
  ending        \* "none", "rows", "read_error", "tree_budget_error", "tree_error"

list == <<members, decode, position, pass, input, owned, mappings, checkpoints, hints, fragments,
          source, torn, fault, ending>>

ListInit ==
  /\ members \in Indexes /\ decode \in BOOLEAN
  /\ position = 1 /\ pass = "metadata" /\ input = 0 /\ owned = 0
  /\ mappings = <<>> /\ checkpoints = <<>> /\ hints = {} /\ fragments = 0
  /\ source = "good" /\ torn = {} /\ fault = FALSE /\ ending = "none"

Entry == members[position]
Listed(phase) == pass = phase /\ position <= Len(members)
Residual(limit, used) == (limit - used) % Unsigned

Probing == decode /\ Listed("probe")

EndMetadata == pass' = "probe" /\ position' = 1
NextEntry(phase) == pass' = phase /\ position' = position + 1

\* Twice what the mappings retain, and the live copies of the body.
FragmentPeak(size) ==
  PeakFactor * size + 2 * (Ceiling * (IF size < MaxClone THEN size ELSE MaxClone) + Ceiling * Slot)

SkipEntry ==
  /\ Listed("metadata")
  /\ Entry.kind # "file" \/ ~Entry.metadata \/ Entry.size > MaxBody
  /\ NextEntry("metadata")
  /\ UNCHANGED <<members, decode, input, owned, mappings, checkpoints, hints, fragments, source,
                 torn, fault, ending>>

\* Mutant of Eligible: a body is compared with the whole allowance, not with the rest of it.
EligibleAfresh == Entry.size <= MaxInput

Eligible == Entry.size <= Residual(MaxInput, input)

\* The attempted input is charged, then the peak of the parse is weighed.
ChargeInput ==
  /\ Listed("metadata")
  /\ Entry.kind = "file" /\ Entry.metadata /\ Entry.size <= MaxBody
  /\ IF ~Eligible THEN EndMetadata /\ UNCHANGED input
     ELSE /\ input' = input + Entry.size
          /\ IF FragmentPeak(Entry.size) > Residual(MaxInput, owned) THEN EndMetadata
             ELSE pass' = "read" /\ UNCHANGED position
  /\ UNCHANGED <<members, decode, owned, mappings, checkpoints, hints, fragments, source, torn,
                 fault, ending>>

MetadataEnds ==
  /\ pass = "metadata" /\ position > Len(members)
  /\ EndMetadata
  /\ UNCHANGED <<members, decode, input, owned, mappings, checkpoints, hints, fragments, source,
                 torn, fault, ending>>

-----------------------------------------------------------------------------
(* Reading: entry_source and read_source.                                  *)

\* bounded_stream does not clear the stream; a plain read clears it first.
SourceAnswers == ~Entry.encrypted \/ source = "good"

\* The parse of a body, then its retained charge against what is left.
Retain(fragment) ==
  IF fragment.mappings < 0 THEN NextEntry("metadata") /\ UNCHANGED <<owned, mappings, checkpoints>>
  ELSE IF fragment.charge > Residual(MaxOwned, owned)
  THEN EndMetadata /\ UNCHANGED <<owned, mappings, checkpoints>>
  ELSE /\ owned' = owned + fragment.charge
       /\ mappings' = mappings \o [i \in 1..fragment.mappings |-> position]
       /\ checkpoints' = Append(checkpoints, Len(mappings'))
       /\ NextEntry("metadata")

ReadMetadata ==
  /\ Listed("read") /\ SourceAnswers
  /\ Retain(Entry.fragment)
  /\ source' = "good"
  /\ UNCHANGED <<members, decode, input, hints, fragments, torn, fault, ending>>

\* The view has no exception mask: read_source does not see that it failed, and
\* the zeros that follow make the body malformed or shorten what it maps.
ReadMetadataTorn ==
  /\ Listed("read") /\ Entry.encrypted /\ source = "good" /\ Entry.size > 0
  /\ \E fragment \in {Malformed} \cup
       {[charge |-> Slot * n, mappings |-> n] : n \in 0..(Entry.fragment.mappings - 1)} : Retain(fragment)
  /\ torn' = torn \cup {position}
  /\ source' = "failed"
  /\ UNCHANGED <<members, decode, input, hints, fragments, fault, ending>>

\* A plain read or a verification failed, or an earlier fault refuses the envelope.
SourceFails ==
  /\ Listed("read") \/ (Probing /\ Entry.kind = "file")
  /\ Entry.size > 0 \/ Entry.encrypted
  /\ source' = "failed" /\ fault' = TRUE
  /\ ending' = "read_error" /\ pass' = "done"
  /\ UNCHANGED <<members, decode, position, input, owned, mappings, checkpoints, hints, fragments,
                 torn>>

-----------------------------------------------------------------------------
(* Probing.                                                                *)

\* descriptor_for asks for an image, a sound, a font, and an error of one declines all.
FirstAnswer(answers) ==
  LET given == {i \in DOMAIN answers : answers[i] # "absent"}
  IN IF given = {} THEN "absent" ELSE answers[Min(given)]

\* sniff and the two probes: a texture by its header, a binary resource by the
\* class of its root first; all that is malformed or unsupported declines.
Descriptor(resource) ==
  CASE resource.wire = "texture" -> resource.texture = "known"
    [] resource.wire = "binary" -> resource.supported /\ FirstAnswer(resource.answers) = "known"
    [] OTHER -> FALSE

SkipProbe ==
  /\ Probing /\ Entry.kind # "file"
  /\ NextEntry("probe")
  /\ UNCHANGED <<members, decode, input, owned, mappings, checkpoints, hints, fragments, source,
                 torn, fault, ending>>

Probe ==
  /\ Probing /\ Entry.kind = "file" /\ SourceAnswers
  /\ hints' = IF Descriptor(Entry.resource) THEN hints \cup {position} ELSE hints
  /\ NextEntry("probe")
  /\ source' = IF Entry.resource.wire = "short" THEN source ELSE "good"
  /\ UNCHANGED <<members, decode, input, owned, mappings, checkpoints, fragments, torn, fault, ending>>

ProbesEnd ==
  /\ pass = "probe" /\ ~Probing
  /\ pass' = "build" /\ fragments' = Len(checkpoints)
  /\ UNCHANGED <<members, decode, position, input, owned, mappings, checkpoints, hints, source, torn,
                 fault, ending>>

-----------------------------------------------------------------------------
(* build_bounded_tree and the rows.                                        *)

Usable == IF fragments = 0 THEN 0 ELSE checkpoints[fragments]

Build(how) ==
  /\ pass = "build"
  /\ ending' = how /\ pass' = "done"
  /\ UNCHANGED <<members, decode, position, input, owned, mappings, checkpoints, hints, fragments,
                 source, torn, fault>>

TreeFits == Build("rows")
TreeIsBroken == Build("tree_error")

TreeIsOverBudget ==
  \/ fragments = 0 /\ Build("tree_budget_error")
  \/ /\ pass = "build" /\ fragments # 0
     /\ fragments' = fragments \div 2
     /\ UNCHANGED <<members, decode, position, pass, input, owned, mappings, checkpoints, hints,
                    source, torn, fault, ending>>

ListNext ==
  \/ SkipEntry \/ ChargeInput \/ MetadataEnds
  \/ ReadMetadata \/ ReadMetadataTorn \/ SourceFails
  \/ SkipProbe \/ Probe \/ ProbesEnd
  \/ TreeFits \/ TreeIsBroken \/ TreeIsOverBudget

ListSpec == ListInit /\ [][ListNext]_list
-----------------------------------------------------------------------------
\* What is read and retained stays within the two allowances: the attempted
\* input, the retained bytes of the aliases, and the peak of a parse on top of
\* them.  An allowance that is compared afresh, or that wraps, lifts them.
AliasesArePaidFor ==
  /\ input <= MaxInput
  /\ owned <= MaxOwned
  /\ owned >= Slot * Len(mappings)
  /\ pass = "read" => FragmentPeak(Entry.size) + owned <= MaxInput

\* The aliases given to an attempt are whole fragments in the order of the
\* index: of no fragment some mappings and not the others, so that an alias
\* given up is given up with the variants beside it.
FragmentsAreWhole ==
  pass = "build" =>
    /\ \A i, j \in DOMAIN mappings : i <= j => mappings[i] <= mappings[j]
    /\ Usable \in 0..Len(mappings)
    /\ \A i \in 1..Usable, j \in (Usable + 1)..Len(mappings) : mappings[i] # mappings[j]
    /\ fragments = Len(checkpoints) => Usable = Len(mappings)

\* The optional pass neither lifts its bounds nor splits what it admits.
AliasSetIsSound == AliasesArePaidFor /\ FragmentsAreWhole
=============================================================================
