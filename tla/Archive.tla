------------------------------ MODULE Archive ------------------------------
(***************************************************************************)
(* class archive (src/src/archive.cpp): the object behind a host handle.   *)
(* It opens a source, lists it once, and extracts one listed row at a time *)
(* to a destination file.  A row of the raw formats (RPG Maker, Ren'Py,    *)
(* Zanzarah) is copied by archive itself, chunk by chunk, through the      *)
(* extractor's running decryption key; a row that brings a handler, as     *)
(* those of Godot do, leaves it the whole body.  extract_file is not atomic: the disk *)
(* and the progress callback make every chunk visible to the host, and     *)
(* several archives work at the same time.                                 *)
(***************************************************************************)
EXTENDS Integers, Sequences

CONSTANTS
  Archives,    \* archive objects
  Sources,     \* files the host may open
  NoSource,    \* "stream_ is null"
  Paths,       \* destination paths
  Deletable,   \* paths whose removal succeeds
  Matching,    \* sources whose first bytes are the extractor's signature
  Sessioned,   \* TRUE: the extractor opens a session and lists from it (Godot)
  Listing      \* Listing[s][decode]: what list_files finds in s

(***************************************************************************)
(* A row: its identity in the source, whether it has a header, whether it  *)
(* brings a custom handler (file.extract), how many 128 KiB chunks its     *)
(* body takes, where its extent lies (the Ren'Py and RGSS3 lists are not   *)
(* checked against the file size), and whether its path survives the       *)
(* conversion of GetItem.                                                  *)
(***************************************************************************)
Extents == {"inside", "past_end", "negative"}
Item == [id : Nat, header : BOOLEAN, custom : BOOLEAN, chunks : Nat, extent : Extents,
         fits : BOOLEAN]

ASSUME ListingAssumption ==
  /\ NoSource \notin Sources
  /\ Deletable \subseteq Paths /\ "none" \notin Paths
  /\ Matching \subseteq Sources
  /\ Sessioned \in BOOLEAN
  /\ Listing \in [Sources -> [BOOLEAN -> Seq(Item)]]

VARIABLES
  arch,   \* arch[a]: the members of the object, and what its session remembers
  call,   \* call[a]: the activation of extract_file on it, or the last one
  disk    \* disk[p]: what a reader of p would find

vars == <<arch, call, disk>>

(***************************************************************************)
(* What a destination holds is the sequence of pieces written to it: the   *)
(* header is piece 0, chunk k is piece k and reads correctly only if it    *)
(* was decrypted with the k-th key of the row's chain.  A handler owns the *)
(* whole body: archive writes no header before it.                         *)
(***************************************************************************)
Piece(id, k, key) == [id |-> id, chunk |-> k, key |-> key]
HeaderLen(it) == IF it.header /\ ~it.custom THEN 1 ELSE 0
Prefix(it, n) ==
  [j \in 1..(HeaderLen(it) + n) |-> Piece(it.id, j - HeaderLen(it), j - HeaderLen(it))]
Whole(it) == Prefix(it, it.chunks)

NoItem == [id |-> 0, header |-> FALSE, custom |-> FALSE, chunks |-> 0, extent |-> "inside",
           fits |-> TRUE]
NewArchive ==
  [opened |-> FALSE, files |-> <<>>, stream |-> "null", cursor |-> <<0, 0>>,
   source |-> NoSource, decode |-> FALSE]
NewCall == [pc |-> "idle", dest |-> "none", item |-> NoItem, done |-> 0, key |-> 0,
            outcome |-> "none", cause |-> "none"]

Init ==
  /\ arch = [a \in Archives |-> NewArchive]
  /\ call = [a \in Archives |-> NewCall]
  /\ disk \in [Paths -> {[is |-> "absent", data |-> <<>>], [is |-> "prior", data |-> <<>>]}]

-----------------------------------------------------------------------------
(***************************************************************************)
(* archive::open and archive::prepare_files run to completion before       *)
(* anything else touches the object, so they are relations from the object *)
(* to the possible results: the object afterwards and the exception.       *)
(***************************************************************************)
Result(A, exc) == [arch |-> A, exc |-> exc]

InfoFailures ==
  {"runtime_error", "bad_alloc"} \cup (IF Sessioned THEN {"password_required"} ELSE {})

\* Mutants of Reset: the old rows survive; the option is not remembered.
ResetKeepsRows(A, s, option) ==
  [opened |-> FALSE, files |-> A.files, stream |-> "good", cursor |-> <<0, 0>>,
   source |-> s, decode |-> Sessioned /\ option]
ResetForgetsOption(A, s, option) ==
  [opened |-> FALSE, files |-> <<>>, stream |-> "good", cursor |-> <<0, 0>>,
   source |-> s, decode |-> FALSE]

Reset(A, s, option) ==
  [opened |-> FALSE, files |-> <<>>, stream |-> "good", cursor |-> <<0, 0>>,
   source |-> s, decode |-> Sessioned /\ option]

OpenResults(A, s, sniffed, option) ==
  {Result(A, "runtime_error")} \cup
  IF sniffed /\ s \notin Matching THEN {}
  ELSE {Result([Reset(A, s, option) EXCEPT !.opened = TRUE], "none")} \cup
       {Result(Reset(A, s, option), exc) : exc \in InfoFailures}

(***************************************************************************)
(* list_files either throws, leaving files_ as it was, or returns the      *)
(* rows.  The raw formats read stream_, so a stream already failed throws  *)
(* in the constructor of bounded_stream, and a failing read leaves it so.  *)
(***************************************************************************)
ListFailures(A) ==
  {Result(A, exc) : exc \in {"runtime_error", "read_error", "logic_error", "bad_alloc"}} \cup
  (IF Sessioned THEN {} ELSE {Result([A EXCEPT !.stream = "failed"], "runtime_error")})

Listed(A) ==
  IF Sessioned THEN {Result([A EXCEPT !.files = Listing[A.source][A.decode]], "none")}
  ELSE IF A.stream = "failed" THEN {}
  ELSE {Result([A EXCEPT !.files = Listing[A.source][FALSE], !.cursor = <<0, 0>>], "none")}

\* Mutant of PrepareResults: the rows are dropped and listed again each time.
PrepareRelists(A) ==
  IF ~A.opened THEN {Result(A, "read_error")}
  ELSE {Result([A EXCEPT !.files = <<>>], "runtime_error")} \cup Listed(A)

PrepareResults(A) ==
  IF ~A.opened THEN {Result(A, "read_error")}
  ELSE IF A.files # <<>> THEN {Result(A, "none")}
  ELSE ListFailures(A) \cup Listed(A)

Idle(a) == call[a].pc = "idle"

Open(a, s, sniffed, option) ==
  /\ Idle(a)
  /\ \E r \in OpenResults(arch[a], s, sniffed, option) : arch' = [arch EXCEPT ![a] = r.arch]
  /\ UNCHANGED <<call, disk>>

PrepareFiles(a) ==
  /\ Idle(a)
  /\ \E r \in PrepareResults(arch[a]) : arch' = [arch EXCEPT ![a] = r.arch]
  /\ UNCHANGED <<call, disk>>

-----------------------------------------------------------------------------
(***************************************************************************)
(* archive::extract_file.  The host runs one call per handle and does not  *)
(* aim two running calls at one path.                                      *)
(***************************************************************************)
Running(a) == ~Idle(a)
PathFree(p) == \A b \in Archives : Running(b) => call[b].dest # p

\* The activation is gone; what it returned or threw, and why, is remembered.
End(a, outcome, why) ==
  call' = [call EXCEPT ![a] = [NewCall EXCEPT !.outcome = outcome, !.cause = why]]

\* The call ends before the destination is open: nothing on disk changes.
Refused(a, exc, why) == End(a, exc, why) /\ UNCHANGED <<arch, disk>>

IndexRefused(a, i) ==
  /\ Idle(a)
  /\ i > Len(arch[a].files)
  /\ Refused(a, "logic_error", "index")

OutputRefused(a, i) ==
  /\ Idle(a)
  /\ i <= Len(arch[a].files)
  /\ Refused(a, "write_error", "sink")

\* std::ofstream(path) creates or truncates the destination.
OutputOpened(a, i, p) ==
  /\ Idle(a)
  /\ i <= Len(arch[a].files)
  /\ PathFree(p)
  /\ disk' = [disk EXCEPT ![p] = [is |-> "output", data |-> <<>>]]
  /\ call' = [call EXCEPT ![a] =
       [pc |-> IF arch[a].files[i].custom THEN "handler" ELSE "header", dest |-> p,
        item |-> arch[a].files[i], done |-> 0, key |-> 0, outcome |-> "none", cause |-> "none"]]
  /\ UNCHANGED arch

\* Mutant of DiscardPartial: the destination is closed but not removed.
DiscardKeeps(p) == disk' = disk

\* discard_partial: close, then remove the destination, ignoring the error.
DiscardPartial(p) ==
  disk' = IF p \in Deletable THEN [disk EXCEPT ![p] = [is |-> "absent", data |-> <<>>]] ELSE disk

\* Only the handler path discards; the raw path leaves what it wrote.
Fail(a, exc, why) ==
  /\ End(a, exc, why)
  /\ IF call[a].item.custom THEN DiscardPartial(call[a].dest) ELSE UNCHANGED disk

Write(a, piece) == disk' = [disk EXCEPT ![call[a].dest].data = Append(@, piece)]

AllocationFails(a) ==
  /\ call[a].pc \in {"header", "handler"}
  /\ Fail(a, "bad_alloc", "memory")
  /\ UNCHANGED arch

\* The header is written, then the stream is positioned once for the whole copy.
HeaderAndSeek(a) ==
  LET it == call[a].item IN
  /\ call[a].pc = "header"
  /\ arch[a].stream = "good"
  /\ it.extent # "negative"
  /\ IF it.header THEN Write(a, Piece(it.id, 0, 0)) ELSE UNCHANGED disk
  /\ arch' = [arch EXCEPT ![a].cursor = <<it.id, 1>>]
  /\ call' = [call EXCEPT ![a].pc = "copy", ![a].key = 1]

SeekFails(a) ==
  LET it == call[a].item IN
  /\ call[a].pc = "header"
  /\ arch[a].stream = "failed" \/ it.extent = "negative"
  /\ IF it.header THEN Write(a, Piece(it.id, 0, 0)) ELSE UNCHANGED disk
  /\ arch' = [arch EXCEPT ![a].stream = "failed"]
  /\ End(a, "read_error", IF it.extent = "negative" THEN "source" ELSE "earlier")

\* Mutant of BytesLeft: the loop stops one chunk early.
BytesLeftShort(a) == call[a].done + 1 < call[a].item.chunks

BytesLeft(a) == call[a].done < call[a].item.chunks
LastChunkMissing(a) ==
  call[a].item.extent = "past_end" /\ call[a].done + 1 = call[a].item.chunks

\* Mutant of CopyChunk: one running key serves all the objects.
CopyChunkSharedKey(a) ==
  LET at == arch[a].cursor IN
  /\ call[a].pc = "copy"
  /\ BytesLeft(a)
  /\ ~LastChunkMissing(a)
  /\ Write(a, Piece(at[1], at[2], call[a].key))
  /\ arch' = [arch EXCEPT ![a].cursor = <<at[1], at[2] + 1>>]
  /\ call' = [b \in Archives |->
       IF b = a THEN [call[b] EXCEPT !.pc = "report", !.done = @ + 1, !.key = @ + 1]
       ELSE IF Running(b) THEN [call[b] EXCEPT !.key = call[a].key + 1] ELSE call[b]]

\* One turn of the copy loop up to the callback: read, decrypt, write, count.
CopyChunk(a) ==
  LET at == arch[a].cursor IN
  /\ call[a].pc = "copy"
  /\ BytesLeft(a)
  /\ ~LastChunkMissing(a)
  /\ Write(a, Piece(at[1], at[2], call[a].key))
  /\ arch' = [arch EXCEPT ![a].cursor = <<at[1], at[2] + 1>>]
  /\ call' = [call EXCEPT ![a].pc = "report", ![a].done = @ + 1, ![a].key = @ + 1]

\* Mutant of ReadFails: a short read is cleared and the chunk read again.
ReadFailsRetried(a) ==
  /\ call[a].pc = "copy"
  /\ BytesLeft(a)
  /\ arch' = [arch EXCEPT ![a].stream = IF @ = "good" THEN "failed" ELSE "good"]
  /\ UNCHANGED <<call, disk>>

ReadFails(a) ==
  /\ call[a].pc = "copy"
  /\ BytesLeft(a)
  /\ arch' = [arch EXCEPT ![a].stream = "failed"]
  /\ Fail(a, "read_error", "source")

\* What a handler does to the stream it borrows is its own affair: a copy of
\* another row starts with a seek.
StreamLent(a) ==
  \E st \in {"good", "failed"} : arch' = [arch EXCEPT ![a].stream = st]

\* A handler writes the body in order, reporting as it goes (extractor.h).
HandlerWrites(a) ==
  LET k == call[a].done + 1 IN
  /\ call[a].pc = "handler"
  /\ BytesLeft(a)
  /\ Write(a, Piece(call[a].item.id, k, k))
  /\ call' = [call EXCEPT ![a].pc = "report", ![a].done = k]
  /\ StreamLent(a)

\* What a handler may throw, and what archive makes of it.
HandlerFails(a) ==
  /\ call[a].pc = "handler"
  /\ \E exc \in {"read_error", "runtime_error", "logic_error"} : Fail(a, exc, "source")
  /\ StreamLent(a)

\* A failed write or close of the destination surfaces as ios_base::failure.
OutputFails(a) ==
  /\ call[a].pc \in {"header", "copy", "handler"}
  /\ call[a].pc = "header" => call[a].item.header
  /\ Fail(a, "write_error", "sink")
  /\ UNCHANGED arch

\* report_progress: the host answers, zero becoming user_interrupt; its callback
\* may also throw an exception of its own.
Progress(a, continue) ==
  /\ call[a].pc = "report"
  /\ IF continue
     THEN /\ call' = [call EXCEPT ![a].pc = IF call[a].item.custom THEN "handler" ELSE "copy"]
          /\ UNCHANGED disk
     ELSE \E exc \in {"user_interrupt", "runtime_error"} : Fail(a, exc, "host")
  /\ UNCHANGED arch

\* The loop, or the handler, is done; the destination closes; the call returns.
Returns(a) ==
  /\ call[a].pc \in {"copy", "handler"}
  /\ ~BytesLeft(a)
  /\ End(a, "returned", "none")
  /\ UNCHANGED <<arch, disk>>

ExtractFile(a) ==
  \/ \E i \in 1..(Len(arch[a].files) + 1) :
       IndexRefused(a, i) \/ OutputRefused(a, i) \/ \E p \in Paths : OutputOpened(a, i, p)

Resume(a) ==
  \/ AllocationFails(a)
  \/ HeaderAndSeek(a)
  \/ SeekFails(a)
  \/ CopyChunk(a)
  \/ ReadFails(a)
  \/ HandlerWrites(a)
  \/ HandlerFails(a)
  \/ OutputFails(a)
  \/ \E continue \in BOOLEAN : Progress(a, continue)
  \/ Returns(a)

Next ==
  \E a \in Archives :
    \/ \E s \in Sources, sniffed, option \in BOOLEAN : Open(a, s, sniffed, option)
    \/ PrepareFiles(a)
    \/ ExtractFile(a)
    \/ Resume(a)

Spec == Init /\ [][Next]_vars

(***************************************************************************)
(* A call that started goes on without the help of any fault: nothing in   *)
(* it waits, the host answers the progress callback it passed, and reading *)
(* past the end of the source fails.                                       *)
(***************************************************************************)
Advance(a) ==
  \/ HeaderAndSeek(a)
  \/ SeekFails(a)
  \/ CopyChunk(a)
  \/ LastChunkMissing(a) /\ ReadFails(a)
  \/ HandlerWrites(a)
  \/ \E continue \in BOOLEAN : Progress(a, continue)
  \/ Returns(a)

FairSpec == Spec /\ \A a \in Archives : WF_vars(Advance(a))

-----------------------------------------------------------------------------
Outcomes == {"none", "returned", "read_error", "write_error", "user_interrupt",
             "runtime_error", "logic_error", "bad_alloc"}
Causes == {"none", "index", "sink", "memory", "source", "earlier", "host"}

ArchiveType ==
  [opened : BOOLEAN, files : Seq(Item), stream : {"null", "good", "failed"},
   cursor : Nat \X Nat, source : Sources \cup {NoSource}, decode : BOOLEAN]
CallType ==
  [pc : {"idle", "header", "copy", "handler", "report"}, dest : Paths \cup {"none"},
   item : Item, done : Nat, key : Nat, outcome : Outcomes, cause : Causes]
Pieces == [id : Nat, chunk : Nat, key : Nat]
FileType == [is : {"absent", "prior", "output"}, data : Seq(Pieces)]

\* The members of the objects, the activations and the files have their types.
TypeOK ==
  /\ arch \in [Archives -> ArchiveType]
  /\ call \in [Archives -> CallType]
  /\ disk \in [Paths -> FileType]

(***************************************************************************)
(* Rows borrow the session of the source they were listed from             *)
(* (extractor.h:52), and archive::open drops both together: whatever failed*)
(* in between, an object holds rows only of the source it has open now,    *)
(* listed under the option that was in force when it was opened.           *)
(***************************************************************************)
RowsBelongToSource ==
  \A a \in Archives :
    arch[a].files # <<>> =>
      /\ arch[a].opened
      /\ arch[a].source \in Sources
      /\ arch[a].files = Listing[arch[a].source][arch[a].decode]

(***************************************************************************)
(* The copy loop never skips, repeats or misdecrypts a chunk: while a call *)
(* runs its destination holds exactly the first pieces of its row, however *)
(* the calls on the other handles of the module interleave with it.        *)
(***************************************************************************)
OutputIsPrefix ==
  \A a \in Archives :
    Running(a) =>
      /\ disk[call[a].dest].is = "output"
      /\ disk[call[a].dest].data =
           IF call[a].pc = "header" THEN <<>> ELSE Prefix(call[a].item, call[a].done)

\* A call that ran and has just returned without an exception.
Ended(a, outcomes) == Running(a) /\ Idle(a)' /\ call'[a].outcome \in outcomes

\* "Partial output is not reported as success": extract_file returns only
\* with every piece of the row in place.
SuccessIsWhole ==
  [][\A a \in Archives :
       Ended(a, {"returned"}) => disk'[call[a].dest].data = Whole(call[a].item)]_vars

\* A failed handler leaves no file behind where the removal can succeed.
HandlerLeavesNothing ==
  [][\A a \in Archives :
       call[a].item.custom /\ Ended(a, Outcomes \ {"returned"}) /\ call[a].dest \in Deletable
         => disk'[call[a].dest].is = "absent"]_vars

\* Every extraction ends.
ExtractionEnds == \A a \in Archives : Running(a) ~> Idle(a)

(***************************************************************************)
(* "Failures are deterministic" (docs/critical-software-methodology.md:40):*)
(* a row fails to read because of its own extent or a fault met while      *)
(* reading it, not because some earlier row of the handle failed.          *)
(***************************************************************************)
ReadFailureIsItsOwn == \A a \in Archives : call[a].cause # "earlier"

=============================================================================
