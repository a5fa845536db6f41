# A verification of ObserverModules

ObserverModules are plug-ins of the Observer archive browser: each module is a
DLL that lists and extracts the files of one kind of game archive (RPG Maker,
Ren'Py, Zanzarah, Godot). This project models the parts of the modules that
keep state, call back, fail half-way, spend budgets or trust a file's numbers,
checks the models with TLC and proves their main invariants with TLAPS. C++
paths below are relative to the repository, e.g. `src/archive.cpp`; the module
comments and `PROJECT.json` prefix them with one more `src/`.

## The system

A host (Observer or FAR) loads a module and calls its C functions. Nothing in a
module starts a thread; the host may work with several handles at once, and
every extraction hands control back to it at each progress callback.

| component | state it keeps | operations | what makes it hard |
|---|---|---|---|
| ABI boundary (`src/dll.cpp`, `src/api.h`) | handles, one global option | `LoadSubModule`, `UnloadSubModule`, `OpenStorage`, `PrepareFiles`, `GetItem`, `ExtractItem`, `CloseStorage` | any order of calls, translation of every exception, settings changed under open handles |
| archive object (`src/archive.cpp`) | source stream and its failure state, listed rows, opened flag | `open`, `prepare_files`, `get_file`, `extract_file` | rows borrow the session of the source; a stream that failed stays failed; partial output; interleaved copies |
| Godot session (`modules/godot/archive_session.cpp`) | leased source, directory, accepted key | the constructor | candidates from several places, budgets shared between executables, ambiguity |
| Godot row handlers (`modules/godot/godot.cpp`) | the session's stream, a decrypting view per call | `entry_source`, `copy_source`, `write_converted`, `write_generated` | two passes over one source that may fault in between, cancellation, progress sums |
| encrypted payload (`core/godot/encrypted_payload.cpp`, `core/io/bounded_stream.cpp`) | buffer, cursor, cipher position, verified flag | `verify`, `fill`, `seekoff`, `xsgetn`, `underflow` | stale buffers, positions inside cipher blocks, faults |
| virtual tree (`modules/godot/virtual_tree.cpp`) | reserved folders, placed names, remembered suffixes | `make_virtual_tree`, `build_bounded_tree` | collisions in any letter case, retries under a budget |
| Godot listing (`modules/godot/godot.cpp`, `list_files`) | mappings, checkpoints, hints, two allowances | metadata pass, resource probes | budgets, faults that are swallowed, half-parsed metadata |
| pack directory (`core/godot/pck.cpp`) | the index | `locate_pack`, `read_pack` | extents from the file, three places a pack may be |
| metadata text (`core/godot/import_remap.cpp`) | a scanner's bracket stack, section and paths | `read_import_remap` | repeated keys, nesting, escapes, surrogates |
| key recovery (`core/godot/key_recovery.cpp`) | candidates, a budget shared by executables | `recover_key_candidates` | addresses from code, early stops, shared limits |
| binary resources (`core/godot/binary_resource.cpp`, `rscc.cpp`) | tables, the tree being read, a budget; a window of a block table | `parse`, `rscc_metadata_reader` | counts and references from the file, three generations, reads back and forth |
| block decoder (`core/codecs/resource_compression.cpp`) | two buffers and a codec's state | `read`, `finish`, `fill`, `decode_fastlz` | rewinds, claims of an end, two readings of one format |
| resource conversion (`modules/godot/resource_converter.cpp`) | a reader's position | `probe_resource`, `write_resource` | re-reading a borrowed stream, streaming into a sink that polls |
| RPG Maker, Ren'Py, Zanzarah (`modules/*`), zlib | none between calls; a running key per row; a pickle machine | `list_files`, `decrypt` | key chains, extents that are not validated, copies and nesting in pickles |
| the other codecs and resource readers | none | transforms of one buffer | numeric edges; mostly third-party code behind them |

The boundary creates an archive object per `OpenStorage` and gives the host its
address; the archive object owns the stream and an extractor, which for Godot
owns a session; the rows of a listing are either raw (an extent the archive
copies itself, chunk by chunk, through the extractor's running key) or carry a
handler that borrows the session and writes the whole destination. Exceptions
run up from the handler through the archive to the boundary, each layer
renaming some of them.

What must hold: a result code of success means the whole row on disk; nothing a
call or a failure does invalidates an index or mixes rows of two sources; a
handle keeps the settings it was opened with; nothing that was not verified is
written, and what a view delivers is the plaintext of its position; the
accepted key is verified and the only one; budgets hold over all candidates and
before every allocation; no number of a file reaches outside what it belongs
to; names never collide on disk and none is lost; every call ends.

## The modules

The core, where calls interleave:

* **Archive** is `class archive`. `arch[a]` holds the members of object `a`
  (`files`, `opened`, the stream's failure state and position, the source and
  option its session was built with); `call[a]` is the activation of
  `extract_file`; `disk` is what a reader of a destination would find. Open and
  prepare run to completion, so they are relations from the object to its
  possible results; `extract_file` is one action per visible step (open the
  destination, header and seek, a chunk, the callback, close), because the host
  and other handles act in between. A destination is a sequence of *pieces*:
  which row, which chunk, decrypted with which key of the chain. A row that
  is `custom` has a handler, the others take the raw path; `Sessioned` says
  that the extractor lists from a session (Godot).
* **Observer** extends it with the exported functions: handles, result codes,
  the option, and `fate`, which an exception that no handler names ends.
* **ExtractionContract** is what the host is promised of `ExtractItem`;
  Observer implements it under the mapping in its `Contract` instance (a file
  that a running call writes is *busy*, everything else is as on disk).

Godot:

* **GodotHandlers** opens up the handler step that Archive takes as a whole:
  the row handlers over one session stream that may fault at any read. The
  contract Archive assumes of a handler is its property `HandlersDeliver`, with
  the exception that the run `swallow` shows. A conversion makes pieces, as
  many as its kind makes of the row: it starts with a look at its source
  (`Probe`), which a texture takes through a `bounded_stream` and a binary
  resource through a reader that clears the stream, and it reports the stored
  size once, whatever it wrote.
* **CipherView** is the stream buffer under an encrypted row: the get area, the
  buffer decrypted in place, and where the cipher stands. A byte of plaintext is
  its position; a cipher standing at another position yields a foreign byte.
  **PlaintextSource** is what `encrypted_payload.h` promises, a seekable view of
  the plaintext, which CipherView implements: bytes may be anything only between
  a failed read and the next fresh start.
* **GodotSession** is the constructor of `archive_session`: which file holds
  the pack, what the evidence is, the password, the executables in their order,
  the three budgets. Surroundings (the pack, the password, the files beside it
  and the keys in them) are fixed when it starts, as the read lease fixes them.
* **PckDirectory** is `locate_pack` and `read_pack`: every number of the file is
  chosen when it is read, sums are those of a machine word (`CheckedAdd`).
* **KeyRecovery** is the search in the executables: sections, the places of the
  magic, windows of instructions, the globals they name, and the counters all
  executables share. An instruction is a record of what the decoder says.
* **GodotListing** is `list_files`: which entries are eligible metadata under
  the two allowances, what a fragment adds or leaves, the probes, and the
  retries with fewer fragments; **VirtualTree** is what one attempt builds, a
  placer of rows, one action per step of the search for a name, with the
  retries of `build_bounded_tree`. A path is a sequence of components (stem,
  `~N` suffixes, extension), folding is a given map of stems.
* **ImportRemap** is the scanner of metadata text, one token per step.
* **BinaryResource** is the parser of binary resources; the recursion of
  `read_value` is a stack of frames. **RsccView**, over **BlockStream**, is the
  random-access view of a compressed resource in any of its modes: a turn of a
  library's codec, or one call of `fill_fastlz`, which decodes a short block to
  its padded size and may refill several times; what the tokens of a FastLZ block
  say is left to **FastLz**, which runs the two readings of such a block side by
  side over one input.

The other formats: **RawListings** is the four listings (RPG Maker's two,
Zanzarah's, Ren'Py's with zlib under it) and the decryption of an RPG Maker
row; **PickleVm** is the pickle machine. A value there is its type, its cached
depth and the set of what it holds: the index of a pickle may nest and share
values at will, and no depth depends on the order of children or on equal ones.
The nesting that the cached depth is compared with is counted level by level
(`Descendants`), not read from the depths.

`MC*` modules and `.cfg` files instantiate them; `*Proofs` modules hold the
theorems. Operators named like a definition with a suffix and commented
*Mutant of* are deliberate faults: each property has one under which its run
finds it violated (`PROJECT.json`, `mutants`).

## Runs

| run | instance | shows |
|---|---|---|
| `archive` | 1 object, 2 sources, rows with 0 to 2 chunks, healthy, past the end, negative, and one with a handler | `RowsBelongToSource`, `SuccessIsWhole`, `ExtractionEnds` |
| `observer_raw` | 2 handles, 2 destinations, a raw row of a header and 2 chunks, one past the end | `HandlesAreSound`, `OutputIsPrefix`, `RowsKeepTheirIndex`, the contract |
| `observer_godot` | 2 handles, 2 destinations of which one can be deleted, option on and off | `SettingsAreSnapshot`, `HandlerLeavesNothing` |
| `handlers` | one row of each kind, 1 to 3 chunks, conversions to more pieces than chunks, fewer and none, any number of calls | `OnlyVerifiedIsWritten`, `ProgressIsHonest`, `WritesArePolled`, `HandlersDeliver`, `PlainRowsRecover`, `HandlerEnds` |
| `session` | 3 keys, up to 3 executables, every mix of sealed, members, good and bad passwords; budgets of 3 bytes, 2 executables, 2 candidates | `OpenIsReadable`, `RecoveredKeyIsUnique`, `BudgetsHold`, `GoodPasswordOpens`, `OpeningEnds` |
| `tree` | all packs of two or three out of ten names, and a texture under three aliases | `NamesAreSound`, `NothingIsDropped`, `MapIsExact`, `AliasesNeverLoseTheListing`, `TreeEnds` |
| `view` | blocks of 2 bytes, chunks of 4, a plaintext of 5; every sequence of seeks and reads of 1, 2 or 6 bytes | `WindowIsPlaintext`, the refinement of PlaintextSource, `ReadEnds` |
| `resources` | two engine generations, tables of up to 3 rows, values two deep, a budget of 13 | `TreeIsPaidFor`, `ReferencesResolve` |
| `formats` | eight readers, see below | one property each, two for the pack directory and for the raw listings |
| `escape`, `sticky`, `swallow` | as above | a counterexample each, see Findings |

`formats` is one run of eight machines that share no state: the first state says
which works (`reader`), the others keep one idle state. It shows, per machine:

| machine | instance | property |
|---|---|---|
| PckDirectory | files of 3, 10, 300 bytes; numbers 0, 41, 200, 1000 in words of 1024; versions 1 to 5; up to 2 entries admitted | `DirectoryIsSound`: no extent leaves the file or the pack, an index is whole; `BudgetCoversIndex` |
| RsccView | nine containers: a short last block, an empty one, hidden bytes, a table past the end, three of them FastLZ with blocks around the padding of 2; batches of 2 rows | `ReadsAreExact` |
| FastLz | input of up to 18 bytes, near and far matches with and without escape bytes, both levels | `ReadingsAgree` |
| PickleVm | up to 4 nodes, one mark, one memo slot, depth 3 | `DepthIsExact` |
| RawListings | sources of 20, 40, 50 bytes, fields from -1 to 30, chunks of 4 and a fragment of 5 | `ListingsAreSound`, `KeysFollowTheBytes` |
| GodotListing | indexes of three entries around both allowances | `AliasSetIsSound` |
| ImportRemap | two mappings, brackets two deep, escapes at both ends of the surrogates | `MetadataIsSound` |
| KeyRecovery | three executables, code with one to six instructions, tight counters | `RecoveryIsSound` |

Bounds. Two chunks make a chunk that follows another one under the next key
and a failure between them; a third changes nothing the properties compare. Two
handles are enough for every interference, since a call touches its own object
and one destination. Two sources make a re-open onto other rows. Two of the
three keys may open the evidence, which is what ambiguity takes; a validation
budget of 3 pays for one or three checks of cost 2 or 1 and for none of cost 4;
a recovery budget of 2 is smaller than what two executables yield together. The
names cover both kinds of collision (letter case, file against folder), a
suffixed name that exists already, a name equal to a numeric fallback, an
escaped one, one that is too long and one that a suffix makes too long; with
`MaxEntries = 4` aliased packs reach the entry limit. A plaintext of five bytes
has a first chunk that is full, a second that is not, and a last block that is
padded. The format machines take numbers on both sides of every comparison and
sums that wrap; every limit they have is reached and passed. The handles of
Observer are interchangeable, so its runs use symmetry; they check no liveness.
`CHECK_DEADLOCK FALSE` stands where the modelled program stops: a constructor,
a parse or a listing that is done, a host that has ended. In `archive` the host
may also reach a state where an action is merely not offered.

Fairness. Only the step of a call that is already running is fair (`WF` of
`Advance`, `Proceed`, `Step`): the code never waits, the host's callback is
assumed to answer, and reading past the end fails by itself. Faults,
cancellation and new calls are never required to happen.

## Findings

* `escape`: `OpenStorage` and `PrepareFiles` do not name `std::bad_alloc`
  (`dll.cpp:78-82`, `104-110`); the methodology prohibits exceptions that
  escape an exported function. `ExtractItem` does name it.
* `sticky`: the raw path never clears the archive's stream
  (`archive.cpp:125`), so after one failed read every other row of the handle
  fails, healthy or not. The rows of Ren'Py and RGSS3 archives may
  point past the end, so a single bad entry does this.
* `swallow`: an encrypted row is copied through an `istream` without an
  exception mask; a source fault after verification becomes stale bytes and a
  success. `read_source` relies, by its comment, on the mask of the archive's
  own stream.

Consequences of the same facts that no document contradicts, stated in the
properties as they are: in a Godot session an encrypted row, and a plain texture
that is converted, are refused after any earlier read fault until another plain
row has cleared the stream, because `bounded_stream` does not clear it
(`PlainRowsRecover` says that no other row is, and that nothing was written); a
good password is refused when the
smallest evidence exceeds the validation budget (`GoodPasswordOpens`); a view
whose fill failed half-way keeps its get area over ciphertext until the next
fill or a seek out of it (`torn` in CipherView, which every client but
`copy_source` avoids by giving up); a FastLZ block that ends in a far match is
accepted token by token only (`ReadingsAgree`); a raw row of Ren'Py or RGSS3 may
reach past the source (`ListingsAreSound` is about the formats that validate).

## Proofs

Every theorem holds for all values of the constants, under the assumptions of
the module it is about. They say what the types of the code say: sizes, counts,
lengths and limits are unsigned (`ResourceAssumption`, `LzAssumption`,
`RecoveryAssumption`, `DirectoryAssumption`), fields that are signed in the file
are integers (`FieldAssumption`), a chunk of an RPG Maker row is a number of
whole words (`ChunkIsWholeWords`), `NoKey` and `NoSource` are no key and no
source (`SessionAssumption`, `ListingAssumption` of Archive), a metadata
entry owns at least the slots of its mappings (`IndexAssumption`), the nesting limit of a pickle is at least one and no scalar
has the type of a container (`PickleAssumption`), a container's
table has a row for each of its blocks (`ContainerAssumption`: its length is
computed, not read). The module of a run extends every module with an
assumption, so TLC evaluates each on the instance. For each component there is
one inductive invariant, a lemma per action, and a theorem per property.

* **ObserverProofs**, the archive object and the boundary. Rows belong to the
  source and output is a prefix only because of facts the two properties do not
  mention: two running calls have different destinations, a running call's item has a valid type after its
  object was re-listed, and in the copy loop the stream's position, the key and
  the chunk count are in step. Those are the conjuncts `Place`, `Counts`,
  `Content` of the strengthening. `SuccessIsWhole` is an action property: from
  the invariant, a call that returns has no bytes left, so its prefix is whole.
  That invariant holds under the exported functions too, because each is a step
  of one object or resets its slot. The boundary adds one fact per slot (`Slots`): a held slot is opened under the
  option of its opening, a free slot holds nothing. From it follow
  `HandlesAreSound`, `SettingsAreSnapshot` and `RowsKeepTheirIndex`.
  `ContractIsKept` shows every exported function to be a step of
  ExtractionContract or a stutter; it uses that the path of a job is a path of
  the disk, hence the assumption `"none" \notin Paths`. What the host must not
  do (below) is in the guards of Observer, so the theorem is about a host that
  keeps to it.
* **GodotHandlersProofs**. The strengthening ties `sink`, `offset`, `granted`,
  `reported` and `verified` together for every program counter; the sink holds
  the row's chunks, or the pieces of its conversion, in order unless the call
  copied from the view and faulted.
  `WritesArePolled` needs a second invariant, `Polled`: between its poll and its
  write a conversion holds one grant more than it has written.
* **GodotSessionProofs**. The accepted key was paid for and verified, and while
  executables are searched it is the only paid key that verifies; until the
  password was tried the whole budget is left, which is what makes
  `GoodPasswordOpens` inductive; the candidates met and those still to be
  looked at are never more than what was charged, over all executables. For
  `BudgetsHold` a second invariant, `Spending`, counts what the executables and
  candidates so far took from each budget.
  The search for keys that an opening runs over executables is proved beside it
  (`RecInv` of KeyRecovery): what is wanted was stored by an executable's code
  (`Waiting`) and is looked up in that executable's sections, and every candidate
  was read from bytes of a section the file holds (`Backed`); the counters are
  those of all executables so far (`Bounded`). `Distinct`, a fold, is shown to
  keep every element once.
* **CipherViewProofs**. A fill may only be trusted because the running read
  fits the payload (`Place`) and because a cell of the buffer is either foreign
  or a byte of this payload (`Content`). From these every action of the view
  is shown to be an action of PlaintextSource or a stutter: `ViewIsASource`.
* **VirtualTreeProofs**. All four safety properties of the tree, for every pack,
  metadata, escaping and case folding. A row's name has its folders among
  `dirs` from the start (`Placed`), so a later name can never be a folder of an
  earlier one; the memory of suffixes skips taken candidates only, because
  folding a candidate is the candidate of the folded name (`Searched`); every
  file is in the tree or among the rows still to come (`Kept`), which rests on
  `AllRowsShape`: the rows built from the mappings have one for every file.
  Rows are listed in ascending order without recursion (`Ascending`, the n-th
  element has n elements up to it), and the lemma `Ranks` shows that this lists
  every element once. How long a path is (`Chars`, a fold) is never needed.
* **BinaryResourceProofs**. `TreeIsPaidFor` is not inductive: a table is paid for
  when its count is read, before its first row. The strengthening counts the rows
  paid for and not read yet (`Ahead`), so a row takes the place that waits for it.
  The products of counts and costs stay closed (`Weight`), with the lemmas
  `Weights` and `WeightsGrow` for their arithmetic; `Grown` names the ways a tree
  grows, and one lemma covers every value that is read at once (`ValueKeeps`).
  The order of a dictionary's keys is charged by their number, hence a frame has
  met finitely many. For `ReferencesResolve`, `IdsAreRows` says that the table of
  ids is the rows below the main one, each under an id of its own.
* **FormatsProofs**, a section for each other machine of the run `formats`:
  * FastLz (`LzInv`): the two readings are in step until a block of one byte, or
    a far match whose operands are the last bytes; after either nothing is left
    that could part them further.
  * GodotListing (`ListInv`): no charge is compared with more than is left of its
    allowance (`ListingCharged`, and `Residual` does not wrap), the mappings are
    whole fragments of ascending entries, and there is a checkpoint behind each
    (`Placed`, `Whole`).
  * RawListings (`RawInv`): one part per format, since no action of one format is
    an action of another. The key of a legacy row is the sum of what the names
    before it advance, and the bytes of a row so far carry the keys that one piece
    would (`DecryptedTo`): a chunk is a multiple of four bytes, and only the last
    may be shorter.
  * ImportRemap (`RemapInv`): a line of `[remap]` is recorded with its path or
    not at all, half of a surrogate pair is only ever pending, no bracket is open
    outside a group.
  * RsccView (`RsccInv`): the decoder takes no byte after its block and makes none
    beyond what it declares, the padding of FastLZ included, so an end that is
    claimed is the end (`DecoderInv`); FastLZ returns with part of a block only
    when it is past the padding (`PastPadding`), so one more call after the last
    byte ends the block in every mode, for which the window must hold the padding
    (`PaddedBytes \in 0..OutChunk`; 16 bytes and 64 KiB in the code);
    the place the view carries along is the sum of the sizes before it and is
    recomputed when a read goes back (`Located`); a read under way stands in the
    block its position belongs to (`Reads`). Division is linear enough for the
    provers once the quotient is named (`DivisionIs`).
  * PckDirectory: a sum that is compared is exact or a whole word, and no file is
    half that long, so a sum that passes a comparison is exact; the unsigned
    difference that places a body before the pack is longer than the pack. The
    strengthening says where every extent lies (`BodiesPlaced`) and what is known
    past the header and past the entries (`Progressed`). For `BudgetCoversIndex`
    a second invariant, `BudgetInv`, keeps what was charged and what is held
    together over the sum of the entries' names.
  * PickleVm (`PickleInv`): all values of the machine lie in one set that holds
    the children of its members (`ClosedUnder`) and in which the depth of a
    container is one more than that of its deepest child (`ExactDepth`). An
    opcode adds to it the one value it builds, so no induction over values is
    needed; the delicate case is `SetFits`, a deepest child replaced by a
    shallower one. In such a set the levels of a value lose one of the depth each
    (`LevelsOfDepth`), so as many of them hold a container as the depth says
    (`NestingIsDepth`).
* **DataInduction**. The theorems of induction cannot be instantiated here, so a
  least counterexample stands in: `LeastElement` gives a nonempty set of naturals
  its least member, and what fails somewhere fails first at a place whose
  predecessor satisfies it. From it: a function defined by recursion over finite
  sets exists and its value does not depend on the element chosen (`SumExists`,
  `SumsAgree`), sums of one element more and of prefixes (`SumWithOneMore`,
  `PrefixSum`), concatenations, greatest and least indices.

Termination. Fairness and `ENABLED` are out of the prover's reach, so the five
liveness properties are model-checked; but what makes them true is a measure
that every step lowers, and that is an action property. Each is proved in its
component's module, from the inductive invariant. With them the liveness
properties need only that the step under way is taken, which is the fairness
assumed above.

| property | theorem | steps at most |
|---|---|---|
| `ExtractionEnds` | `ExtractionsShrink`: a step of a call lowers its measure, no other call touches it | 2n + 2 for a row of n chunks |
| `HandlerEnds` | `HandlersShrink`, whatever the source and the host do | n + 3m + 4 for a row of n chunks that delivers m pieces |
| `OpeningEnds` | `OpeningsShrink` | 6, two per executable, `MaxRecovered` candidates |
| `ReadEnds` | `ReadsShrink`: a fill makes room for a copy, or ends the read | 2n + 1 for n bytes |
| `TreeEnds` | `TreesDescend`: five numbers in lexicographic order (`TreeMeasure`) | no closed form |

The last rests on `SearchesStayBounded`: the candidates a search for a name has
passed are distinct and all taken, hence no more than the names in the tree. A
breach of the budget starts over with half the fragments, which is the first of
the five numbers; the others are the stages ahead, the rows of the stage, the
names the row at hand may be tried under, and the candidates of one.

Only model-checked: the step from these measures to "eventually", and that a
running machine is never stuck. Every other property of the passing runs is a
theorem.
No theorem speaks of the idle machines of the run `formats`: each section is
about the specification of its own module.

## Not modelled

Texts, colours of the dialog, exact sizes in `StorageItemInfo`, and the
contents of files. The x86 decoder and the ciphers are functions of their input.
The readers of single resource types (audio, image, texture, font) and the
other codecs transform one immutable buffer; their hazards are arithmetic,
covered by the repository's fuzzing and unit tests, and most are adapters of
third-party libraries. The parsing of the settings text, the build and the
licence tooling keep no state of the modules. The host's discipline (one running
call per handle, no two running calls on one destination, no call into a handle
from its own callback) is assumed. By design and therefore without a property:
the raw path keeps a partial destination after a failure, and an empty listing
is parsed again by every `PrepareFiles`.

## Plan

Every safety property is proved, and a measure for every liveness property.
Next: the passes of `GodotListing` as steps towards an abstract listing; and the
retries of a view as an implementation of a source in RsccView, as CipherView
has it. A candidate for a further module is the streaming texture conversion
(`modules/godot/image_resource.cpp`): mipmap extents and row batches.
