------------------------------ MODULE MCFormats ------------------------------
(***************************************************************************)
(* The readers of stored formats side by side.  None of them shares state  *)
(* with another, so one run explores them all: the first state says which  *)
(* one works, and the others keep one initial state.                       *)
(***************************************************************************)
EXTENDS PckDirectory, RsccView, FastLz, PickleVm, RawListings, GodotListing, ImportRemap, KeyRecovery

VARIABLE reader  \* which machine works

-----------------------------------------------------------------------------
(* PckDirectory: names around the padding, the limit and the sanitizer.    *)

Name(padded, spelled, parts) == [stored |-> padded, logical |-> spelled, parts |-> parts]
MCRawNames == {Name(4, 1, <<"x">>), Name(4, 2, <<"x", "">>), Name(8, 8, <<"x">>), Name(2, 2, <<"", "x">>),
               Name(4, 4, <<"x", "..">>)}

-----------------------------------------------------------------------------
(* RsccView: three blocks with a short last one, an exact multiple with an *)
(* empty last one, hidden bytes before the trailer, a table past the end,  *)
(* a table whose sum is short; and FastLZ blocks of one byte less than the *)
(* padding, none and one byte more.                                        *)

Packed(stored, blockSize, total, sizes) ==
  [fast |-> FALSE, stored |-> stored, blockSize |-> blockSize, total |-> total, sizes |-> sizes]
Fast(stored, blockSize, total, sizes) == [Packed(stored, blockSize, total, sizes) EXCEPT !.fast = TRUE]
MCContainers == {
  Packed(32 + 6, 2, 5, <<2, 1, 3>>), Packed(28 + 4, 3, 3, <<3, 1>>), Packed(28 + 5, 3, 3, <<3, 1>>),
  Packed(28 + 3, 3, 3, <<3, 1>>), Packed(24, 3, 3, <<3, 1>>), Packed(28 + 6, 3, 4, <<5, 1>>),
  Fast(32 + 8, 2, 5, <<3, 2, 3>>), Fast(28 + 7, 3, 3, <<5, 2>>), Fast(28 + 5, 3, 3, <<4, 1>>)}
MCRequests == {[at |-> a, count |-> c] : a \in 0..4, c \in {1, 2, 5}}

-----------------------------------------------------------------------------
(* FastLz: matches near and far, with and without escape bytes.            *)

Copies(length, escapes, distance, isFar) ==
  [length |-> length, escapes |-> escapes, distance |-> distance, far |-> isFar]
MCMatches == {Copies(3, 0, 1, FALSE), Copies(3, 0, 5, FALSE), Copies(9, 1, 1, FALSE), Copies(264, 2, 1, FALSE),
              Copies(3, 0, 4, TRUE), Copies(12, 1, 9, TRUE)}

-----------------------------------------------------------------------------
(* RawListings.                                                            *)

MCRoots == {[kind |-> "invalid", rows |-> <<>>], [kind |-> "dict", rows |-> <<>>],
            [kind |-> "dict", rows |-> <<[offset |-> 9, size |-> 1, header |-> 2]>>]}
MCFieldValues == {-1, 0, 1, 2, 5, 9, 30}

-----------------------------------------------------------------------------
(* GodotListing: indexes of three entries around the two allowances.       *)

Nothing == [wire |-> "none"]
Binary(supported, answers) == [wire |-> "binary", supported |-> supported, answers |-> answers]
Parsed(charge, pairs) == [charge |-> charge, mappings |-> pairs]
Metadata(length, encrypted, fragment) ==
  [kind |-> "file", metadata |-> TRUE, size |-> length, encrypted |-> encrypted, fragment |-> fragment,
   resource |-> Nothing]
Other(kind, encrypted, resource) ==
  [kind |-> kind, metadata |-> FALSE, size |-> 4, encrypted |-> encrypted, fragment |-> Malformed,
   resource |-> resource]

Fragments == {Malformed, Parsed(0, 0), Parsed(3, 1), Parsed(4, 2), Parsed(8, 2)}
Sized(lengths) == {Metadata(l, encrypted, f) : l \in lengths, encrypted \in BOOLEAN, f \in Fragments}
Others == {Other("removal", FALSE, Nothing), Other("file", TRUE, [wire |-> "short"]),
           Other("file", FALSE, [wire |-> "texture", texture |-> "known"]),
           Other("file", TRUE, Binary(TRUE, <<"absent", "known", "absent">>)),
           Other("file", FALSE, Binary(TRUE, <<"error", "known", "absent">>)),
           Other("file", FALSE, Binary(FALSE, <<"known", "absent", "absent">>))}
MCIndexes ==
  {<<a, b, c>> : a \in Sized({5}), b \in Sized({5}), c \in Sized({5}) \cup Others} \cup
  {<<a, b, c>> : a \in Sized({1}), b \in Sized({1, 6}), c \in Others}

-----------------------------------------------------------------------------
(* ImportRemap.                                                            *)

Path(parts) == [res |-> FALSE, long |-> FALSE, parts |-> parts]
MCMetadataPaths == {[whole |-> Path(<<"x.import">>), stem |-> Path(<<"x">>), suffix |-> TRUE],
                    [whole |-> Path(<<".import">>), stem |-> Path(<<"">>), suffix |-> TRUE]}
MCTexts == {[res |-> TRUE, long |-> FALSE, parts |-> <<"a", ".", "b">>], Path(<<"c:">>)}

-----------------------------------------------------------------------------
(* KeyRecovery: images of one code section and two of data, the second of  *)
(* them only reserved.                                                     *)

Nop == [magic |-> FALSE, decodes |-> TRUE, returns |-> FALSE, plausible |-> FALSE, bitXor |-> FALSE,
        size32 |-> FALSE, addresses |-> <<>>, displacements |-> <<>>, calls |-> <<>>]
Magic == [Nop EXCEPT !.magic = TRUE, !.size32 = TRUE]
Lea(a) == [Nop EXCEPT !.plausible = TRUE, !.addresses = <<a>>, !.size32 = TRUE]
Call(a) == [Nop EXCEPT !.calls = <<a>>]
Ret == [Nop EXCEPT !.returns = TRUE]
Bad == [Nop EXCEPT !.decodes = FALSE, !.magic = TRUE, !.plausible = TRUE]
Mix(d) == [Nop EXCEPT !.bitXor = TRUE, !.displacements = <<d>>]

Codes == {
  <<Magic, Lea(20), Ret, Lea(24)>>,                    \* a constant and the pointer beside it
  <<Magic, Call(13), Ret, Lea(22), Lea(20)>>,          \* one in the function it calls
  <<Magic, Lea(40), Ret, Lea(40), Lea(24), Lea(20)>>,  \* an unbacked global and its initializer
  <<Magic, Lea(0), Mix(20), Mix(22), Mix(24), Ret>>,   \* three arrays under two XORs
  <<Bad, Magic, Lea(26), Lea(45)>>}

Data(address, offset, stored, extent) ==
  [address |-> address, extent |-> extent, rawOffset |-> offset, rawSize |-> stored, executable |-> FALSE,
   code |-> <<>>]
Text(code) == [address |-> 10, extent |-> Len(code), rawOffset |-> 70, rawSize |-> Len(code),
               executable |-> TRUE, code |-> code]
ImageOf(code, data) ==
  [bytes |-> 90, header |-> "pe", base |-> 0, sections |-> <<Text(code), data, Data(40, 0, 0, 6)>>]
MCExecutables ==
  {ImageOf(code, Data(20, 80, 6, 8)) : code \in Codes} \cup
  {ImageOf(<<Magic, Lea(20)>>, Data(20, 86, 6, 6)), ImageOf(<<Magic, Lea(20)>>, Data(10, 80, 6, 6))} \cup
  {[bytes |-> 64, header |-> h, base |-> 0, sections |-> <<>>] : h \in {"other", "broken"}}

MCKeyAt(a) == IF a = 20 THEN {"k"} ELSE IF a = 22 THEN {"l"} ELSE {"k", "m"}
MCPointerAt(a) == IF a = 20 THEN 24 ELSE 20

-----------------------------------------------------------------------------
Works(name) == reader = name
OneOf(S) == CHOOSE x \in S : TRUE

\* What the idle ones are given.
IdleFileSize == OneOf(FileSizes)
IdleContainer == OneOf(Containers)
IdleBlock == [size |-> OneOf(Lengths), expected |-> OneOf(Expected), level |-> OneOf(Levels)]
IdleSource == OneOf(SourceSizes)
IdleIndex == OneOf(Indexes)
IdlePath == OneOf(MetadataPaths)
IdleImage == OneOf(Executables)

FormatsInit ==
  /\ reader \in {"directory", "rscc", "fastlz", "pickle", "raw", "listing", "remap", "recovery"}
  /\ (IF Works("directory") THEN TRUE ELSE fileSize = IdleFileSize /\ key = "null") /\ Init
  /\ (IF Works("rscc") THEN TRUE ELSE file = IdleContainer) /\ RsccInit
  /\ (IF Works("fastlz") THEN TRUE ELSE size = IdleBlock.size /\ expected = IdleBlock.expected /\ level = IdleBlock.level)
  /\ LzInit
  /\ PickleInit
  /\ (IF Works("raw") THEN TRUE ELSE format = "ace" /\ bytes = IdleSource) /\ ListingInit
  /\ (IF Works("listing") THEN TRUE ELSE members = IdleIndex /\ decode = FALSE) /\ ListInit
  /\ (IF Works("remap") THEN TRUE ELSE named = IdlePath) /\ RemapInit
  /\ (IF Works("recovery") THEN TRUE ELSE executable = [image |-> IdleImage, number |-> 1])
  /\ RecoveryInit

FormatsNext ==
  /\ UNCHANGED reader
  /\ \/ Works("directory") /\ Next /\ UNCHANGED <<rsccVars, lz, machine, listing, list, remap, recovery>>
     \/ Works("rscc") /\ RsccNext /\ UNCHANGED <<vars, lz, machine, listing, list, remap, recovery>>
     \/ Works("fastlz") /\ LzNext /\ UNCHANGED <<vars, rsccVars, machine, listing, list, remap, recovery>>
     \/ Works("pickle") /\ PickleNext /\ UNCHANGED <<vars, rsccVars, lz, listing, list, remap, recovery>>
     \/ Works("raw") /\ ListingNext /\ UNCHANGED <<vars, rsccVars, lz, machine, list, remap, recovery>>
     \/ Works("listing") /\ ListNext /\ UNCHANGED <<vars, rsccVars, lz, machine, listing, remap, recovery>>
     \/ Works("remap") /\ RemapNext /\ UNCHANGED <<vars, rsccVars, lz, machine, listing, list, recovery>>
     \/ Works("recovery") /\ RecoveryNext /\ UNCHANGED <<vars, rsccVars, lz, machine, listing, list, remap>>

FormatsSpec ==
  FormatsInit /\ [][FormatsNext]_<<reader, vars, rsccVars, lz, machine, listing, list, remap, recovery>>
==============================================================================
