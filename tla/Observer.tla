------------------------------ MODULE Observer ------------------------------
(***************************************************************************)
(* The C boundary of a module (src/src/dll.cpp): the exported functions    *)
(* the host calls, the handle each successful OpenStorage gives it, and    *)
(* the translation of every exception to a result code.  A handle is an    *)
(* archive object; a slot of Archives is free when no handle stands for it.*)
(* A C++ exception that no handler of the boundary names ends the host     *)
(* process.                                                                *)
(***************************************************************************)
EXTENDS Archive

VARIABLES
  held,     \* held[a]: the host holds the handle of a
  option,   \* decode_resources_option, the module's only global
  fate,     \* "running", or "terminated" by an exception that escaped
  ret,      \* what the last exported function returned
  opt0      \* opt0[a]: the option when a was opened (observation only)

abi == <<held, option, fate, ret, opt0>>
allVars == <<arch, call, disk, held, option, fate, ret, opt0>>

Returned(fn, code) == ret' = [fn |-> fn, code |-> code]

ObserverInit ==
  /\ Init
  /\ held = [a \in Archives |-> FALSE]
  /\ option = FALSE
  /\ fate = "running"
  /\ ret = [fn |-> "none", code |-> "none"]
  /\ opt0 = [a \in Archives |-> FALSE]

\* The result code of ExtractItem for the way extract_file ended.
ExtractCode(outcome) ==
  CASE outcome = "none" -> "none"
    [] outcome = "returned" -> "SER_SUCCESS"
    [] outcome = "user_interrupt" -> "SER_USERABORT"
    [] outcome = "read_error" -> "SER_ERROR_READ"
    [] outcome = "write_error" -> "SER_ERROR_WRITE"
    [] OTHER -> "SER_ERROR_SYSTEM"

\* The exceptions OpenStorage and PrepareFiles name; the others escape.
OpenCaught == {"password_required", "runtime_error", "read_error", "write_error", "user_interrupt"}
PrepareCaught == (OpenCaught \cup {"logic_error"})

\* A null pointer or a wrong StructSize.
OpenRefused ==
  /\ Returned("OpenStorage", "SOR_INVALID_FILE")
  /\ UNCHANGED <<vars, held, option, fate, opt0>>

\* The object is released to the host only after it opened; otherwise it is
\* destroyed on the way out.
OpenStorage(a, s, sniffed) ==
  /\ ~held[a]
  /\ \E r \in OpenResults(NewArchive, s, sniffed, option) :
       IF r.exc = "none"
       THEN /\ arch' = [arch EXCEPT ![a] = r.arch]
            /\ held' = [held EXCEPT ![a] = TRUE]
            /\ opt0' = [opt0 EXCEPT ![a] = option]
            /\ Returned("OpenStorage", "SOR_SUCCESS")
            /\ UNCHANGED fate
       ELSE /\ IF r.exc \in OpenCaught
               THEN /\ Returned("OpenStorage", IF r.exc = "password_required"
                                               THEN "SOR_PASSWORD_REQUIRED" ELSE "SOR_INVALID_FILE")
                    /\ UNCHANGED fate
               ELSE fate' = "terminated" /\ UNCHANGED ret
            /\ UNCHANGED <<arch, held, opt0>>
  /\ UNCHANGED <<call, disk, option>>

\* Mutant of CloseStorage: the object is not destroyed.
CloseStorageLeaks(a) ==
  /\ held[a]
  /\ Idle(a)
  /\ held' = [held EXCEPT ![a] = FALSE]
  /\ opt0' = [opt0 EXCEPT ![a] = FALSE]
  /\ UNCHANGED <<vars, option, fate, ret>>

CloseStorage(a) ==
  /\ held[a]
  /\ Idle(a)
  /\ held' = [held EXCEPT ![a] = FALSE]
  /\ arch' = [arch EXCEPT ![a] = NewArchive]
  /\ call' = [call EXCEPT ![a] = NewCall]
  /\ opt0' = [opt0 EXCEPT ![a] = FALSE]
  /\ UNCHANGED <<disk, option, fate, ret>>

PrepareFilesOf(a) ==
  /\ held[a]
  /\ Idle(a)
  /\ \E r \in PrepareResults(arch[a]) :
       /\ arch' = [arch EXCEPT ![a] = r.arch]
       /\ IF r.exc \in PrepareCaught \cup {"none"}
          THEN /\ Returned("PrepareFiles", IF r.exc = "none" THEN "TRUE" ELSE "FALSE")
               /\ UNCHANGED fate
          ELSE fate' = "terminated" /\ UNCHANGED ret
  /\ UNCHANGED <<call, disk, held, option, opt0>>

\* item_info is written before the failed conversion of the path is reported.
GetItem(a, i) ==
  /\ held[a]
  /\ Idle(a)
  /\ Returned("GetItem",
       IF i > Len(arch[a].files) THEN "GET_ITEM_NOMOREITEMS"
       ELSE IF arch[a].files[i].fits THEN "GET_ITEM_OK" ELSE "GET_ITEM_ERROR")
  /\ UNCHANGED <<vars, held, option, fate, opt0>>

\* A null handle, path or callback, or a negative index.
CallRefused ==
  /\ \E r \in {<<"PrepareFiles", "FALSE">>, <<"GetItem", "GET_ITEM_ERROR">>,
               <<"ExtractItem", "SER_ERROR_SYSTEM">>} : Returned(r[1], r[2])
  /\ UNCHANGED <<vars, held, option, fate, opt0>>

\* A step of extract_file; the code is returned with the step that ends it.
ExtractItem(a) ==
  /\ held[a]
  /\ ExtractFile(a) \/ Resume(a)
  /\ IF Idle(a)' THEN Returned("ExtractItem", ExtractCode(call'[a].outcome)) ELSE UNCHANGED ret
  /\ UNCHANGED <<held, option, fate, opt0>>

\* configure and reset_settings do nothing in the raw formats.
LoadSubModule(decode) ==
  /\ option' = (Sessioned /\ decode)
  /\ Returned("LoadSubModule", "TRUE")
  /\ UNCHANGED <<vars, held, fate, opt0>>

UnloadSubModule ==
  /\ option' = FALSE
  /\ UNCHANGED <<vars, held, fate, ret, opt0>>

ObserverNext ==
  /\ fate = "running"
  /\ \/ OpenRefused
     \/ CallRefused
     \/ UnloadSubModule
     \/ \E decode \in BOOLEAN : LoadSubModule(decode)
     \/ \E a \in Archives :
          \/ \E s \in Sources, sniffed \in BOOLEAN : OpenStorage(a, s, sniffed)
          \/ CloseStorage(a)
          \/ PrepareFilesOf(a)
          \/ \E i \in 1..(Len(arch[a].files) + 1) : GetItem(a, i)
          \/ ExtractItem(a)

ObserverSpec == ObserverInit /\ [][ObserverNext]_allVars

-----------------------------------------------------------------------------
Codes == {"none", "SOR_SUCCESS", "SOR_INVALID_FILE", "SOR_PASSWORD_REQUIRED", "TRUE", "FALSE",
          "GET_ITEM_OK", "GET_ITEM_ERROR", "GET_ITEM_NOMOREITEMS", "SER_SUCCESS",
          "SER_ERROR_WRITE", "SER_ERROR_READ", "SER_ERROR_SYSTEM", "SER_USERABORT"}

\* The boundary's own state has its type.
ObserverTypeOK ==
  /\ TypeOK
  /\ held \in [Archives -> BOOLEAN]
  /\ option \in BOOLEAN
  /\ fate \in {"running", "terminated"}
  /\ ret \in [fn : {"none", "OpenStorage", "PrepareFiles", "GetItem", "ExtractItem",
                    "LoadSubModule"}, code : Codes]
  /\ opt0 \in [Archives -> BOOLEAN]

\* A handle in the host's hands stands for an opened archive, so the check of
\* opened_ in prepare_files never fires across the boundary; a free slot holds
\* nothing: whichever way OpenStorage failed, it left no object behind.
HandlesAreOpen ==
  \A a \in Archives :
    IF held[a] THEN arch[a].opened ELSE arch[a] = NewArchive /\ call[a] = NewCall

\* The state of the boundary is typed, its result codes are documented ones, and
\* a handle stands for exactly one opened object.
HandlesAreSound == ObserverTypeOK /\ HandlesAreOpen

\* The settings of a handle are those of its opening: reloading the module
\* with another option, between OpenStorage and PrepareFiles or later, changes
\* no row of a handle already open (godot.cpp:277).
SettingsAreSnapshot ==
  \A a \in Archives :
    held[a] /\ arch[a].files # <<>> => arch[a].files = Listing[arch[a].source][opt0[a]]

\* An index the host obtained from GetItem keeps naming the same row until the
\* handle is closed, whatever calls come in between and however they fail.
RowsKeepTheirIndex ==
  [][\A a \in Archives :
       held[a] /\ held'[a] /\ arch[a].files # <<>> => arch'[a].files = arch[a].files]_allVars

(***************************************************************************)
(* The boundary implements the contract of ExtractItem.                    *)
(***************************************************************************)
NoJob == [row |-> NoItem, path |-> "none"]
ListedRows ==
  UNION {{Listing[s][d][i] : i \in DOMAIN Listing[s][d]} : s \in Sources, d \in BOOLEAN}

Contract == INSTANCE ExtractionContract WITH
  Handles <- Archives,
  Rows <- ListedRows,
  Failures <- {"SER_ERROR_WRITE", "SER_ERROR_READ", "SER_ERROR_SYSTEM", "SER_USERABORT"},
  job <- [a \in Archives |->
            IF Running(a) THEN [row |-> call[a].item, path |-> call[a].dest] ELSE NoJob],
  verdict <- [a \in Archives |-> ExtractCode(call[a].outcome)],
  file <- [p \in Paths |->
             IF \E a \in Archives : Running(a) /\ call[a].dest = p
             THEN [is |-> "busy", data |-> <<>>] ELSE disk[p]]

\* ExtractItem keeps its contract: see module ExtractionContract.
ImplementsContract == Contract!Spec

-----------------------------------------------------------------------------
\* "prohibit exceptions escaping either exported functions or host callbacks"
\* (docs/critical-software-methodology.md:60): the host survives every call.
NoExceptionEscapes == fate = "running"
=============================================================================
