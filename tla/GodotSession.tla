---------------------------- MODULE GodotSession ----------------------------
(***************************************************************************)
(* The opening of a Godot archive                                          *)
(* (src/src/modules/godot/archive_session.cpp): find the pack, read its    *)
(* directory, and when the directory or a nonempty member is encrypted,    *)
(* find the key: the password first, then the candidates recovered from    *)
(* the executables beside the pack (src/src/core/godot/key_recovery.cpp).  *)
(* A candidate counts only once it decrypted the evidence to its stored    *)
(* digest, and every check is paid for from a budget of bytes.             *)
(***************************************************************************)
EXTENDS Integers, Sequences, FiniteSets

CONSTANTS
  Keys,             \* 256-bit keys
  NoKey,            \* no key: an absent or malformed password, nothing accepted
  Surroundings,     \* the packs, passwords and folders a session may meet
  MaxValidation,    \* session_limits::max_validation_bytes
  MaxExecutables,   \* session_limits::max_executables
  MaxRecovered      \* max_recovered_keys

(***************************************************************************)
(* What surrounds a session.  location: which file holds the pack.         *)
(* sealed: the directory is encrypted.  cost: its ciphertext size.         *)
(* members: envelope sizes of the nonempty encrypted members.  opens: keys *)
(* under which the evidence has its digest.  files: the executables to     *)
(* visit in order, the preferred one first (a missing one is not ordinary),*)
(* each with the keys a full recovery finds in it.                         *)
(***************************************************************************)
File == [ordinary : BOOLEAN, keys : Seq(Keys)]
Surrounding ==
  [exe : BOOLEAN, location : {"requested", "sidecar", "nowhere"}, sealed : BOOLEAN, cost : Nat,
   members : SUBSET Nat, opens : SUBSET Keys, password : Keys \cup {NoKey}, files : Seq(File)]

ASSUME SessionAssumption ==
  /\ NoKey \notin Keys
  /\ Surroundings \subseteq Surrounding
  /\ MaxValidation \in Nat
  /\ MaxExecutables \in Nat
  /\ MaxRecovered \in Nat

VARIABLES
  env,        \* the surroundings; a session never changes them
  pc,         \* the step of the constructor
  source,     \* the leased file: the one requested, or the sidecar
  index,      \* the directory: "none", "plain", or the key it was decrypted with
  charge,     \* what one verification costs
  left,       \* validation_left
  accepted,   \* accepted_key
  executables,\* executables scanned
  todo,       \* files not visited yet
  spent,      \* scan_budget.candidates
  found,      \* candidates of the current executable not looked at yet
  seen,       \* distinct candidates, in the order they were met
  paid,       \* keys whose verification was paid for (observation only)
  result      \* how the constructor ended

vars == <<env, pc, source, index, charge, left, accepted, executables, todo, spent, found, seen,
          paid, result>>

Init ==
  /\ env \in Surroundings
  /\ pc = "locate"
  /\ source = "requested"
  /\ index = "none"
  /\ charge = 0
  /\ left = MaxValidation
  /\ accepted = NoKey
  /\ executables = 0
  /\ todo = env.files
  /\ spent = 0
  /\ found = <<>>
  /\ seen = <<>>
  /\ paid = {}
  /\ result = "none"

End(how) == pc' = "done" /\ result' = how

LocatePack ==
  /\ \/ /\ pc = "locate"
        /\ \/ env.location = "requested" /\ pc' = "index" /\ UNCHANGED <<source, result>>
           \/ /\ env.location # "requested"
              /\ IF env.exe THEN pc' = "sidecar" /\ source' = "sidecar" /\ UNCHANGED result
                            ELSE End("pck_error") /\ UNCHANGED source
     \/ /\ pc = "sidecar"
        /\ IF env.location = "sidecar" THEN pc' = "index" /\ UNCHANGED result ELSE End("pck_error")
        /\ UNCHANGED source
  /\ UNCHANGED <<env, index, charge, left, accepted, executables, todo, spent, found, seen, paid>>

Smallest(n, S) == n \in S /\ \A m \in S : n <= m

\* read_pack without a key, and the choice of the evidence: the sealed
\* directory, or the smallest nonempty encrypted member.
ReadPack ==
  /\ pc = "index"
  /\ IF env.sealed
     THEN pc' = "supplied" /\ charge' = env.cost /\ UNCHANGED <<index, result>>
     ELSE /\ index' = "plain"
          /\ IF env.members = {}
             THEN UNCHANGED charge /\ End("open")
             ELSE /\ \E n \in env.members : Smallest(n, env.members) /\ charge' = n
                  /\ pc' = "supplied" /\ UNCHANGED result
  /\ UNCHANGED <<env, source, left, accepted, executables, todo, spent, found, seen, paid>>

(***************************************************************************)
(* verify_candidate.  It answers FALSE for a key the budget cannot pay or  *)
(* the digest refuses; a verified key is admitted, which throws when       *)
(* another key is accepted already; only then is the decrypted directory   *)
(* moved in.                                                               *)
(***************************************************************************)
Affordable == charge <= left
Verifies(k) == Affordable /\ k \in env.opens
Ambiguous(k) == Verifies(k) /\ accepted \notin {NoKey, k}

\* Mutant of VerifyCandidate: the directory is moved in before the digest is looked at.
VerifyCandidateMovesFirst(k) ==
  /\ left' = IF Affordable THEN left - charge ELSE left
  /\ paid' = IF Affordable THEN paid \cup {k} ELSE paid
  /\ accepted' = IF Verifies(k) /\ ~Ambiguous(k) THEN k ELSE accepted
  /\ index' = IF Affordable /\ env.sealed THEN k ELSE index

VerifyCandidate(k) ==
  /\ left' = IF Affordable THEN left - charge ELSE left
  /\ paid' = IF Affordable THEN paid \cup {k} ELSE paid
  /\ accepted' = IF Verifies(k) /\ ~Ambiguous(k) THEN k ELSE accepted
  /\ index' = IF Verifies(k) /\ ~Ambiguous(k) /\ env.sealed THEN k ELSE index

\* Mutant of TrySupplied: the password is not tried.
TrySuppliedNever ==
  /\ pc = "supplied"
  /\ pc' = "scan"
  /\ UNCHANGED <<env, source, index, charge, left, accepted, executables, todo, spent, found, seen,
                 paid, result>>

\* The password decides alone when it verifies.
TrySupplied ==
  /\ pc = "supplied"
  /\ IF env.password = NoKey
     THEN pc' = "scan" /\ UNCHANGED <<left, paid, accepted, index, result>>
     ELSE /\ VerifyCandidate(env.password)
          /\ IF Verifies(env.password) THEN End("open") ELSE pc' = "scan" /\ UNCHANGED result
  /\ UNCHANGED <<env, source, charge, executables, todo, spent, found, seen>>

Prefix(s, n) == SubSeq(s, 1, n)

\* Mutants of ScanExecutable: a skipped file is looked at again; every
\* executable gets a recovery budget of its own.
ScanExecutableRevisits ==
  /\ pc = "scan" /\ todo # <<>>
  /\ IF executables >= MaxExecutables \/ ~Head(todo).ordinary
     THEN UNCHANGED <<todo, executables, spent, found, pc>>
     ELSE /\ executables' = executables + 1
          /\ todo' = Tail(todo)
          /\ \E n \in 0..Len(Head(todo).keys) :
               /\ spent + n <= MaxRecovered
               /\ spent' = spent + n
               /\ found' = Prefix(Head(todo).keys, n) /\ pc' = "try"
  /\ UNCHANGED <<env, source, index, charge, left, accepted, seen, paid, result>>
ScanExecutableFreshBudget ==
  /\ pc = "scan" /\ todo # <<>>
  /\ todo' = Tail(todo)
  /\ IF executables >= MaxExecutables \/ ~Head(todo).ordinary
     THEN UNCHANGED <<executables, spent, found, pc>>
     ELSE /\ executables' = executables + 1
          /\ \E n \in 0..Len(Head(todo).keys) :
               /\ n <= MaxRecovered
               /\ spent' = n
               /\ found' = Prefix(Head(todo).keys, n)
               /\ pc' = "try"
  /\ UNCHANGED <<env, source, index, charge, left, accepted, seen, paid, result>>

\* Recovery stops early when one of its budgets runs out; an executable that
\* cannot be opened or read gives nothing, though what it spent stays spent.
ScanExecutable ==
  /\ pc = "scan" /\ todo # <<>>
  /\ todo' = Tail(todo)
  /\ IF executables >= MaxExecutables \/ ~Head(todo).ordinary
     THEN UNCHANGED <<executables, spent, found, pc>>
     ELSE /\ executables' = executables + 1
          /\ \E n \in 0..Len(Head(todo).keys) :
               /\ spent + n <= MaxRecovered
               /\ spent' = spent + n
               /\ \/ found' = Prefix(Head(todo).keys, n) /\ pc' = "try"
                  \/ UNCHANGED <<found, pc>>
  /\ UNCHANGED <<env, source, index, charge, left, accepted, seen, paid, result>>

Met(k) == \E i \in DOMAIN seen : seen[i] = k

\* Mutant of TryCandidate: a second verified key is passed over.
TryCandidateFirstWins ==
  /\ pc = "try" /\ found # <<>>
  /\ found' = Tail(found)
  /\ IF Met(Head(found))
     THEN UNCHANGED <<seen, left, paid, accepted, index, pc, result>>
     ELSE /\ seen' = Append(seen, Head(found))
          /\ VerifyCandidate(Head(found))
          /\ UNCHANGED <<pc, result>>
  /\ UNCHANGED <<env, source, charge, executables, todo, spent>>

TryCandidate ==
  /\ pc = "try" /\ found # <<>>
  /\ found' = Tail(found)
  /\ IF Met(Head(found))
     THEN UNCHANGED <<seen, left, paid, accepted, index, pc, result>>
     ELSE /\ seen' = Append(seen, Head(found))
          /\ VerifyCandidate(Head(found))
          /\ IF Ambiguous(Head(found)) THEN End("password_required") ELSE UNCHANGED <<pc, result>>
  /\ UNCHANGED <<env, source, charge, executables, todo, spent>>

\* A read of the leased source fails, or the pack is malformed.
SourceFails ==
  /\ \/ pc \in {"locate", "sidecar", "index"}
     \/ pc = "supplied" /\ env.password # NoKey /\ Affordable
     \/ pc = "try" /\ found # <<>> /\ ~Met(Head(found)) /\ Affordable
  /\ End("pck_error")
  /\ UNCHANGED <<env, source, index, charge, left, accepted, executables, todo, spent, found, seen,
                 paid>>

CandidatesDone ==
  /\ pc = "try" /\ found = <<>>
  /\ pc' = "scan"
  /\ UNCHANGED <<env, source, index, charge, left, accepted, executables, todo, spent, found, seen,
                 paid, result>>

ScanDone ==
  /\ pc = "scan" /\ todo = <<>>
  /\ End(IF accepted = NoKey THEN "password_required" ELSE "open")
  /\ UNCHANGED <<env, source, index, charge, left, accepted, executables, todo, spent, found, seen,
                 paid>>

Step ==
  \/ LocatePack
  \/ ReadPack
  \/ TrySupplied
  \/ ScanExecutable
  \/ TryCandidate
  \/ CandidatesDone
  \/ ScanDone

Next == Step \/ SourceFails

Spec == Init /\ [][Next]_vars

\* The constructor runs to its end on the host's thread.
FairSpec == Spec /\ WF_vars(Step)

-----------------------------------------------------------------------------
TypeOK ==
  /\ env \in Surroundings
  /\ pc \in {"locate", "sidecar", "index", "supplied", "scan", "try", "done"}
  /\ source \in {"requested", "sidecar"}
  /\ index \in Keys \cup {"none", "plain"}
  /\ charge \in Nat
  /\ left \in 0..MaxValidation
  /\ accepted \in Keys \cup {NoKey}
  /\ executables \in 0..MaxExecutables
  /\ todo \in Seq(File)
  /\ spent \in 0..MaxRecovered
  /\ found \in Seq(Keys)
  /\ seen \in Seq(Keys)
  /\ paid \subseteq Keys
  /\ result \in {"none", "open", "pck_error", "password_required"}

(***************************************************************************)
(* "The session admits nonempty encrypted members only after accepting a   *)
(* verified key" (godot.cpp:173): an open session has a directory, and a   *)
(* verified key if anything in the pack needs one; a sealed directory was  *)
(* decrypted with that very key.                                           *)
(***************************************************************************)
OpenIsReadable ==
  result = "open" =>
    /\ env.sealed \/ env.members # {} => accepted \in env.opens
    /\ index = IF env.sealed THEN accepted ELSE "plain"

(***************************************************************************)
(* "A second distinct verified key is ambiguous" (archive_session.h:28):   *)
(* a session whose key was recovered, not supplied, opens only if no other *)
(* candidate that was checked verified as well.                            *)
(***************************************************************************)
RecoveredKeyIsUnique ==
  result = "open" /\ accepted \notin {NoKey, env.password} => paid \cap env.opens = {accepted}

\* The verifications cost no more than the budget in total, the password's
\* included, whatever order the candidates come in and however often they recur.
ValidationIsBounded == Cardinality(paid) * charge <= MaxValidation

\* "No growth frees an unwiped key copy" (archive_session.cpp:322): over all
\* executables together the candidates fit the reserved storage.
SeenFitsReserve == Len(seen) <= MaxRecovered

\* Both budgets hold over all candidates of all executables.
BudgetsHold == ValidationIsBounded /\ SeenFitsReserve

\* A password that opens the evidence is refused only if the evidence is
\* larger than the validation budget.
GoodPasswordOpens ==
  result = "password_required" /\ env.password \in env.opens => charge > MaxValidation

\* Every opening ends.
OpeningEnds == <>(pc = "done")
=============================================================================
