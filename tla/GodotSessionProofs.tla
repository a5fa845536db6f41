------------------------- MODULE GodotSessionProofs -------------------------
(***************************************************************************)
(* What module GodotSession promises, for every set of keys, every budget  *)
(* and all surroundings; and, behind it, what KeyRecovery promises of the  *)
(* executables an opening searches for keys.                               *)
(***************************************************************************)
EXTENDS GodotSession, KeyRecovery, DataInduction, SequenceTheorems

Started == {"supplied", "scan", "try"}
Searching == {"scan", "try"}

(***************************************************************************)
(* The strengthening.  KeyState: the accepted key was paid for, verified,  *)
(* and is the one the directory was decrypted with; while the executables  *)
(* are searched it is the only key that verified.  Budget: what was met    *)
(* and what is still to be looked at has been charged to the recovery.     *)
(* Ended: the ways the constructor ends.                                   *)
(***************************************************************************)
KeyState ==
  /\ accepted # NoKey => accepted \in env.opens /\ accepted \in paid
  /\ pc \in {"locate", "sidecar", "index"} => index = "none"
  /\ pc \in {"locate", "sidecar", "index", "supplied"} =>
       accepted = NoKey /\ paid = {} /\ left = MaxValidation
  /\ pc \in Searching => paid \cap env.opens \subseteq {accepted}
  /\ pc \in Searching /\ env.password \in env.opens => charge > MaxValidation
  /\ pc \in Started =>
       index = IF ~env.sealed THEN "plain" ELSE IF accepted = NoKey THEN "none" ELSE accepted

Budget ==
  /\ Len(seen) + Len(found) <= spent
  /\ pc # "done" /\ pc # "try" => found = <<>>

Ended ==
  /\ pc # "done" => result = "none"
  /\ OpenIsReadable
  /\ RecoveredKeyIsUnique
  /\ GoodPasswordOpens

IndInv == TypeOK /\ KeyState /\ Budget /\ Ended

-----------------------------------------------------------------------------
LEMMA Typing ==
  ASSUME TypeOK
  PROVE  /\ env \in Surrounding
         /\ env.opens \subseteq Keys
         /\ env.password \in Keys \cup {NoKey}
         /\ env.cost \in Nat
         /\ env.members \subseteq Nat
         /\ env.files \in Seq(File)
BY SessionAssumption DEF TypeOK, Surrounding

\* The first of a nonempty sequence and the rest of it.
LEMMA HeadAndTail ==
  ASSUME NEW S, NEW s \in Seq(S), s # <<>>
  PROVE  Head(s) \in S /\ Tail(s) \in Seq(S) /\ Len(Tail(s)) = Len(s) - 1
BY HeadTailProperties

\* A prefix has the length asked for.
LEMMA PrefixOf ==
  ASSUME NEW S, NEW s \in Seq(S), NEW n \in 0..Len(s)
  PROVE  Prefix(s, n) \in Seq(S) /\ Len(Prefix(s, n)) = n
BY SubSeqProperties DEF Prefix

LEMMA AppendOne ==
  ASSUME NEW S, NEW s \in Seq(S), NEW e \in S
  PROVE  Append(s, e) \in Seq(S) /\ Len(Append(s, e)) = Len(s) + 1
BY AppendProperties

LEMMA NothingIsASeq == ASSUME NEW S PROVE <<>> \in Seq(S) /\ Len(<<>>) = 0
BY EmptySeq

\* What one check does to the budget and to the key.
LEMMA OneCheck ==
  ASSUME TypeOK, NEW k \in Keys, VerifyCandidate(k)
  PROVE  /\ left' \in 0..MaxValidation
         /\ paid' \subseteq Keys
         /\ accepted' \in Keys \cup {NoKey}
         /\ index' \in Keys \cup {"none", "plain"}
BY SessionAssumption DEF TypeOK, VerifyCandidate, Affordable, Verifies

-----------------------------------------------------------------------------
LEMMA InitInv == Init => IndInv
<1> SUFFICES ASSUME Init PROVE IndInv
  OBVIOUS
<1>1. env \in Surrounding /\ env.files \in Seq(File)
  BY SessionAssumption DEF Init, Surrounding
<1>2. TypeOK
  BY <1>1, SessionAssumption, NothingIsASeq DEF Init, TypeOK
<1>3. KeyState
  BY DEF Init, KeyState, Searching, Started
<1>4. Budget
  BY NothingIsASeq, SessionAssumption DEF Init, Budget
<1>5. Ended
  BY DEF Init, Ended, OpenIsReadable, RecoveredKeyIsUnique, GoodPasswordOpens
<1> QED
  BY <1>2, <1>3, <1>4, <1>5 DEF IndInv

-----------------------------------------------------------------------------
\* One lemma for each action.

LEMMA LocatePackInv == IndInv /\ LocatePack => IndInv'
<1> SUFFICES ASSUME IndInv, LocatePack PROVE IndInv'
  OBVIOUS
<1> USE DEF IndInv
<1>0. TypeOK /\ KeyState /\ Budget /\ Ended
  OBVIOUS
<1>1. TypeOK'
  BY <1>0 DEF TypeOK, LocatePack, End
<1>2. KeyState'
  BY <1>0 DEF LocatePack, End, KeyState, Searching, Started
<1>3. Budget'
  BY <1>0 DEF LocatePack, End, Budget
<1>4. Ended'
  BY <1>0 DEF LocatePack, End, KeyState, Ended, OpenIsReadable, RecoveredKeyIsUnique, GoodPasswordOpens
<1> QED
  BY <1>1, <1>2, <1>3, <1>4

LEMMA ReadPackInv == IndInv /\ ReadPack => IndInv'
<1> SUFFICES ASSUME IndInv, ReadPack PROVE IndInv'
  OBVIOUS
<1> USE DEF IndInv
<1>0. TypeOK /\ KeyState /\ Budget /\ Ended
  OBVIOUS
<1>1. TypeOK'
  BY <1>0, Typing DEF TypeOK, ReadPack, End, Smallest
<1>2. KeyState'
  BY <1>0 DEF ReadPack, End, KeyState, Searching, Started
<1>3. Budget'
  BY <1>0 DEF ReadPack, End, Budget
<1>4. Ended'
  BY <1>0 DEF ReadPack, End, KeyState, Searching, Started, Ended, OpenIsReadable, RecoveredKeyIsUnique, GoodPasswordOpens
<1> QED
  BY <1>1, <1>2, <1>3, <1>4

LEMMA TrySuppliedInv == IndInv /\ TrySupplied => IndInv'
<1> SUFFICES ASSUME IndInv, TrySupplied PROVE IndInv'
  OBVIOUS
<1> USE DEF IndInv
<1>0. TypeOK /\ KeyState /\ Budget /\ Ended
  OBVIOUS
<1>a. env.password \in Keys \cup {NoKey} /\ env.opens \subseteq Keys
  BY <1>0, Typing
<1>b. pc = "supplied" /\ index' \in Keys \cup {"none", "plain"}
  BY <1>0, <1>a, OneCheck DEF TrySupplied, TypeOK
<1>1. TypeOK'
  BY <1>0, <1>a, <1>b, OneCheck DEF TypeOK, TrySupplied, End
<1>2. KeyState'
  <2>1. CASE env.password = NoKey
    BY <1>0, <1>a, <2>1, SessionAssumption DEF TrySupplied, KeyState, Searching, Started
  <2>2. CASE env.password # NoKey /\ Verifies(env.password)
    BY <1>0, <1>a, <2>2, SessionAssumption
       DEF TrySupplied, End, VerifyCandidate, Verifies, Ambiguous, KeyState, Searching, Started
  <2>3. CASE env.password # NoKey /\ ~Verifies(env.password)
    BY <1>0, <1>a, <2>3, SessionAssumption
       DEF TypeOK, TrySupplied, VerifyCandidate, Verifies, Affordable, KeyState, Searching, Started
  <2> QED
    BY <2>1, <2>2, <2>3
<1>3. Budget'
  BY <1>0 DEF TrySupplied, End, Budget
<1>4. Ended'
  BY <1>0, <1>a, <1>b, SessionAssumption DEF TypeOK, TrySupplied, End, VerifyCandidate, Verifies, Affordable, Ambiguous, KeyState, Searching, Started, Ended, OpenIsReadable, RecoveredKeyIsUnique, GoodPasswordOpens
<1> QED
  BY <1>1, <1>2, <1>3, <1>4

LEMMA CandidatesDoneInv == IndInv /\ CandidatesDone => IndInv'
<1> SUFFICES ASSUME IndInv, CandidatesDone PROVE IndInv'
  OBVIOUS
<1> USE DEF IndInv
<1>0. TypeOK /\ KeyState /\ Budget /\ Ended
  OBVIOUS
<1>1. TypeOK'
  BY <1>0 DEF TypeOK, CandidatesDone
<1>2. KeyState'
  BY <1>0 DEF CandidatesDone, KeyState, Searching, Started
<1>3. Budget'
  BY <1>0 DEF CandidatesDone, Budget
<1>4. Ended'
  BY <1>0 DEF CandidatesDone, Ended, OpenIsReadable, RecoveredKeyIsUnique, GoodPasswordOpens
<1> QED
  BY <1>1, <1>2, <1>3, <1>4

LEMMA ScanDoneInv == IndInv /\ ScanDone => IndInv'
<1> SUFFICES ASSUME IndInv, ScanDone PROVE IndInv'
  OBVIOUS
<1> USE DEF IndInv
<1>0. TypeOK /\ KeyState /\ Budget /\ Ended
  OBVIOUS
<1>1. TypeOK'
  BY <1>0 DEF TypeOK, ScanDone, End
<1>2. KeyState'
  BY <1>0 DEF ScanDone, End, KeyState, Searching, Started
<1>3. Budget'
  BY <1>0 DEF ScanDone, End, Budget
<1>4. Ended'
  BY <1>0 DEF ScanDone, End, KeyState, Searching, Started, Ended, OpenIsReadable, RecoveredKeyIsUnique, GoodPasswordOpens
<1> QED
  BY <1>1, <1>2, <1>3, <1>4

LEMMA SourceFailsInv == IndInv /\ SourceFails => IndInv'
<1> SUFFICES ASSUME IndInv, SourceFails PROVE IndInv'
  OBVIOUS
<1> USE DEF IndInv
<1>0. TypeOK /\ KeyState /\ Budget /\ Ended
  OBVIOUS
<1>1. TypeOK'
  BY <1>0 DEF TypeOK, SourceFails, End
<1>2. KeyState'
  BY <1>0 DEF SourceFails, End, KeyState, Searching, Started
<1>3. Budget'
  BY <1>0 DEF SourceFails, End, Budget
<1>4. Ended'
  BY <1>0 DEF SourceFails, End, Ended, OpenIsReadable, RecoveredKeyIsUnique, GoodPasswordOpens
<1> QED
  BY <1>1, <1>2, <1>3, <1>4

LEMMA ScanExecutableInv == IndInv /\ ScanExecutable => IndInv'
<1> SUFFICES ASSUME IndInv, ScanExecutable PROVE IndInv'
  OBVIOUS
<1> USE DEF IndInv
<1>0. /\ TypeOK /\ KeyState /\ Budget /\ Ended
      /\ pc = "scan" /\ todo # <<>>
      /\ UNCHANGED <<env, source, index, charge, left, accepted, seen, paid, result>>
  BY DEF ScanExecutable
<1>a. Head(todo) \in File /\ Tail(todo) \in Seq(File)
  BY <1>0, HeadAndTail DEF TypeOK
<1>b. found = <<>>
  BY <1>0 DEF Budget
<1>1. CASE UNCHANGED <<executables, spent, found, pc>>
  <2>1. TypeOK'
    BY <1>0, <1>a, <1>1 DEF TypeOK, ScanExecutable
  <2>2. KeyState' /\ Ended'
    BY <1>0, <1>1
       DEF KeyState, Searching, Started, Ended, OpenIsReadable, RecoveredKeyIsUnique, GoodPasswordOpens
  <2>3. Budget'
    BY <1>0, <1>1 DEF Budget
  <2> QED
    BY <2>1, <2>2, <2>3
<1>2. CASE ~UNCHANGED <<executables, spent, found, pc>>
  <2>1. /\ executables < MaxExecutables /\ executables' = executables + 1
        /\ \E n \in 0..Len(Head(todo).keys) :
             /\ spent + n <= MaxRecovered
             /\ spent' = spent + n
             /\ \/ found' = Prefix(Head(todo).keys, n) /\ pc' = "try"
                \/ UNCHANGED <<found, pc>>
    BY <1>0, <1>2, SessionAssumption DEF ScanExecutable, TypeOK
  <2>2. PICK n \in 0..Len(Head(todo).keys) :
          /\ spent + n <= MaxRecovered
          /\ spent' = spent + n
          /\ \/ found' = Prefix(Head(todo).keys, n) /\ pc' = "try"
             \/ UNCHANGED <<found, pc>>
    BY <2>1
  <2>3. Head(todo).keys \in Seq(Keys) /\ n \in Nat
    BY <1>a DEF File
  <2>4. found' \in Seq(Keys) /\ Len(found') <= n /\ pc' \in Searching
    <3>1. CASE found' = Prefix(Head(todo).keys, n) /\ pc' = "try"
      BY <2>3, <3>1, PrefixOf DEF Searching
    <3>2. CASE UNCHANGED <<found, pc>>
      BY <1>0, <1>b, <2>3, <3>2, NothingIsASeq DEF Searching
    <3> QED
      BY <2>2, <3>1, <3>2
  <2>5. TypeOK'
    BY <1>0, <1>a, <2>1, <2>2, <2>3, <2>4, SessionAssumption DEF TypeOK, ScanExecutable, Searching
  <2>6. KeyState' /\ Ended'
    BY <1>0, <2>4
       DEF KeyState, Searching, Started, Ended, OpenIsReadable, RecoveredKeyIsUnique, GoodPasswordOpens
  <2>7. Budget'
    <3>1. Len(seen) <= spent /\ Len(seen) \in Nat /\ spent \in Nat
      BY <1>0, <1>b, NothingIsASeq DEF Budget, TypeOK
    <3>2. Len(seen') + Len(found') <= spent'
      <4>1. Len(found') \in Nat
        BY <2>4
      <4> QED
        BY <1>0, <2>2, <2>3, <2>4, <3>1, <4>1
    <3>3. pc' # "done" /\ pc' # "try" => found' = <<>>
      BY <1>b, <2>2
    <3> QED
      BY <3>2, <3>3 DEF Budget
  <2> QED
    BY <2>5, <2>6, <2>7
<1> QED
  BY <1>1, <1>2

LEMMA TryCandidateInv == IndInv /\ TryCandidate => IndInv'
<1> SUFFICES ASSUME IndInv, TryCandidate PROVE IndInv'
  OBVIOUS
<1> USE DEF IndInv
<1> DEFINE k == Head(found)
<1>0. /\ TypeOK /\ KeyState /\ Budget /\ Ended
      /\ pc = "try" /\ found # <<>> /\ found' = Tail(found)
      /\ UNCHANGED <<env, source, charge, executables, todo, spent>>
  BY DEF TryCandidate
<1>a. k \in Keys /\ found' \in Seq(Keys) /\ Len(found') = Len(found) - 1
  BY <1>0, HeadAndTail DEF TypeOK
<1>b. Len(found) \in Nat /\ Len(seen) \in Nat /\ spent \in Nat
  BY <1>0 DEF TypeOK
<1>1. CASE Met(k)
  <2>0. UNCHANGED <<seen, left, paid, accepted, index, pc, result>>
    BY <1>1 DEF TryCandidate
  <2>1. TypeOK'
    BY <1>0, <1>a, <2>0 DEF TypeOK
  <2>2. KeyState' /\ Ended'
    BY <1>0, <2>0
       DEF KeyState, Searching, Started, Ended, OpenIsReadable, RecoveredKeyIsUnique, GoodPasswordOpens
  <2>3. Budget'
    BY <1>0, <1>a, <1>b, <2>0 DEF Budget
  <2> QED
    BY <2>1, <2>2, <2>3
<1>2. CASE ~Met(k)
  <2>0. /\ seen' = Append(seen, k) /\ VerifyCandidate(k)
        /\ IF Ambiguous(k) THEN End("password_required") ELSE UNCHANGED <<pc, result>>
    BY <1>2 DEF TryCandidate
  <2> HIDE DEF k
  <2>a. seen' \in Seq(Keys) /\ Len(seen') = Len(seen) + 1
    BY <1>0, <1>a, <2>0, AppendOne DEF TypeOK
  <2>1. TypeOK'
    BY <1>0, <1>a, <2>0, <2>a, OneCheck DEF TypeOK, End
  <2>2. KeyState'
    <3>1. CASE Ambiguous(k)
      BY <1>0, <2>0, <3>1 DEF End, VerifyCandidate, KeyState, Searching, Started
    <3>2. CASE ~Ambiguous(k) /\ Verifies(k)
      <4>1. /\ UNCHANGED pc /\ accepted' = k /\ accepted \in {NoKey, k} /\ paid' = paid \cup {k}
            /\ index' = IF env.sealed THEN k ELSE index
            /\ k \in env.opens /\ NoKey \notin paid
        BY <1>0, <2>0, <3>2, SessionAssumption DEF TypeOK, VerifyCandidate, Verifies, Ambiguous
      <4> QED
        BY <1>0, <1>a, <4>1, SessionAssumption DEF KeyState, Searching, Started
    <3>3. CASE ~Verifies(k)
      <4>1. UNCHANGED <<pc, accepted, index>> /\ paid' \cap env.opens \subseteq paid \cap env.opens
        BY <2>0, <3>3 DEF VerifyCandidate, Verifies, Ambiguous
      <4>2. paid \subseteq paid'
        BY <2>0 DEF VerifyCandidate
      <4> QED
        BY <1>0, <4>1, <4>2 DEF KeyState, Searching, Started
    <3> QED
      BY <3>1, <3>2, <3>3
  <2>3. Budget'
    BY <1>0, <1>a, <1>b, <2>0, <2>a DEF End, Budget
  <2>4. Ended'
    BY <1>0, <2>0
       DEF End, KeyState, Searching, Ended, OpenIsReadable, RecoveredKeyIsUnique, GoodPasswordOpens
  <2> QED
    BY <2>1, <2>2, <2>3, <2>4
<1> QED
  BY <1>1, <1>2

-----------------------------------------------------------------------------
LEMMA StepInv == IndInv /\ [Next]_vars => IndInv'
<1> SUFFICES ASSUME IndInv, [Next]_vars PROVE IndInv'
  OBVIOUS
<1>1. CASE UNCHANGED vars
  BY <1>1
     DEF vars, IndInv, TypeOK, KeyState, Budget, Ended, OpenIsReadable, RecoveredKeyIsUnique,
         GoodPasswordOpens, Started, Searching
<1>2. CASE Next
  BY <1>2, LocatePackInv, ReadPackInv, TrySuppliedInv, ScanExecutableInv, TryCandidateInv,
     CandidatesDoneInv, ScanDoneInv, SourceFailsInv DEF Next, Step
<1> QED
  BY <1>1, <1>2

\* The strengthening holds in every state of a session.
THEOREM Invariance == Spec => []IndInv
BY InitInv, StepInv, PTL DEF Spec

\* Type correctness.
THEOREM TypeCorrect == Spec => []TypeOK
<1>1. IndInv => TypeOK
  BY DEF IndInv
<1> QED
  BY Invariance, <1>1, PTL

\* An open session has its directory, and a verified key when one is needed.
THEOREM OpenSessionsAreReadable == Spec => []OpenIsReadable
<1>1. IndInv => OpenIsReadable
  BY DEF IndInv, Ended
<1> QED
  BY Invariance, <1>1, PTL

\* A session never opens under one of two recovered keys that both verified.
THEOREM RecoveredKeysAreUnique == Spec => []RecoveredKeyIsUnique
<1>1. IndInv => RecoveredKeyIsUnique
  BY DEF IndInv, Ended
<1> QED
  BY Invariance, <1>1, PTL

-----------------------------------------------------------------------------
(***************************************************************************)
(* The second strengthening: what is left of the validation budget and     *)
(* what the keys in paid cost never exceed it together.  A key may be paid *)
(* for twice, as password and as candidate, which the inequality allows.   *)
(***************************************************************************)
Spending == IsFiniteSet(paid) /\ Cardinality(paid) * charge + left <= MaxValidation

LEMMA OneMore == ASSUME NEW n \in Nat, NEW m \in Nat PROVE (n + 1) * m = n * m + m
OBVIOUS

\* Natural numbers are closed under products.
LEMMA ProductIsNat == ASSUME NEW n \in Nat, NEW m \in Nat PROVE n * m \in Nat
OBVIOUS

\* One check: its price leaves the budget with the key.
LEMMA CheckSpends ==
  ASSUME TypeOK, Spending, NEW k \in Keys, VerifyCandidate(k), charge' = charge
  PROVE  Spending'
<1> DEFINE n == Cardinality(paid)
<1>1. n \in Nat /\ charge \in Nat /\ left \in Nat /\ MaxValidation \in Nat
  BY FS_CardinalityType, SessionAssumption DEF Spending, TypeOK
<1>2. CASE ~Affordable
  BY <1>2 DEF VerifyCandidate, Spending
<1>3. CASE Affordable
  <2>1. left' = left - charge /\ paid' = paid \cup {k} /\ charge <= left
    BY <1>3 DEF VerifyCandidate, Affordable
  <2>2. IsFiniteSet(paid') /\ (Cardinality(paid') = n \/ Cardinality(paid') = n + 1)
    BY <2>1, FS_AddElement DEF Spending
  <2>3. n * charge + left <= MaxValidation /\ n * charge \in Nat
    BY <1>1, ProductIsNat DEF Spending
  <2>4. (n + 1) * charge = n * charge + charge
    BY <1>1, OneMore
  <2> DEFINE p == n * charge
             q == (n + 1) * charge
  <2>5. Cardinality(paid') * charge \in {p, q}
    BY <2>2
  <2>6. p \in Nat /\ q = p + charge /\ p + left <= MaxValidation
    BY <2>3, <2>4
  <2> HIDE DEF p, q
  <2>7. Cardinality(paid') * charge + left' <= MaxValidation
    BY <1>1, <2>1, <2>5, <2>6
  <2> QED
    BY <2>2, <2>7 DEF Spending
<1> QED
  BY <1>2, <1>3

LEMMA SpendingStep == IndInv /\ Spending /\ [Next]_vars => Spending'
<1> SUFFICES ASSUME IndInv, Spending, [Next]_vars PROVE Spending'
  OBVIOUS
<1>0. TypeOK /\ KeyState
  BY DEF IndInv
<1>1. CASE UNCHANGED <<paid, charge, left>>
  BY <1>1 DEF Spending
<1>2. CASE ReadPack
  <2>1. paid = {} /\ paid' = {} /\ left' = left /\ charge' \in Nat
    BY <1>0, <1>2, Typing DEF ReadPack, KeyState, TypeOK, Smallest
  <2>2. Cardinality(paid') * charge' = 0
    BY <2>1, FS_EmptySet
  <2> QED
    BY <1>0, <2>1, <2>2, FS_EmptySet DEF Spending, TypeOK
<1>3. CASE TrySupplied
  <2>1. charge' = charge
    BY <1>3 DEF TrySupplied
  <2>2. CASE env.password = NoKey
    BY <1>3, <2>1, <2>2 DEF TrySupplied, Spending
  <2>3. CASE env.password # NoKey
    BY <1>0, <1>3, <2>1, <2>3, Typing, CheckSpends DEF TrySupplied
  <2> QED
    BY <2>2, <2>3
<1>4. CASE TryCandidate
  <2>1. charge' = charge /\ Head(found) \in Keys
    BY <1>0, <1>4, HeadAndTail DEF TryCandidate, TypeOK
  <2>2. CASE Met(Head(found))
    BY <1>4, <2>1, <2>2 DEF TryCandidate, Spending
  <2>3. CASE ~Met(Head(found))
    BY <1>0, <1>4, <2>1, <2>3, CheckSpends DEF TryCandidate
  <2> QED
    BY <2>2, <2>3
<1> QED
  BY <1>1, <1>2, <1>3, <1>4
     DEF vars, Next, Step, LocatePack, ScanExecutable, CandidatesDone, ScanDone, SourceFails

LEMMA WithinReserve == IndInv => SeenFitsReserve
<1> SUFFICES ASSUME IndInv PROVE Len(seen) <= MaxRecovered
  BY DEF SeenFitsReserve
<1>1. Len(seen) \in Nat /\ Len(found) \in Nat /\ spent \in 0..MaxRecovered
  BY DEF IndInv, TypeOK
<1> QED
  BY <1>1, SessionAssumption DEF IndInv, Budget

LEMMA WithinBudget == IndInv /\ Spending => ValidationIsBounded
<1> SUFFICES ASSUME IndInv, Spending PROVE Cardinality(paid) * charge <= MaxValidation
  BY DEF ValidationIsBounded
<1>1. left \in Nat /\ MaxValidation \in Nat /\ Cardinality(paid) \in Nat /\ charge \in Nat
  BY FS_CardinalityType, SessionAssumption DEF IndInv, TypeOK, Spending
<1> DEFINE p == Cardinality(paid) * charge
<1>2. p \in Nat /\ p + left <= MaxValidation
  BY <1>1, ProductIsNat DEF Spending
<1> HIDE DEF p
<1>3. p <= MaxValidation
  BY <1>1, <1>2
<1> QED
  BY <1>3 DEF p

(***************************************************************************)
(* Verifications cost no more than the budget in total, and the storage    *)
(* reserved for candidate keys never has to grow, over all executables.    *)
(***************************************************************************)
THEOREM BudgetsAlwaysHold == Spec => []BudgetsHold
<1>1. Init => Spending
  <2> SUFFICES ASSUME Init PROVE Spending
    OBVIOUS
  <2>1. paid = {} /\ charge = 0 /\ left = MaxValidation
    BY DEF Init
  <2> QED
    BY <2>1, FS_EmptySet, SessionAssumption DEF Spending
<1>2. IndInv /\ Spending /\ [Next]_vars => Spending'
  BY SpendingStep
<1>3. IndInv /\ Spending => BudgetsHold
  BY WithinReserve, WithinBudget DEF BudgetsHold
<1> QED
  BY <1>1, <1>2, <1>3, Invariance, PTL DEF Spec

\* A good password is refused only when the evidence exceeds the budget.
THEOREM GoodPasswordsOpen == Spec => []GoodPasswordOpens
<1>1. IndInv => GoodPasswordOpens
  BY DEF IndInv, Ended
<1> QED
  BY Invariance, <1>1, PTL
-----------------------------------------------------------------------------
(***************************************************************************)
(* The safety half of OpeningEnds: what is left of an opening is a number  *)
(* every step lowers, the failing ones included, so an opening is over     *)
(* after at most 6 + 2 * Len(env.files) + MaxRecovered steps.  A candidate *)
(* is paid for when the scan that found it charges the recovery budget,    *)
(* hence a scan that hands on n candidates leaves no more to do.           *)
(***************************************************************************)
Stages == [locate |-> 6, sidecar |-> 5, index |-> 4, supplied |-> 3, try |-> 2, scan |-> 1, done |-> 0]

OpeningMeasure == Stages[pc] + 2 * Len(todo) + (MaxRecovered - spent) + Len(found)

OpeningShrinks == [][OpeningMeasure' < OpeningMeasure]_vars

\* The stages by name.
LEMMA StageNumbers ==
  /\ Stages["locate"] = 6 /\ Stages["sidecar"] = 5 /\ Stages["index"] = 4
  /\ Stages["supplied"] = 3 /\ Stages["try"] = 2 /\ Stages["scan"] = 1 /\ Stages["done"] = 0
BY DEF Stages

\* The measure counts steps.
LEMMA MeasureCounts == IndInv => OpeningMeasure \in Nat
<1> SUFFICES ASSUME IndInv PROVE OpeningMeasure \in Nat
  OBVIOUS
<1>1. Stages[pc] \in Nat
  BY StageNumbers DEF IndInv, TypeOK
<1>2. Len(todo) \in Nat /\ Len(found) \in Nat /\ MaxRecovered - spent \in Nat
  BY SessionAssumption DEF IndInv, TypeOK
<1> QED
  BY <1>1, <1>2 DEF OpeningMeasure

\* A step that only moves the constructor to a later stage.
LEMMA LaterStage ==
  ASSUME IndInv, IndInv', UNCHANGED <<todo, spent, found>>, Stages[pc'] < Stages[pc]
  PROVE  OpeningMeasure' < OpeningMeasure
<1>0. /\ pc \in {"locate", "sidecar", "index", "supplied", "scan", "try", "done"}
      /\ pc' \in {"locate", "sidecar", "index", "supplied", "scan", "try", "done"}
  BY DEF IndInv, TypeOK
<1>1. Stages[pc] \in Nat /\ Stages[pc'] \in Nat
  BY <1>0, StageNumbers
<1>2. Len(todo) \in Nat /\ Len(found) \in Nat /\ MaxRecovered - spent \in Nat
  BY SessionAssumption DEF IndInv, TypeOK
<1>3. OpeningMeasure' = Stages[pc'] + 2 * Len(todo) + (MaxRecovered - spent) + Len(found)
  BY DEF OpeningMeasure
<1> DEFINE s == Stages[pc]
           t == Stages[pc']
           rest == 2 * Len(todo)
           spare == MaxRecovered - spent
           more == Len(found)
<1>4. s \in Nat /\ t \in Nat /\ t < s /\ rest \in Nat /\ spare \in Nat /\ more \in Nat
  BY <1>1, <1>2
<1>5. t + rest + spare + more < s + rest + spare + more
  <2> HIDE DEF s, t, rest, spare, more
  <2> QED
    BY <1>4
<1> QED
  BY <1>3, <1>5 DEF OpeningMeasure

\* Every step of the constructor leaves less of it.
LEMMA StepShrinks == IndInv /\ Next => OpeningMeasure' < OpeningMeasure
<1> SUFFICES ASSUME IndInv, Next PROVE OpeningMeasure' < OpeningMeasure
  OBVIOUS
<1>a. IndInv'
  BY StepInv
<1>b. /\ Len(todo) \in Nat /\ todo \in Seq(File) /\ found \in Seq(Keys) /\ Len(found) \in Nat
      /\ spent \in Nat /\ MaxRecovered \in Nat
  BY SessionAssumption DEF IndInv, TypeOK
<1>1. CASE LocatePack
  <2>1. UNCHANGED <<todo, spent, found>> /\ Stages[pc'] < Stages[pc]
    BY <1>1, StageNumbers DEF LocatePack, End
  <2> QED
    BY <1>a, <2>1, LaterStage
<1>2. CASE ReadPack
  <2>1. UNCHANGED <<todo, spent, found>> /\ Stages[pc'] < Stages[pc]
    BY <1>2, StageNumbers DEF ReadPack, End
  <2> QED
    BY <1>a, <2>1, LaterStage
<1>3. CASE TrySupplied
  <2>1. UNCHANGED <<todo, spent, found>> /\ Stages[pc'] < Stages[pc]
    BY <1>3, StageNumbers DEF TrySupplied, End
  <2> QED
    BY <1>a, <2>1, LaterStage
<1>4. CASE CandidatesDone \/ ScanDone
  <2>1. UNCHANGED <<todo, spent, found>> /\ Stages[pc'] < Stages[pc]
    BY <1>4, StageNumbers DEF CandidatesDone, ScanDone, End
  <2> QED
    BY <1>a, <2>1, LaterStage
<1>5. CASE SourceFails
  <2>1. UNCHANGED <<todo, spent, found>> /\ Stages[pc'] < Stages[pc]
    BY <1>5, StageNumbers DEF SourceFails, End
  <2> QED
    BY <1>a, <2>1, LaterStage
<1>6. CASE ScanExecutable
  <2>1. pc = "scan" /\ todo # <<>> /\ todo' = Tail(todo) /\ found = <<>> /\ Len(found) = 0
    BY <1>6, NothingIsASeq DEF ScanExecutable, IndInv, Budget
  <2>2. Len(todo') = Len(todo) - 1
    BY <1>b, <2>1, HeadAndTail
  <2>3. PICK n \in Nat : spent' = spent + n /\ Len(found') <= n /\ pc' \in {"scan", "try"}
    <3>1. CASE UNCHANGED <<executables, spent, found, pc>>
      <4>1. spent' = spent + 0 /\ Len(found') <= 0 /\ pc' \in {"scan", "try"}
        BY <1>b, <2>1, <3>1
      <4> QED
        BY <4>1
    <3>2. CASE ~UNCHANGED <<executables, spent, found, pc>>
      <4>1. PICK n \in 0..Len(Head(todo).keys) :
              /\ spent' = spent + n
              /\ \/ found' = Prefix(Head(todo).keys, n) /\ pc' = "try"
                 \/ UNCHANGED <<found, pc>>
        BY <1>6, <3>2 DEF ScanExecutable
      <4>0. Head(todo) \in File
        BY <1>b, <2>1, HeadAndTail
      <4>2. Head(todo).keys \in Seq(Keys)
        BY <4>0 DEF File
      <4>3. n \in Nat
        BY <4>2
      <4>4. Len(found') <= n /\ pc' \in {"scan", "try"}
        BY <2>1, <4>1, <4>2, <4>3, PrefixOf
      <4> QED
        BY <4>1, <4>3, <4>4
    <3> QED
      BY <3>1, <3>2
  <2>4. Stages[pc'] <= 2 /\ Stages[pc'] \in Nat /\ Stages[pc] = 1
    BY <2>1, <2>3, StageNumbers
  <2>5. Len(found') \in Nat
    BY <1>a DEF IndInv, TypeOK
  <2> DEFINE t == Stages[pc']
             rest == Len(todo)
             more == Len(found')
  <2>6. t + 2 * (rest - 1) + (MaxRecovered - (spent + n)) + more < 1 + 2 * rest + (MaxRecovered - spent) + 0
    <3>1. t \in Nat /\ t <= 2 /\ rest \in Nat /\ more \in Nat /\ more <= n /\ n \in Nat
      BY <1>b, <2>3, <2>4, <2>5
    <3> HIDE DEF t, rest, more
    <3> QED
      BY ONLY <1>b, <3>1
  <2> QED
    BY <2>1, <2>2, <2>3, <2>4, <2>6 DEF OpeningMeasure
<1>7. CASE TryCandidate
  <2>1. /\ pc = "try" /\ found # <<>> /\ found' = Tail(found) /\ UNCHANGED <<todo, spent>>
        /\ pc' \in {"try", "done"}
    BY <1>7 DEF TryCandidate, End
  <2>2. Len(found') = Len(found) - 1
    BY <1>b, <2>1, HeadAndTail
  <2>3. Stages[pc'] <= Stages[pc] /\ Stages[pc'] \in Nat /\ Stages[pc] \in Nat
    BY <2>1, StageNumbers
  <2> DEFINE s == Stages[pc]
             t == Stages[pc']
             rest == 2 * Len(todo)
             more == Len(found)
  <2>4. t + rest + (MaxRecovered - spent) + (more - 1) < s + rest + (MaxRecovered - spent) + more
    <3>1. t \in Nat /\ s \in Nat /\ t <= s /\ rest \in Nat /\ more \in Nat
      BY <1>b, <2>3
    <3> HIDE DEF s, t, rest, more
    <3> QED
      BY ONLY <1>b, <3>1
  <2> QED
    BY <2>1, <2>2, <2>4 DEF OpeningMeasure
<1> QED
  BY <1>1, <1>2, <1>3, <1>4, <1>5, <1>6, <1>7 DEF Next, Step

\* An opening gets shorter with every step, whatever the executables beside the
\* pack contain and wherever the source fails: neither a skipped file nor an
\* executable without candidates, nor one that repeats them, keeps it going.
THEOREM OpeningsShrink == Spec => [](OpeningMeasure \in Nat) /\ OpeningShrinks
<1>1. IndInv /\ [Next]_vars => [OpeningMeasure' < OpeningMeasure]_vars
  BY StepShrinks
<1> QED
  BY <1>1, MeasureCounts, Invariance, PTL DEF Spec, OpeningShrinks

-----------------------------------------------------------------------------
(***************************************************************************)
(* KeyRecovery.  What a window refers to is looked up later, under a       *)
(* budget other images have drawn on: an array waits with stored addresses *)
(* only, a reference is one address, and the sections they are looked up   *)
(* in are those of the image being searched.                               *)
(***************************************************************************)
IsListed(s) == s \in Seq(ToSet(s))
WindowType == [section : 1..Len(sections), at : Nat \ {0}, outer : BOOLEAN]
WantedType == [kind : {"mixed", "constant", "reference"}, at : Seq(Int)]

RecTypes ==
  /\ Image \in Executables
  /\ recovering \in {"header", "sections", "search", "globals", "done"}
  /\ IsListed(sections) /\ ToSet(sections) \subseteq ToSet(Image.sections)
  /\ Len(sections) <= Len(Image.sections)
  /\ here \in Nat /\ here >= 1
  /\ windows \in Seq(WindowType) /\ wanted \in Seq(WantedType)
  /\ IsListed(candidates)

\* Nothing is waiting before the search, and sections lie in the file.
Prepared ==
  /\ recovering \in {"header", "sections"} => windows = <<>> /\ wanted = <<>> /\ candidates = <<>>
  /\ \A i \in 1..Len(sections) : ~ Outside(sections[i])

\* What waits can be looked up as it is.
Ready(next) ==
  IF next.kind = "mixed" THEN \A i \in 1..Len(next.at) : Stored(next.at[i]) ELSE Len(next.at) = 1
Waiting == \A i \in 1..Len(wanted) : Ready(wanted[i])

Bounded ==
  /\ {scannedBytes, instructions, admitted, yielded} \subseteq Nat
  /\ scannedBytes <= MaxScanned /\ instructions <= MaxInstructions
  /\ yielded + Len(candidates) <= admitted /\ admitted <= MaxKeys
  /\ \A i, j \in 1..Len(candidates) : candidates[i].key = candidates[j].key => i = j

Found(from) == from \in SUBSET Int /\ \A a \in from : Stored(a)
Backed == \A i \in 1..Len(candidates) : Found(candidates[i].from)

RecInv == RecTypes /\ Prepared /\ Waiting /\ Bounded /\ Backed

\* Constants, by name.
LEMMA RecoveryConstants ==
  /\ KeyBytes \in Nat /\ KeyBytes > 0 /\ PointerBytes \in Nat /\ HeaderCost \in Nat /\ Before \in Nat
  /\ MaxScanned \in Nat /\ MaxInstructions \in Nat /\ MaxCandidates \in Nat /\ MaxWindow \in Nat
  /\ MaxKeys \in Nat
BY RecoveryAssumption

\* An image, its sections and its instructions, as the parser and the decoder hand them out.
LEMMA SectionFacts ==
  ASSUME NEW image \in Executables, NEW s \in ToSet(image.sections)
  PROVE  /\ s.address \in Nat /\ s.extent \in Nat /\ s.rawSize \in Nat /\ s.rawOffset \in Nat
         /\ IsListed(s.code)
         /\ \A a \in s.address..(s.address + s.rawSize) : PointerAt(a) \in Int
BY RecoveryAssumption DEF IsListed

\* What the decoder says of an instruction is a list of addresses.
LEMMA CodeFacts ==
  ASSUME NEW image \in Executables, NEW s \in ToSet(image.sections), NEW i \in ToSet(s.code)
  PROVE  i.addresses \in Seq(Int) /\ i.displacements \in Seq(Int) /\ i.calls \in Seq(Int)
BY RecoveryAssumption

\* The sections of an image are a sequence.
LEMMA ImageFacts ==
  ASSUME NEW image \in Executables
  PROVE  image.bytes \in Nat /\ image.base \in Int /\ IsListed(image.sections)
BY RecoveryAssumption DEF IsListed

\* A sequence that lists its elements, and one element more.
LEMMA ListedFacts ==
  ASSUME NEW s, IsListed(s)
  PROVE  /\ Len(s) \in Nat /\ DOMAIN s = 1..Len(s)
         /\ \A i \in 1..Len(s) : s[i] \in ToSet(s)
         /\ \A x \in ToSet(s) : \E i \in 1..Len(s) : x = s[i]
<1>1. DOMAIN s = 1..Len(s) /\ Len(s) \in Nat
  BY DEF IsListed
<1>. QED BY <1>1 DEF ToSet

\* A sequence over a set lists some of that set.
LEMMA ListedIn ==
  ASSUME NEW T, NEW s \in Seq(T)
  PROVE  IsListed(s) /\ ToSet(s) \subseteq T
<1>1. Len(s) \in Nat /\ DOMAIN s = 1..Len(s) /\ s = [i \in 1..Len(s) |-> s[i]]
      /\ \A i \in 1..Len(s) : s[i] \in T
  OBVIOUS
<1>2. \A i \in 1..Len(s) : s[i] \in ToSet(s)
  BY <1>1 DEF ToSet
<1>3. s \in [1..Len(s) -> ToSet(s)]
  BY <1>1, <1>2
<1>4. s \in Seq(ToSet(s))
  BY <1>1, <1>3
<1>. QED BY <1>1, <1>4 DEF IsListed, ToSet

\* Appending to a list.
LEMMA ListedAppended ==
  ASSUME NEW s, IsListed(s), NEW x
  PROVE  /\ IsListed(Append(s, x)) /\ Len(Append(s, x)) = Len(s) + 1
         /\ \A i \in 1..Len(s) : Append(s, x)[i] = s[i]
         /\ Append(s, x)[Len(s) + 1] = x
         /\ ToSet(Append(s, x)) \subseteq ToSet(s) \cup {x}
<1>. DEFINE T == ToSet(s) \cup {x}
<1>1. s \in Seq(T) /\ x \in T
  <2>1. ToSet(s) \subseteq T /\ s \in Seq(ToSet(s))
    BY DEF IsListed
  <2>. QED BY <2>1
<1>. HIDE DEF T
<1>2. Append(s, x) \in Seq(T) /\ Len(Append(s, x)) = Len(s) + 1
  BY <1>1
<1>3. IsListed(Append(s, x)) /\ ToSet(Append(s, x)) \subseteq T
  BY <1>2, ListedIn
<1>4. (\A i \in 1..Len(s) : Append(s, x)[i] = s[i]) /\ Append(s, x)[Len(s) + 1] = x
  BY <1>1
<1>. QED BY <1>2, <1>3, <1>4 DEF T

-----------------------------------------------------------------------------
(* Distinct: a fold from the left over the indices, which a function chosen *)
(* for its recursion over sets of them computes.                           *)
DistinctStep(h, s, S, A) ==
  IF A = {} THEN <<>>
  ELSE LET x == s[Max(A)]
           kept == h[A \ {Max(A)}]
       IN  IF x \in S \ ToSet(kept) THEN Append(kept, x) ELSE kept
Distincts(g, s, S) == g = [A \in SUBSET (DOMAIN s) |-> DistinctStep(g, s, S, A)]

\* Distinct by the definition of a fold: the last value of a chosen function.
LEMMA DistinctIsChosen ==
  ASSUME NEW s, NEW S
  PROVE  Distinct(s, S) = (CHOOSE g : Distincts(g, s, S))[DOMAIN s]
BY DEF Distinct, FoldLeft, MapThenFoldSet, Distincts, DistinctStep

\* The indices below the greatest of a set are fewer.
LEMMA FewerIndices ==
  ASSUME NEW n \in Nat, NEW A \in SUBSET (1..n)
  PROVE  /\ IsFiniteSet(A) /\ Cardinality(A) \in Nat
         /\ A # {} => /\ Max(A) \in A /\ A \ {Max(A)} \in SUBSET (1..n)
                      /\ Cardinality(A \ {Max(A)}) < Cardinality(A)
                      /\ Cardinality(A \ {Max(A)}) \in Nat
<1>1. IsFiniteSet(A) /\ Cardinality(A) \in Nat
  <2>1. IsFiniteSet(1..n)
    BY FS_Interval
  <2>. QED BY <2>1, FS_Subset, FS_CardinalityType
<1>2. ASSUME A # {}
      PROVE  /\ Max(A) \in A /\ A \ {Max(A)} \in SUBSET (1..n)
             /\ Cardinality(A \ {Max(A)}) = Cardinality(A) - 1
  <2>1. Max(A) \in A
    BY <1>2, GreatestIndex
  <2>2. Cardinality(A \ {Max(A)}) = Cardinality(A) - 1
    BY <1>1, <2>1, FS_RemoveElement
  <2>. QED BY <2>1, <2>2
<1>3. IsFiniteSet(A \ {Max(A)}) /\ Cardinality(A \ {Max(A)}) \in Nat
  BY <1>1, FS_Subset, FS_CardinalityType
<1>. QED BY <1>1, <1>2, <1>3

\* A function that such a fold chooses exists, whatever the list.
LEMMA DistinctExists ==
  ASSUME NEW s, IsListed(s), NEW S
  PROVE  \E g : Distincts(g, s, S)
<1>. DEFINE D == DOMAIN s
<1>0. PICK l \in Nat : D = 1..l
  BY ListedFacts
<1>. HIDE DEF D
<1>. DEFINE UpTo(h, n) == \A A \in SUBSET D : Cardinality(A) <= n => h[A] = DistinctStep(h, s, S, A)
            Bad == {n \in Nat : ~ \E h : UpTo(h, n)}
<1>1. Bad = {}
  <2>. SUFFICES ASSUME Bad # {} PROVE FALSE
    OBVIOUS
  <2>1. PICK n \in Bad : \A m \in Bad : n <= m
    <3>1. Bad \in SUBSET Nat
      OBVIOUS
    <3>. HIDE DEF Bad
    <3>. QED BY <3>1, LeastElement
  <2>2. n \in Nat /\ ~ \E h : UpTo(h, n)
    OBVIOUS
  <2>3. ASSUME NEW A \in SUBSET D
        PROVE  /\ IsFiniteSet(A) /\ Cardinality(A) \in Nat
               /\ A # {} => A \ {Max(A)} \in SUBSET D /\ Cardinality(A \ {Max(A)}) < Cardinality(A)
                            /\ Cardinality(A \ {Max(A)}) \in Nat
    BY <1>0, FewerIndices
  <2>4. CASE n = 0
    <3>. DEFINE h == [A \in SUBSET D |-> <<>>]
    <3>1. ASSUME NEW A \in SUBSET D, Cardinality(A) <= 0 PROVE h[A] = DistinctStep(h, s, S, A)
      <4>1. A = {}
        <5>1. IsFiniteSet(A) /\ Cardinality(A) \in Nat
          BY <2>3
        <5>2. Cardinality(A) = 0
          BY <5>1, <3>1
        <5>. QED BY <5>1, <5>2, FS_EmptySet
      <4>. QED BY <4>1 DEF DistinctStep
    <3>2. UpTo(h, 0)
      BY <3>1
    <3>. QED BY <3>2, <2>2, <2>4
  <2>5. CASE n # 0
    <3>1. n - 1 \in Nat /\ n - 1 \notin Bad
      <4>1. n - 1 \in Nat /\ ~ (n <= n - 1)
        BY <2>2, <2>5
      <4>. HIDE DEF Bad
      <4>. QED BY <4>1, <2>1
    <3>2. PICK h : UpTo(h, n - 1)
      BY <3>1
    <3>. DEFINE k == [A \in SUBSET D |-> DistinctStep(h, s, S, A)]
    <3>3. ASSUME NEW A \in SUBSET D, Cardinality(A) <= n PROVE k[A] = DistinctStep(k, s, S, A)
      <4>1. CASE A = {}
        BY <4>1 DEF DistinctStep
      <4>2. CASE A # {}
        <5>1. A \ {Max(A)} \in SUBSET D /\ Cardinality(A \ {Max(A)}) <= n - 1
          BY <2>2, <2>3, <3>3, <4>2
        <5>2. h[A \ {Max(A)}] = k[A \ {Max(A)}]
          BY <5>1, <3>2
        <5>3. k[A] = DistinctStep(h, s, S, A)
          OBVIOUS
        <5>. QED BY <5>2, <5>3, <4>2 DEF DistinctStep
      <4>. QED BY <4>1, <4>2
    <3>4. UpTo(k, n)
      BY <3>3
    <3>. QED BY <3>4, <2>2
  <2>. QED BY <2>4, <2>5
<1>2. IsFiniteSet(D) /\ Cardinality(D) \in Nat
  BY <1>0, FewerIndices
<1>3. PICK h : UpTo(h, Cardinality(D))
  BY <1>1, <1>2
<1>. DEFINE g == [A \in SUBSET D |-> h[A]]
<1>4. ASSUME NEW A \in SUBSET D PROVE g[A] = DistinctStep(g, s, S, A)
  <2>1. h[A] = DistinctStep(h, s, S, A)
    BY <1>2, <1>3, FS_Subset, FS_CardinalityType
  <2>2. A \ {Max(A)} \in SUBSET D
    OBVIOUS
  <2>. QED BY <2>1, <2>2 DEF DistinctStep
<1>5. g = [A \in SUBSET D |-> DistinctStep(g, s, S, A)]
  BY <1>4
<1>. QED BY <1>5 DEF Distincts, D

\* What is distinct of S in a sequence is a sequence of elements of both.
LEMMA DistinctIsTyped ==
  ASSUME NEW T, NEW s \in Seq(T), NEW S
  PROVE  Distinct(s, S) \in Seq(T \cap S)
<1>1. IsListed(s)
  BY ListedIn
<1>2. PICK l \in Nat : DOMAIN s = 1..l /\ \A i \in 1..l : s[i] \in T
  OBVIOUS
<1>3. PICK g : Distincts(g, s, S) /\ Distinct(s, S) = g[DOMAIN s]
  BY <1>1, DistinctExists, DistinctIsChosen
<1>. DEFINE Bad == {Cardinality(A) : A \in {B \in SUBSET (1..l) : g[B] \notin Seq(T \cap S)}}
<1>4. Bad = {}
  <2>. SUFFICES ASSUME Bad # {} PROVE FALSE
    OBVIOUS
  <2>1. PICK n \in Bad : \A m \in Bad : n <= m
    <3>1. Bad \in SUBSET Nat
      BY FewerIndices
    <3>. HIDE DEF Bad
    <3>. QED BY <3>1, LeastElement
  <2>2. PICK A \in SUBSET (1..l) : n = Cardinality(A) /\ g[A] \notin Seq(T \cap S)
    OBVIOUS
  <2>3. g[A] = DistinctStep(g, s, S, A)
    BY <1>2, <1>3 DEF Distincts
  <2>4. A # {}
    BY <2>2, <2>3 DEF DistinctStep
  <2>5. /\ Max(A) \in A /\ A \ {Max(A)} \in SUBSET (1..l)
        /\ Cardinality(A \ {Max(A)}) < Cardinality(A) /\ Cardinality(A) \in Nat
        /\ Cardinality(A \ {Max(A)}) \in Nat
    BY <2>4, FewerIndices
  <2>6. Cardinality(A \ {Max(A)}) \notin Bad
    <3>1. ~ (n <= Cardinality(A \ {Max(A)}))
      BY <2>2, <2>5
    <3>. HIDE DEF Bad
    <3>. QED BY <3>1, <2>1
  <2>7. PICK kept, x : kept = g[A \ {Max(A)}] /\ x = s[Max(A)]
    OBVIOUS
  <2>8. kept \in Seq(T \cap S) /\ x \in T
    BY <1>2, <2>5, <2>6, <2>7
  <2>9. g[A] = (IF x \in S \ ToSet(kept) THEN Append(kept, x) ELSE kept)
    BY <2>3, <2>4, <2>7 DEF DistinctStep
  <2>10. CASE x \in S \ ToSet(kept)
    <3>1. x \in T \cap S
      BY <2>8, <2>10
    <3>2. Append(kept, x) \in Seq(T \cap S)
      BY <2>8, <3>1
    <3>. QED BY <2>2, <2>9, <2>10, <3>2
  <2>. QED BY <2>2, <2>8, <2>9, <2>10
<1>. QED BY <1>2, <1>3, <1>4

-----------------------------------------------------------------------------
\* A prefix read from stored keys stays inside the budget: the quotient is rounded down.
LEMMA PayableIsPaid ==
  ASSUME NEW x \in Nat, NEW k \in Nat, k > 0, NEW p \in Nat, p <= x \div k
  PROVE  k * p \in Nat /\ k * p <= x
<1>1. PICK q \in Nat, r \in Nat : x = k * q + r /\ q = x \div k
  <2>. DEFINE q == x \div k
              r == x % k
  <2>1. q \in Nat /\ r \in Nat /\ x = k * q + r
    OBVIOUS
  <2>. QED BY <2>1
<1>2. PICK d \in Nat : q = p + d
  <2>1. q - p \in Nat
    BY <1>1
  <2>. QED BY <2>1
<1>3. k * q = k * p + k * d
  BY <1>2
<1>4. k * p \in Nat /\ k * d \in Nat /\ k * q \in Nat
  OBVIOUS
<1>. QED BY <1>1, <1>3, <1>4

\* The lesser of two natural numbers is one of them.
LEMMA LesserOf ==
  ASSUME NEW a \in Nat, NEW b \in Nat
  PROVE  Min({a, b}) \in Nat /\ Min({a, b}) <= a /\ Min({a, b}) <= b /\ Min({a, b}) \in {a, b}
BY MinOfTwo

\* A quotient of natural numbers is one.
LEMMA QuotientIsNat ==
  ASSUME NEW x \in Nat, NEW k \in Nat, k > 0
  PROVE  x \div k \in Nat
OBVIOUS

\* A section that was parsed.
LEMMA ParsedSection ==
  ASSUME RecTypes, NEW i \in 1..Len(sections)
  PROVE  /\ sections[i] \in ToSet(Image.sections) /\ Image \in Executables
         /\ sections[i].address \in Nat /\ sections[i].extent \in Nat
         /\ sections[i].rawSize \in Nat /\ sections[i].rawOffset \in Nat
         /\ IsListed(sections[i].code) /\ Image.bytes \in Nat
         /\ \A a \in sections[i].address..(sections[i].address + sections[i].rawSize) : PointerAt(a) \in Int
         /\ \A c \in ToSet(sections[i].code) :
              c.addresses \in Seq(Int) /\ c.displacements \in Seq(Int) /\ c.calls \in Seq(Int)
<1>1. PICK s, image : s = sections[i] /\ image = Image
  OBVIOUS
<1>2. image \in Executables /\ s \in ToSet(image.sections)
  <2>1. sections[i] \in ToSet(sections)
    BY ListedFacts DEF RecTypes
  <2>. QED BY <2>1, <1>1 DEF RecTypes
<1>3. /\ s.address \in Nat /\ s.extent \in Nat /\ s.rawSize \in Nat /\ s.rawOffset \in Nat
      /\ IsListed(s.code) /\ \A a \in s.address..(s.address + s.rawSize) : PointerAt(a) \in Int
  BY <1>2, SectionFacts
<1>4. \A c \in ToSet(s.code) : c.addresses \in Seq(Int) /\ c.displacements \in Seq(Int) /\ c.calls \in Seq(Int)
  BY <1>2, CodeFacts
<1>5. image.bytes \in Nat
  BY <1>2, ImageFacts
<1>. QED BY <1>1, <1>2, <1>3, <1>4, <1>5

\* What a sequence is.
LEMMA SequenceFacts ==
  ASSUME NEW T, NEW s \in Seq(T)
  PROVE  DOMAIN s = 1..Len(s) /\ Len(s) \in Nat /\ \A i \in 1..Len(s) : s[i] \in T
OBVIOUS

\* A list of one.
LEMMA SingleIs ==
  ASSUME NEW T, NEW x \in T
  PROVE  <<x>> \in Seq(T) /\ Len(<<x>>) = 1 /\ <<x>>[1] = x
OBVIOUS

\* Two more at the front of a list.
LEMMA TwoMore ==
  ASSUME NEW T, NEW t \in Seq(T), NEW a, NEW b
  PROVE  /\ Len(<<a, b>> \o t) = Len(t) + 2 /\ Len(t) \in Nat
         /\ a \in T /\ b \in T => <<a, b>> \o t \in Seq(T)
<1>1. <<a, b>> \in Seq({a, b} \cup T) /\ t \in Seq({a, b} \cup T) /\ Len(<<a, b>>) = 2
  <2>1. <<a, b>> \in Seq({a, b} \cup T) /\ Len(<<a, b>>) = 2
    OBVIOUS
  <2>2. T \subseteq {a, b} \cup T
    OBVIOUS
  <2>. QED BY <2>1, <2>2
<1>2. a \in T /\ b \in T => {a, b} \cup T = T
  OBVIOUS
<1>3. PICK S : S = {a, b} \cup T
  OBVIOUS
<1>4. <<a, b>> \o t \in Seq(S) /\ Len(<<a, b>> \o t) = Len(t) + 2
  BY <1>1, <1>3, JoinedIs
<1>. QED BY <1>2, <1>3, <1>4

\* A function on 1..n is a sequence.
LEMMA MadeOf ==
  ASSUME NEW T, NEW n \in Nat, NEW w \in [1..n -> T]
  PROVE  w \in Seq(T)
OBVIOUS

\* Every place is in a section.
LEMMA PlacesAreTyped ==
  ASSUME RecTypes
  PROVE  Places \in Seq(WindowType)
<1>. DEFINE part(i) == IF sections[i].executable THEN [j \in 1..Len(Code(i)) |-> Window(i, j, TRUE)] ELSE <<>>
            parts == [i \in DOMAIN sections |-> part(i)]
<1>1. DOMAIN sections = 1..Len(sections) /\ Len(sections) \in Nat
  BY ListedFacts DEF RecTypes
<1>2. ASSUME NEW i \in 1..Len(sections) PROVE part(i) \in Seq(WindowType)
  <2>1. Len(Code(i)) \in Nat
    BY ParsedSection, ListedFacts DEF Code
  <2>2. ASSUME NEW j \in 1..Len(Code(i)) PROVE Window(i, j, TRUE) \in WindowType
    BY <2>1, <2>2 DEF Window, WindowType
  <2>3. [j \in 1..Len(Code(i)) |-> Window(i, j, TRUE)] \in [1..Len(Code(i)) -> WindowType]
    BY <2>2
  <2>4. PICK w, n : /\ w = [j \in 1..Len(Code(i)) |-> Window(i, j, TRUE)]
                    /\ n \in Nat /\ w \in [1..n -> WindowType]
    BY <2>1, <2>3
  <2>5. PICK W : W = WindowType
    OBVIOUS
  <2>8. w \in [1..n -> W] /\ n \in Nat
    BY <2>4, <2>5
  <2>9. w \in Seq(W)
    BY <2>8, MadeOf
  <2>6. w \in Seq(W) /\ <<>> \in Seq(W)
    BY <2>9
  <2>7. part(i) = w \/ part(i) = <<>>
    BY <2>4
  <2>. QED BY <2>5, <2>6, <2>7
<1>. HIDE DEF part
<1>3. parts \in Seq(Seq(WindowType))
  BY <1>1, <1>2
<1>4. FlattenSeq(parts) \in Seq(WindowType)
  BY <1>3, FlattenIsTyped
<1>. QED BY <1>4 DEF Places, part

\* Before the first header the invariant holds.
LEMMA RecInvInit == RecoveryInit => RecInv
<1>. SUFFICES ASSUME RecoveryInit PROVE RecInv
  OBVIOUS
<1>1. IsListed(<<>>) /\ ToSet(<<>>) = {}
  BY DEF IsListed, ToSet
<1>2. Image \in Executables
  BY DEF RecoveryInit, Image
<1>3. RecTypes
  <2>1. Len(Image.sections) \in Nat
    BY <1>2, ImageFacts, ListedFacts
  <2>. QED BY <1>1, <1>2, <2>1 DEF RecoveryInit, RecTypes
<1>. QED BY <1>3, RecoveryConstants DEF RecoveryInit, RecInv, Prepared, Waiting, Bounded, Backed

-----------------------------------------------------------------------------
\* An address is stored in the sections it was stored in before.
LEMMA SameImage ==
  ASSUME UNCHANGED <<executable, sections>>
  PROVE  /\ Image' = Image /\ WindowType' = WindowType
         /\ \A a : Stored(a)' <=> Stored(a)
         /\ \A x : Ready(x)' <=> Ready(x)
<1>1. Image' = Image /\ WindowType' = WindowType
  BY DEF Image, WindowType
<1>2. ASSUME NEW a PROVE Stored(a)' <=> Stored(a)
  BY DEF Stored, Mapped
<1>3. ASSUME NEW x PROVE Ready(x)' <=> Ready(x)
  BY DEF Ready, Stored, Mapped
<1>. QED BY <1>1, <1>2, <1>3

\* What a step on one image must establish that admits no candidate.
LEMMA SameSections ==
  ASSUME RecInv, UNCHANGED <<executable, sections, admitted, yielded>>,
         recovering' \in {"header", "sections", "search", "globals", "done"},
         recovering' \in {"header", "sections"} => windows' = <<>> /\ wanted' = <<>> /\ candidates' = <<>>,
         here' \in Nat, here' >= 1, windows' \in Seq(WindowType), wanted' \in Seq(WantedType),
         \A i \in 1..Len(wanted') : Ready(wanted'[i]),
         candidates' = candidates \/ candidates' = <<>>,
         scannedBytes' \in Nat, scannedBytes' <= MaxScanned,
         instructions' \in Nat, instructions' <= MaxInstructions
  PROVE  RecInv'
<1>1. Image' = Image /\ WindowType' = WindowType /\ (\A a : Stored(a)' <=> Stored(a))
      /\ (\A x : Ready(x)' <=> Ready(x))
  BY SameImage
<1>2. IsListed(<<>>) /\ Len(<<>>) = 0
  BY DEF IsListed, ToSet
<1>3. RecTypes'
  <2>2. IsListed(candidates)' /\ IsListed(sections)' /\ ToSet(sections)' = ToSet(sections)
    BY <1>2 DEF RecInv, RecTypes, IsListed, ToSet
  <2>. QED BY <1>1, <2>2 DEF RecInv, RecTypes, WantedType
<1>4. Prepared'
  <2>1. ASSUME NEW i \in 1..Len(sections) PROVE ~ Outside(sections[i])'
    BY <1>1 DEF RecInv, Prepared, Outside
  <2>. QED BY <2>1 DEF Prepared
<1>5. Waiting'
  BY <1>1 DEF Waiting
<1>6. Bounded'
  <2>1. candidates' = candidates => Bounded'
    BY DEF RecInv, Bounded
  <2>2. candidates' = <<>> => Bounded'
    <3>1. Len(candidates) \in Nat
      BY ListedFacts DEF RecInv, RecTypes
    <3>2. yielded \in Nat /\ admitted \in Nat /\ yielded <= admitted
      BY <3>1 DEF RecInv, Bounded
    <3>. QED BY <1>2, <3>2 DEF RecInv, Bounded
  <2>. QED BY <2>1, <2>2
<1>7. Backed'
  <2>1. ASSUME NEW i \in 1..Len(candidates') PROVE Found(candidates[i].from)'
    <3>1. candidates' = candidates
      BY <1>2
    <3>2. PICK from : from = candidates[i].from /\ Found(from)
      BY <3>1 DEF RecInv, Backed
    <3>3. Found(from)'
      BY <1>1, <3>2 DEF Found
    <3>. QED BY <3>1, <3>2, <3>3 DEF Found
  <2>. QED BY <2>1 DEF Backed
<1>. QED BY <1>3, <1>4, <1>5, <1>6, <1>7 DEF RecInv

\* What an invariant state gives such a step to begin with.
LEMMA Given ==
  ASSUME RecInv
  PROVE  /\ recovering \in {"header", "sections", "search", "globals", "done"}
         /\ recovering \in {"header", "sections"} => windows = <<>> /\ wanted = <<>> /\ candidates = <<>>
         /\ here \in Nat /\ here >= 1 /\ windows \in Seq(WindowType) /\ wanted \in Seq(WantedType)
         /\ \A i \in 1..Len(wanted) : Ready(wanted[i])
         /\ scannedBytes \in Nat /\ scannedBytes <= MaxScanned
         /\ instructions \in Nat /\ instructions <= MaxInstructions
BY DEF RecInv, RecTypes, Prepared, Waiting, Bounded

\* What is paid for fits.
LEMMA PaidFits ==
  ASSUME NEW used \in Nat, NEW amount \in Nat, NEW bound \in Nat, Pays(used, amount, bound)
  PROVE  used + amount \in Nat /\ used + amount <= bound
BY DEF Pays

\* Reading the header keeps the invariant.
LEMMA PeHeaderKeeps == RecInv /\ PeHeader => RecInv'
<1>. SUFFICES ASSUME RecInv, PeHeader PROVE RecInv'
  OBVIOUS
<1>1. scannedBytes' = scannedBytes \/ (Pays(scannedBytes, HeaderCost, MaxScanned) /\ scannedBytes' = scannedBytes + HeaderCost)
  BY DEF PeHeader, Exhaust, Abort
<1>2. scannedBytes' \in Nat /\ scannedBytes' <= MaxScanned
  <2>1. CASE scannedBytes' = scannedBytes
    BY <2>1, Given
  <2>2. CASE Pays(scannedBytes, HeaderCost, MaxScanned) /\ scannedBytes' = scannedBytes + HeaderCost
    BY <2>2, Given, PaidFits, RecoveryConstants
  <2>. QED BY <1>1, <2>1, <2>2
<1>3. recovering' \in {"sections", "done"} /\ (candidates' = candidates \/ candidates' = <<>>)
  BY DEF PeHeader, Exhaust, Abort
<1>4. UNCHANGED <<executable, sections, here, windows, wanted, instructions, admitted, yielded>>
      /\ recovering = "header"
  BY DEF PeHeader
<1>. QED BY <1>2, <1>3, <1>4, Given, SameSections

\* A failed read keeps the invariant: what was paid stays paid.
LEMMA ReadFailsKeeps == RecInv /\ ReadFails => RecInv'
<1>. SUFFICES ASSUME RecInv, ReadFails PROVE RecInv'
  OBVIOUS
<1>. QED BY Given, SameSections DEF ReadFails, Abort

\* The end of a pass keeps the invariant.
LEMMA EndsKeep == RecInv /\ (SearchEnds \/ GlobalsEnd) => RecInv'
<1>. SUFFICES ASSUME RecInv, SearchEnds \/ GlobalsEnd PROVE RecInv'
  OBVIOUS
<1>1. UNCHANGED <<executable, sections, windows, wanted, candidates, scannedBytes, instructions, admitted, yielded>>
  BY DEF SearchEnds, GlobalsEnd
<1>2. recovering' \in {"globals", "done"} /\ here' \in {here, 1}
  BY DEF SearchEnds, GlobalsEnd
<1>. QED BY <1>1, <1>2, Given, SameSections

\* Decoding pays for itself, or uses up the budget.
LEMMA DecodeKeeps ==
  ASSUME RecInv, recovering \in {"search", "globals"}, wanted = <<>>, here <= Len(Places), NEW times \in Nat, NEW look,
         Decode(times, look), scannedBytes' \in Nat, scannedBytes' <= MaxScanned,
         windows = <<>>, UNCHANGED <<executable, sections, wanted, admitted, yielded>>
  PROVE  RecInv'
<1>1. Place \in WindowType
  <2>1. Places \in Seq(WindowType)
    BY PlacesAreTyped DEF RecInv
  <2>2. here \in 1..Len(Places)
    BY <2>1, Given
  <2>3. PICK W, p, h : W = WindowType /\ p = Places /\ h = here
    OBVIOUS
  <2>4. p[h] \in W
    BY <2>1, <2>2, <2>3
  <2>. QED BY <2>3, <2>4 DEF Place
<1>2. windows' \in Seq(WindowType)
  <2>1. PICK W, p : W = WindowType /\ p = Place
    OBVIOUS
  <2>2. <<p>> \in Seq(W) /\ <<>> \in Seq(W)
    BY <1>1, <2>1
  <2>. QED BY <2>1, <2>2 DEF Decode
<1>3. instructions' \in Nat /\ instructions' <= MaxInstructions
  BY Given, PaidFits, RecoveryConstants DEF Decode
<1>4. here' = here + 1 /\ recovering' \in {recovering, "done"} /\ candidates' = candidates
  BY DEF Decode, Exhaust
<1>5. here' \in Nat /\ here' >= 1
  BY <1>4, Given
<1>. QED BY <1>2, <1>3, <1>4, <1>5, Given, SameSections

\* Passing a byte of code in search of a magic keeps the invariant.
LEMMA SearchKeeps == RecInv /\ Search => RecInv'
<1>. SUFFICES ASSUME RecInv, Search PROVE RecInv'
  OBVIOUS
<1>1. /\ recovering = "search" /\ windows = <<>> /\ wanted = <<>> /\ here <= Len(Places)
      /\ UNCHANGED <<executable, sections, wanted, scannedBytes, admitted, yielded>>
  BY DEF Search, Scans
<1>2. CASE \E n \in 0..Before : Decode(1 + n, Instruction.decodes)
  <2>1. PICK n \in 0..Before : \E look : Decode(1 + n, look)
    BY <1>2
  <2>2. PICK look : Decode(1 + n, look)
    BY <2>1
  <2>3. 1 + n \in Nat
    BY RecoveryConstants
  <2>. QED BY <1>1, <2>2, <2>3, Given, DecodeKeeps
<1>3. CASE here' = here + 1 /\ UNCHANGED <<recovering, windows, candidates, instructions>>
  <2>1. here' \in Nat /\ here' >= 1
    BY <1>3, Given
  <2>. QED BY <1>1, <1>3, <2>1, Given, SameSections
<1>. QED BY <1>2, <1>3 DEF Search

\* Passing a byte of code in search of a global keeps the invariant.
LEMMA GlobalsKeeps == RecInv /\ Globals => RecInv'
<1>. SUFFICES ASSUME RecInv, Globals PROVE RecInv'
  OBVIOUS
<1>1. /\ recovering = "globals" /\ windows = <<>> /\ wanted = <<>> /\ here <= Len(Places)
      /\ UNCHANGED <<executable, sections, wanted, admitted, yielded>>
  BY DEF Globals, Scans
<1>2. PICK cost : /\ cost = (IF Place.at = 1 THEN sections[Place.section].rawSize ELSE 0)
                  /\ \/ /\ ~Pays(scannedBytes, cost, MaxScanned)
                        /\ Exhaust /\ UNCHANGED <<here, windows, instructions, scannedBytes>>
                     \/ /\ Pays(scannedBytes, cost, MaxScanned) /\ scannedBytes' = scannedBytes + cost
                        /\ \/ \E look : Decode(1, look)
                           \/ here' = here + 1 /\ UNCHANGED <<recovering, windows, candidates, instructions>>
  BY DEF Globals
<1>3. cost \in Nat
  <2>1. Place \in WindowType
    <3>1. Places \in Seq(WindowType)
      BY PlacesAreTyped DEF RecInv
    <3>2. here \in 1..Len(Places)
      BY <3>1, <1>1, Given
    <3>3. PICK W, p, h : W = WindowType /\ p = Places /\ h = here
      OBVIOUS
    <3>4. p[h] \in W
      BY <3>1, <3>2, <3>3
    <3>. QED BY <3>3, <3>4 DEF Place
  <2>2. Place.section \in 1..Len(sections)
    BY <2>1 DEF WindowType
  <2>3. sections[Place.section].rawSize \in Nat
    BY <2>2, ParsedSection DEF RecInv
  <2>. QED BY <1>2, <2>3
<1>4. CASE Exhaust /\ UNCHANGED <<here, windows, instructions, scannedBytes>>
  BY <1>1, <1>4, Given, SameSections DEF Exhaust
<1>5. CASE Pays(scannedBytes, cost, MaxScanned) /\ scannedBytes' = scannedBytes + cost
  <2>1. scannedBytes' \in Nat /\ scannedBytes' <= MaxScanned
    BY <1>3, <1>5, Given, PaidFits, RecoveryConstants
  <2>2. CASE \E look : Decode(1, look)
    BY <1>1, <2>1, <2>2, DecodeKeeps
  <2>3. CASE here' = here + 1 /\ UNCHANGED <<recovering, windows, candidates, instructions>>
    <3>1. here' \in Nat /\ here' >= 1
      BY <2>3, Given
    <3>. QED BY <1>1, <2>1, <2>3, <3>1, Given, SameSections
  <2>4. ~ (Exhaust /\ UNCHANGED <<here, windows, instructions, scannedBytes>>) => RecInv'
    BY <1>2, <2>2, <2>3
  <2>. QED BY <2>4, <1>4
<1>. QED BY <1>2, <1>4, <1>5

-----------------------------------------------------------------------------
\* What waits, and is ready to be looked up.
GoodWanted == {x \in WantedType : Ready(x)}

\* A list of what is wanted is good when each of its items is ready to be read.
LEMMA WantedIsGood ==
  ASSUME NEW s
  PROVE  s \in Seq(GoodWanted) <=> s \in Seq(WantedType) /\ \A i \in 1..Len(s) : Ready(s[i])
<1>1. PICK G, W : G = GoodWanted /\ W = WantedType
  OBVIOUS
<1>2. G \subseteq W /\ \A x \in G : Ready(x)
  BY <1>1 DEF GoodWanted
<1>3. ASSUME s \in Seq(G) PROVE s \in Seq(W) /\ \A i \in 1..Len(s) : Ready(s[i])
  <2>1. \A i \in 1..Len(s) : s[i] \in G
    BY <1>3
  <2>. QED BY <1>2, <1>3, <2>1
<1>4. ASSUME s \in Seq(W), \A i \in 1..Len(s) : Ready(s[i]) PROVE s \in Seq(G)
  <2>1. \A i \in 1..Len(s) : s[i] \in W
    BY <1>4
  <2>2. \A i \in 1..Len(s) : s[i] \in G
    BY <1>1, <1>4, <2>1 DEF GoodWanted
  <2>. QED BY <1>4, <2>2
<1>. QED BY <1>1, <1>3, <1>4

\* The bytes a window takes are instructions of its section.
LEMMA TakenIsCode ==
  ASSUME RecTypes, NEW w \in WindowType
  PROVE  Taken(w) \in Seq(ToSet(Code(w.section)))
<1>1. w.section \in 1..Len(sections) /\ w.at \in Nat /\ w.at >= 1
  BY DEF WindowType
<1>2. PICK code, at : code = Code(w.section) /\ at = w.at
  OBVIOUS
<1>3. IsListed(code)
  BY <1>1, <1>2, ParsedSection DEF Code
<1>4. Len(code) \in Nat /\ at \in Nat /\ at >= 1 /\ MaxWindow \in Nat /\ \A i \in 1..Len(code) : code[i] \in ToSet(code)
  BY <1>1, <1>2, <1>3, ListedFacts, RecoveryConstants
<1>5. PICK last : last = Min({Len(code), at + MaxWindow - 1})
  OBVIOUS
<1>6. last \in Nat /\ last <= Len(code)
  <2>1. at + MaxWindow - 1 \in Nat
    BY <1>4
  <2>. QED BY <1>4, <1>5, <2>1, LesserOf
<1>. DEFINE stops == {j \in at..last : code[j].returns \/ ~code[j].decodes}
<1>7. PICK e : e = (IF stops = {} THEN last ELSE Min(stops))
  OBVIOUS
<1>8. e \in Nat /\ e <= Len(code)
  <2>1. CASE stops = {}
    BY <1>6, <1>7, <2>1
  <2>2. CASE stops # {}
    <3>1. stops \in SUBSET Nat /\ \A j \in stops : j <= last
      BY <1>4, <1>6
    <3>2. Min(stops) \in stops
      BY <2>2, <3>1, LeastIndex
    <3>. HIDE DEF stops
    <3>. QED BY <1>4, <1>6, <1>7, <2>2, <3>1, <3>2
  <2>. QED BY <2>1, <2>2
<1>9. SubSeq(code, at, e) \in Seq(ToSet(code))
  <2>1. \A i \in at..e : code[i] \in ToSet(code)
    BY <1>4, <1>8
  <2>. QED BY <1>4, <1>8, <2>1, SubSeqProperties
<1>10. Taken(w) = SubSeq(code, at, e)
  BY <1>2, <1>5, <1>7 DEF Taken
<1>. QED BY <1>2, <1>9, <1>10

\* The windows of called functions lie in sections too.
LEMMA CalleesAreTyped ==
  ASSUME RecTypes, NEW calls \in Seq(Int)
  PROVE  Callees(calls) \in Seq(WindowType)
<1>. DEFINE part(i) ==
       LET targets == Mapped(calls[i], 1, TRUE, TRUE)
       IN IF targets = {} THEN <<>>
          ELSE <<Window(Min(targets), 1 + calls[i] - sections[Min(targets)].address, FALSE)>>
            parts == [i \in DOMAIN calls |-> part(i)]
<1>1. DOMAIN sections = 1..Len(sections) /\ Len(sections) \in Nat
  BY ListedFacts DEF RecTypes
<1>2. ASSUME NEW i \in 1..Len(calls) PROVE part(i) \in Seq(WindowType)
  <2>0. calls[i] \in Int
    OBVIOUS
  <2>1. PICK targets, a, W : targets = Mapped(calls[i], 1, TRUE, TRUE) /\ a = calls[i] /\ a \in Int /\ W = WindowType
    BY <2>0
  <2>2. CASE targets = {}
    <3>1. part(i) = <<>>
      BY <2>1, <2>2
    <3>2. <<>> \in Seq(W)
      OBVIOUS
    <3>. QED BY <2>1, <3>1, <3>2
  <2>3. CASE targets # {}
    <3>1. targets \in SUBSET (1..Len(sections)) /\ \A k \in targets : a >= sections[k].address
      BY <1>1, <2>1 DEF Mapped
    <3>2. Min(targets) \in targets
      <4>1. targets \in SUBSET Nat
        BY <1>1, <3>1
      <4>. QED BY <2>3, <4>1, LeastIndex
    <3>3. PICK k, f : k = Min(targets) /\ f = sections[k].address
      OBVIOUS
    <3>4. k \in 1..Len(sections) /\ a >= f /\ f \in Nat
      BY <3>1, <3>2, <3>3, ParsedSection
    <3>5. 1 + a - f \in Nat \ {0}
      BY <2>1, <3>4
    <3>6. PICK x : x = Window(k, 1 + a - f, FALSE)
      OBVIOUS
    <3>7. x \in W
      BY <2>1, <3>4, <3>5, <3>6 DEF Window, WindowType
    <3>8. <<x>> \in Seq(W)
      BY <3>7
    <3>9. part(i) = <<x>>
      BY <2>1, <2>3, <3>3, <3>6
    <3>. QED BY <2>1, <3>8, <3>9
  <2>. QED BY <2>2, <2>3
<1>. HIDE DEF part
<1>3. DOMAIN calls = 1..Len(calls) /\ Len(calls) \in Nat
  OBVIOUS
<1>4. PICK n, S : n = Len(calls) /\ n \in Nat /\ S = Seq(WindowType)
  BY <1>3
<1>5. parts \in [1..n -> S]
  BY <1>2, <1>3, <1>4
<1>6. parts \in Seq(S)
  BY <1>4, <1>5, MadeOf
<1>7. FlattenSeq(parts) \in Seq(WindowType)
  BY <1>4, <1>6, FlattenIsTyped
<1>. QED BY <1>7 DEF Callees, part

\* Fields of the instructions read, laid end to end.
LEMMA FieldsAreTyped ==
  ASSUME NEW C, NEW read \in Seq(C),
         \A c \in C : c.addresses \in Seq(Int) /\ c.displacements \in Seq(Int) /\ c.calls \in Seq(Int)
  PROVE  /\ FlattenSeq([i \in DOMAIN read |-> read[i].addresses]) \in Seq(Int)
         /\ FlattenSeq([i \in DOMAIN read |-> read[i].displacements]) \in Seq(Int)
         /\ FlattenSeq([i \in DOMAIN read |-> read[i].calls]) \in Seq(Int)
<1>1. PICK n \in Nat : n = Len(read) /\ DOMAIN read = 1..n
  OBVIOUS
<1>2. \A i \in 1..n : read[i].addresses \in Seq(Int) /\ read[i].displacements \in Seq(Int) /\ read[i].calls \in Seq(Int)
  BY <1>1
<1>3. PICK S : S = Seq(Int)
  OBVIOUS
<1>4. [i \in DOMAIN read |-> read[i].addresses] \in Seq(S)
  <2>1. [i \in DOMAIN read |-> read[i].addresses] \in [1..n -> S]
    BY <1>1, <1>2, <1>3
  <2>. QED BY <2>1, MadeOf
<1>5. [i \in DOMAIN read |-> read[i].displacements] \in Seq(S)
  <2>1. [i \in DOMAIN read |-> read[i].displacements] \in [1..n -> S]
    BY <1>1, <1>2, <1>3
  <2>. QED BY <2>1, MadeOf
<1>6. [i \in DOMAIN read |-> read[i].calls] \in Seq(S)
  <2>1. [i \in DOMAIN read |-> read[i].calls] \in [1..n -> S]
    BY <1>1, <1>2, <1>3
  <2>. QED BY <2>1, MadeOf
<1>. QED BY <1>3, <1>4, <1>5, <1>6, FlattenIsTyped

\* What a window refers to is ready: arrays that are stored, references that are reserved.
LEMMA SoughtIsGood ==
  ASSUME RecTypes, NEW C, NEW read \in Seq(C),
         \A c \in C : c.addresses \in Seq(Int) /\ c.displacements \in Seq(Int) /\ c.calls \in Seq(Int)
  PROVE  Sought(read) \in Seq(GoodWanted)
<1>. DEFINE addresses == FlattenSeq([i \in DOMAIN read |-> read[i].addresses])
            displacements == FlattenSeq([i \in DOMAIN read |-> read[i].displacements])
            summed == [i \in DOMAIN displacements |-> Image.base + displacements[i]]
            arrays == Distinct(summed, {a \in ToSet(summed) : Stored(a)})
            references == Distinct(addresses, {a \in ToSet(addresses) : Reserved(a)})
            mixed == /\ Contains(addresses, Image.base) /\ Len(arrays) = 3
                     /\ Quantify(DOMAIN read, LAMBDA i : read[i].bitXor) >= 2
            many == IF mixed THEN <<Wanted("mixed", arrays)>> ELSE <<>>
            each == [i \in DOMAIN references |-> Wanted("reference", <<references[i]>>)]
<1>1. addresses \in Seq(Int) /\ displacements \in Seq(Int)
  BY FieldsAreTyped
<1>2. summed \in Seq(Int)
  <2>1. PICK d, b : d = displacements /\ b = Image.base /\ d \in Seq(Int) /\ b \in Int
    BY <1>1, ImageFacts DEF RecTypes
  <2>2. [i \in DOMAIN d |-> b + d[i]] \in Seq(Int)
    <3>0. DOMAIN d = 1..Len(d) /\ Len(d) \in Nat /\ \A i \in 1..Len(d) : d[i] \in Int
      BY <2>1, SequenceFacts
    <3>1. PICK n \in Nat : DOMAIN d = 1..n /\ \A i \in 1..n : d[i] \in Int
      BY <3>0
    <3>2. \A i \in 1..n : b + d[i] \in Int
      BY <2>1, <3>1
    <3>3. [i \in DOMAIN d |-> b + d[i]] \in [1..n -> Int]
      BY <3>1, <3>2
    <3>. QED BY <3>3, MadeOf
  <2>. QED BY <2>1, <2>2
<1>3. PICK G : G = GoodWanted
  OBVIOUS
<1>. HIDE DEF addresses, displacements, summed
<1>4. arrays \in Seq(Int) /\ \A i \in 1..Len(arrays) : Stored(arrays[i])
  <2>1. PICK S : S = {a \in ToSet(summed) : Stored(a)}
    OBVIOUS
  <2>2. arrays \in Seq(Int \cap S)
    BY <1>2, <2>1, DistinctIsTyped
  <2>. HIDE DEF arrays
  <2>3. \A i \in 1..Len(arrays) : arrays[i] \in S
    BY <2>2
  <2>4. Int \cap S \subseteq Int
    OBVIOUS
  <2>5. arrays \in Seq(Int)
    BY <2>2, <2>4
  <2>. QED BY <2>1, <2>3, <2>5
<1>5. references \in Seq(Int)
  <2>1. PICK S : references \in Seq(Int \cap S) /\ Int \cap S \subseteq Int
    BY <1>1, DistinctIsTyped
  <2>. HIDE DEF references
  <2>. QED BY <2>1
<1>. HIDE DEF arrays, references, mixed
<1>6. many \in Seq(G)
  <2>1. Wanted("mixed", arrays) \in G
    BY <1>3, <1>4 DEF GoodWanted, Wanted, WantedType, Ready
  <2>2. <<Wanted("mixed", arrays)>> \in Seq(G) /\ <<>> \in Seq(G)
    BY <2>1
  <2>. QED BY <2>2
<1>7. each \in Seq(G)
  <2>1. PICK n \in Nat : n = Len(references) /\ DOMAIN references = 1..n
    BY <1>5
  <2>2. ASSUME NEW i \in 1..n PROVE Wanted("reference", <<references[i]>>) \in G
    <3>1. PICK s : s = <<references[i]>> /\ s \in Seq(Int) /\ Len(s) = 1
      <4>1. references[i] \in Int
        BY <1>5, <2>1
      <4>2. <<references[i]>> \in Seq(Int) /\ Len(<<references[i]>>) = 1
        BY <4>1, SingleIs
      <4>. QED BY <4>2
    <3>2. Wanted("reference", s) \in G
      BY <1>3, <3>1 DEF GoodWanted, Wanted, WantedType, Ready
    <3>. QED BY <3>1, <3>2
  <2>3. each \in [1..n -> G]
    BY <2>1, <2>2
  <2>. QED BY <2>3, MadeOf
<1>. HIDE DEF many, each
<1>8. many \o each \in Seq(G) /\ <<>> \in Seq(G)
  BY <1>6, <1>7
<1>9. Sought(read) = IF \A i \in DOMAIN read : ~read[i].size32 THEN <<>> ELSE many \o each
  BY DEF Sought, addresses, displacements, summed, arrays, references, mixed, many, each
<1>. QED BY <1>3, <1>8, <1>9

\* Looking at a window keeps the invariant.
LEMMA LookAtWindowKeeps == RecInv /\ LookAtWindow => RecInv'
<1>. SUFFICES ASSUME RecInv, LookAtWindow PROVE RecInv'
  OBVIOUS
<1>. DEFINE taken == Taken(Head(windows))
            read == IF taken # <<>> /\ ~Last(taken).decodes THEN Front(taken) ELSE taken
            calls == Unique(FlattenSeq([i \in DOMAIN read |-> read[i].calls]))
<1>1. PICK w, C : w = Head(windows) /\ w \in WindowType /\ C = ToSet(Code(w.section))
                  /\ Tail(windows) \in Seq(WindowType)
  <2>1. windows \in Seq(WindowType) /\ windows # <<>>
    BY Given DEF LookAtWindow
  <2>2. PICK W, s : W = WindowType /\ s = windows
    OBVIOUS
  <2>3. Head(s) \in W /\ Tail(s) \in Seq(W)
    BY <2>1, <2>2, HeadTailProperties
  <2>. QED BY <2>2, <2>3
<1>2. taken \in Seq(C)
  BY <1>1, TakenIsCode DEF RecInv
<1>3. \A c \in C : c.addresses \in Seq(Int) /\ c.displacements \in Seq(Int) /\ c.calls \in Seq(Int)
  <2>1. w.section \in 1..Len(sections)
    BY <1>1 DEF WindowType
  <2>. QED BY <2>1, <1>1, ParsedSection DEF RecInv, Code
<1>. HIDE DEF taken
<1>4. read \in Seq(C)
  <2>1. Len(taken) \in Nat /\ \A i \in 1..(Len(taken) - 1) : taken[i] \in C
    BY <1>2
  <2>2. Front(taken) \in Seq(C)
    BY <2>1, SubSeqProperties DEF Front
  <2>. QED BY <1>2, <2>2
<1>. HIDE DEF read
<1>5. calls \in Seq(Int)
  <2>1. PICK f : f = FlattenSeq([i \in DOMAIN read |-> read[i].calls]) /\ f \in Seq(Int)
    BY <1>3, <1>4, FieldsAreTyped
  <2>2. Distinct(f, ToSet(f)) \in Seq(Int \cap ToSet(f)) /\ Int \cap ToSet(f) \subseteq Int
    BY <2>1, DistinctIsTyped
  <2>3. Unique(f) \in Seq(Int)
    BY <2>2 DEF Unique
  <2>. QED BY <2>1, <2>3
<1>. HIDE DEF calls
<1>6. Callees(calls) \in Seq(WindowType) /\ Sought(read) \in Seq(GoodWanted)
  BY <1>3, <1>4, <1>5, CalleesAreTyped, SoughtIsGood DEF RecInv
<1>7. Sought(read) \in Seq(WantedType) /\ \A i \in 1..Len(Sought(read)) : Ready(Sought(read)[i])
  BY <1>6, WantedIsGood
<1>8. /\ recovering \in {"search", "globals"} /\ wanted = <<>>
      /\ UNCHANGED <<executable, sections, here, globals, scannedBytes, admitted, yielded>>
      /\ \/ instructions' = MaxInstructions /\ Exhaust /\ UNCHANGED <<windows, wanted>>
         \/ /\ Pays(instructions, Len(taken), MaxInstructions)
            /\ instructions' = instructions + Len(taken) /\ wanted' = Sought(read)
            /\ windows' \in {Tail(windows) \o Callees(calls), Tail(windows) \o <<>>}
            /\ UNCHANGED <<recovering, candidates>>
  BY DEF LookAtWindow, taken, read, calls
<1>9. CASE instructions' = MaxInstructions /\ Exhaust /\ UNCHANGED <<windows, wanted>>
  BY <1>8, <1>9, Given, SameSections, RecoveryConstants DEF Exhaust
<1>10. CASE /\ Pays(instructions, Len(taken), MaxInstructions)
            /\ instructions' = instructions + Len(taken) /\ wanted' = Sought(read)
            /\ windows' \in {Tail(windows) \o Callees(calls), Tail(windows) \o <<>>}
            /\ UNCHANGED <<recovering, candidates>>
  <2>1. instructions' \in Nat /\ instructions' <= MaxInstructions
    <3>1. Len(taken) \in Nat
      BY <1>2
    <3>. QED BY <1>10, <3>1, Given, PaidFits, RecoveryConstants
  <2>2. windows' \in Seq(WindowType)
    <3>1. PICK t, c, W : t = Tail(windows) /\ c = Callees(calls) /\ W = WindowType
      OBVIOUS
    <3>2. t \o c \in Seq(W) /\ t \o <<>> \in Seq(W)
      BY <1>1, <1>6, <3>1
    <3>. QED BY <1>10, <3>1, <3>2
  <2>3. wanted' \in Seq(WantedType) /\ \A i \in 1..Len(wanted') : Ready(wanted'[i])
    BY <1>7, <1>10
  <2>. QED BY <1>8, <1>10, <2>1, <2>2, <2>3, Given, SameSections
<1>. QED BY <1>8, <1>9, <1>10

-----------------------------------------------------------------------------
\* A candidate not met before, read at stored addresses, keeps every bound.
LEMMA AdmitKeeps ==
  ASSUME RecInv, UNCHANGED <<executable, sections, here, windows, instructions, yielded>>,
         recovering \in {"search", "globals"},
         NEW k0, NEW from, Found(from), Admit(k0, from),
         wanted' \in Seq(WantedType), \A i \in 1..Len(wanted') : Ready(wanted'[i]),
         scannedBytes' \in Nat, scannedBytes' <= MaxScanned
  PROVE  RecInv'
<1>1. CASE admitted' = admitted /\ candidates' = candidates /\ recovering' \in {recovering, "done"}
  BY <1>1, Given, SameSections
<1>2. CASE /\ ~Known(k0) /\ Pays(admitted, 1, Room)
           /\ admitted' = admitted + 1 /\ UNCHANGED recovering
           /\ candidates' = Append(candidates, [key |-> k0, from |-> from])
  <2>. DEFINE c == [key |-> k0, from |-> from]
  <2>1. Image' = Image /\ WindowType' = WindowType /\ (\A a : Stored(a)' <=> Stored(a))
        /\ (\A x : Ready(x)' <=> Ready(x))
    BY SameImage
  <2>2. IsListed(candidates) /\ Len(candidates) \in Nat
    BY ListedFacts DEF RecInv, RecTypes
  <2>3. PICK cs, ds, n : cs = candidates /\ ds = candidates' /\ n = Len(cs) /\ n \in Nat
    BY <2>2
  <2>4. /\ IsListed(ds) /\ Len(ds) = n + 1 /\ ds[n + 1] = c
        /\ \A i \in 1..n : ds[i] = cs[i]
    BY <1>2, <2>2, <2>3, ListedAppended
  <2>5. IsListed(candidates)'
    BY <2>3, <2>4 DEF IsListed
  <2>6. RecTypes'
    <3>1. ToSet(sections)' = ToSet(sections) /\ IsListed(sections)'
      BY DEF RecInv, RecTypes, IsListed, ToSet
    <3>. QED BY <1>2, <2>1, <2>5, <3>1, Given DEF RecInv, RecTypes, WantedType
  <2>7. Prepared'
    <3>1. ASSUME NEW i \in 1..Len(sections) PROVE ~ Outside(sections[i])'
      BY <2>1 DEF RecInv, Prepared, Outside
    <3>. QED BY <3>1, <1>2 DEF Prepared
  <2>8. Waiting'
    BY <2>1 DEF Waiting
  <2>9. Bounded'
    <3>1. /\ admitted \in Nat /\ yielded \in Nat /\ yielded + n <= admitted
      BY <2>3 DEF RecInv, Bounded
    <3>2. admitted + 1 <= MaxKeys
      <4>1. Room <= MaxKeys /\ Room \in Nat
        BY LesserOf, RecoveryConstants DEF Room
      <4>. QED BY <1>2, <3>1, <4>1, RecoveryConstants DEF Pays
    <3>3. \A i, j \in 1..(n + 1) : ds[i].key = ds[j].key => i = j
      <4>1. \A i \in 1..n : ds[i].key # k0 /\ ds[i].key = cs[i].key
        BY <1>2, <2>2, <2>3, <2>4, ListedFacts DEF Known
      <4>2. ds[n + 1].key = k0
        BY <2>4
      <4>3. \A i, j \in 1..n : cs[i].key = cs[j].key => i = j
        BY <2>3 DEF RecInv, Bounded
      <4>4. \A i \in 1..(n + 1) : i \in 1..n \/ i = n + 1
        BY <2>3
      <4>. QED BY <4>1, <4>2, <4>3, <4>4
    <3>4. instructions \in Nat /\ instructions <= MaxInstructions
      BY Given
    <3>. QED BY <1>2, <2>3, <2>4, <3>1, <3>2, <3>3, <3>4 DEF Bounded
  <2>10. Backed'
    <3>1. ASSUME NEW i \in 1..(n + 1) PROVE Found(candidates[i].from)'
      <4>1. CASE i \in 1..n
        <5>1. PICK f : f = cs[i].from /\ Found(f)
          BY <2>3, <4>1 DEF RecInv, Backed
        <5>2. Found(f)'
          BY <2>1, <5>1 DEF Found
        <5>3. f = candidates'[i].from
          BY <2>3, <2>4, <4>1, <5>1
        <5>. QED BY <5>2, <5>3 DEF Found
      <4>2. CASE i = n + 1
        <5>1. Found(from)'
          BY <2>1 DEF Found
        <5>2. from = candidates'[i].from
          BY <2>3, <2>4, <4>2
        <5>. QED BY <5>1, <5>2 DEF Found
      <4>3. i \in 1..n \/ i = n + 1
        BY <2>3
      <4>. QED BY <4>1, <4>2, <4>3
    <3>. QED BY <2>3, <2>4, <3>1 DEF Backed
  <2>. QED BY <2>6, <2>7, <2>8, <2>9, <2>10 DEF RecInv
<1>. QED BY <1>1, <1>2 DEF Admit, Exhaust

\* What is next to be looked up, and what waits behind it.
LEMMA NextWanted ==
  ASSUME RecInv, wanted # <<>>
  PROVE  /\ Head(wanted) \in GoodWanted /\ Tail(wanted) \in Seq(GoodWanted)
         /\ Head(wanted).at \in Seq(Int)
<1>1. PICK G, s : G = GoodWanted /\ s = wanted /\ s \in Seq(G)
  BY Given, WantedIsGood
<1>2. Head(s) \in G /\ Tail(s) \in Seq(G)
  BY <1>1, HeadTailProperties
<1>. QED BY <1>1, <1>2 DEF GoodWanted, WantedType

\* Keys are read at all their addresses or not at all, and cost for as far as the budget goes.
LEMMA ReadKeysKeeps ==
  ASSUME RecInv, UNCHANGED <<executable, sections, here, windows, instructions, yielded>>,
         recovering \in {"search", "globals"},
         NEW at \in Seq(Int), \A i \in 1..Len(at) : Stored(at[i]), ReadKeys(at),
         wanted' \in Seq(WantedType), \A i \in 1..Len(wanted') : Ready(wanted'[i])
  PROVE  RecInv'
<1>1. PICK s : s = scannedBytes /\ s \in Nat /\ s <= MaxScanned
  BY Given
<1>2. PICK payable : /\ payable = Min({Len(at), (MaxScanned - s) \div KeyBytes})
                     /\ scannedBytes' = s + KeyBytes * payable
                     /\ \/ payable < Len(at) /\ Exhaust /\ UNCHANGED admitted
                        \/ Admit(Xor(at), ToSet(at))
  BY <1>1 DEF ReadKeys
<1>3. PICK x : x = MaxScanned - s /\ x \in Nat
  BY <1>1, RecoveryConstants
<1>4. x \div KeyBytes \in Nat
  BY <1>3, RecoveryConstants, QuotientIsNat
<1>5. payable \in Nat /\ payable <= x \div KeyBytes
  <2>1. Len(at) \in Nat
    OBVIOUS
  <2>. QED BY <1>2, <1>3, <1>4, <2>1, LesserOf
<1>6. PICK cost : cost = KeyBytes * payable /\ cost \in Nat /\ cost <= x
  BY <1>3, <1>5, PayableIsPaid, RecoveryConstants
<1>7. scannedBytes' \in Nat /\ scannedBytes' <= MaxScanned
  BY <1>1, <1>2, <1>3, <1>6, RecoveryConstants
<1>8. Found(ToSet(at))
  <2>1. \A a \in ToSet(at) : \E i \in 1..Len(at) : a = at[i]
    BY ListedIn, ListedFacts
  <2>. QED BY <2>1 DEF Found
<1>9. CASE Exhaust /\ UNCHANGED admitted
  BY <1>7, <1>9, Given, SameSections DEF Exhaust
<1>10. CASE Admit(Xor(at), ToSet(at))
  BY <1>7, <1>8, <1>10, AdmitKeeps
<1>. QED BY <1>2, <1>9, <1>10

\* Reading what a window refers to keeps the invariant.
LEMMA ConsumeKeeps == RecInv /\ Consume => RecInv'
<1>. SUFFICES ASSUME RecInv, Consume PROVE RecInv'
  OBVIOUS
<1>1. PICK next, address : next = Head(wanted) /\ address = Head(next.at)
  OBVIOUS
<1>2. /\ recovering \in {"search", "globals"} /\ wanted # <<>>
      /\ UNCHANGED <<executable, sections, here, windows, instructions, yielded>>
  BY DEF Consume
<1>3. next \in GoodWanted /\ Tail(wanted) \in Seq(GoodWanted) /\ next.at \in Seq(Int)
  BY <1>1, <1>2, NextWanted
<1>4. next.kind # "mixed" => Len(next.at) = 1 /\ next.at[1] = address /\ address \in Int
  <2>1. next.kind # "mixed" => Len(next.at) = 1
    BY <1>3 DEF GoodWanted, Ready
  <2>2. PICK at : at = next.at /\ at \in Seq(Int) /\ address = Head(at)
    BY <1>1, <1>3
  <2>3. Len(at) = 1 => at[1] = Head(at) /\ Head(at) \in Int
    BY <2>2
  <2>. QED BY <2>1, <2>2, <2>3
<1>5. CASE wanted' = Tail(wanted)
  <2>1. wanted' \in Seq(WantedType) /\ \A i \in 1..Len(wanted') : Ready(wanted'[i])
    <3>1. PICK t : t = Tail(wanted) /\ t \in Seq(GoodWanted)
      BY <1>3
    <3>. QED BY <1>5, <3>1, WantedIsGood
  <2>2. CASE (next.kind = "mixed" \/ (next.kind = "constant" /\ Stored(address))) /\ ReadKeys(next.at)
    <3>1. \A i \in 1..Len(next.at) : Stored(next.at[i])
      <4>1. CASE next.kind = "mixed"
        BY <1>3, <4>1 DEF GoodWanted, Ready
      <4>2. CASE next.kind = "constant" /\ Stored(address)
        BY <1>4, <4>2
      <4>. QED BY <2>2, <4>1, <4>2
    <3>2. PICK at : at = next.at /\ at \in Seq(Int)
      BY <1>3
    <3>. QED BY <1>2, <2>1, <2>2, <3>1, <3>2, ReadKeysKeeps
  <2>3. CASE UNCHANGED <<recovering, candidates, scannedBytes, admitted>>
    BY <1>2, <2>1, <2>3, Given, SameSections
  <2>4. \/ (next.kind = "mixed" \/ (next.kind = "constant" /\ Stored(address))) /\ ReadKeys(next.at)
        \/ UNCHANGED <<recovering, candidates, scannedBytes, admitted>>
        \/ next.kind = "reference" /\ Stored(address)
    <3>1. next.kind \in {"mixed", "constant", "reference"}
      BY <1>3 DEF GoodWanted, WantedType
    <3>. QED BY <1>1, <3>1 DEF Consume
  <2>5. ~ (next.kind = "reference" /\ Stored(address))
    <3>1. ASSUME next.kind = "reference", Stored(address) PROVE FALSE
      <4>1. PICK a, b : wanted' = <<a, b>> \o Tail(wanted)
        BY <1>1, <3>1 DEF Consume
      <4>2. PICK t, G : t = Tail(wanted) /\ t \in Seq(G)
        BY <1>3
      <4>3. Len(t) \in Nat /\ Len(<<a, b>> \o t) = Len(t) + 2
        BY <4>2, TwoMore
      <4>. QED BY <1>5, <4>1, <4>2, <4>3
    <3>. QED BY <3>1
  <2>. QED BY <2>2, <2>3, <2>4, <2>5
<1>6. CASE wanted' # Tail(wanted)
  <2>1. next.kind \in {"mixed", "constant", "reference"}
    BY <1>3 DEF GoodWanted, WantedType
  <2>2. next.kind = "reference" /\ Stored(address)
    BY <1>1, <1>6, <2>1 DEF Consume
  <2>3. /\ wanted' = <<Wanted("constant", <<PointerAt(address)>>), Wanted("constant", next.at)>> \o Tail(wanted)
        /\ IF Pays(scannedBytes, PointerBytes, MaxScanned)
           THEN scannedBytes' = scannedBytes + PointerBytes /\ UNCHANGED <<recovering, candidates>>
           ELSE Exhaust /\ UNCHANGED scannedBytes
        /\ UNCHANGED admitted
    BY <1>1, <2>2 DEF Consume
  <2>4. PointerAt(address) \in Int
    <3>1. PICK k \in DOMAIN sections :
            address >= sections[k].address /\ address - sections[k].address + KeyBytes <= sections[k].rawSize
      BY <2>2 DEF Stored, Mapped
    <3>2. k \in 1..Len(sections)
      BY <3>1, ListedFacts DEF RecInv, RecTypes
    <3>3. PICK f, z : f = sections[k].address /\ z = sections[k].rawSize /\ f \in Nat /\ z \in Nat
                      /\ \A a \in f..(f + z) : PointerAt(a) \in Int
      BY <3>2, ParsedSection DEF RecInv
    <3>4. address \in f..(f + z)
      BY <1>4, <2>2, <3>1, <3>3, RecoveryConstants
    <3>. QED BY <3>3, <3>4
  <2>5. PICK a, b, t, G : /\ a = Wanted("constant", <<PointerAt(address)>>) /\ b = Wanted("constant", next.at)
                          /\ t = Tail(wanted) /\ G = GoodWanted
    OBVIOUS
  <2>6. a \in G
    <3>1. PICK s : s = <<PointerAt(address)>> /\ s \in Seq(Int) /\ Len(s) = 1
      BY <2>4, SingleIs
    <3>. QED BY <2>5, <3>1 DEF GoodWanted, Wanted, WantedType, Ready
  <2>7. b \in G
    BY <1>3, <1>4, <2>2, <2>5 DEF GoodWanted, Wanted, WantedType, Ready
  <2>8. <<a, b>> \o t \in Seq(G)
    BY <1>3, <2>5, <2>6, <2>7, TwoMore
  <2>9. wanted' \in Seq(WantedType) /\ \A i \in 1..Len(wanted') : Ready(wanted'[i])
    BY <2>3, <2>5, <2>8, WantedIsGood
  <2>10. scannedBytes' \in Nat /\ scannedBytes' <= MaxScanned
    BY <2>3, Given, PaidFits, RecoveryConstants
  <2>11. recovering' \in {recovering, "done"} /\ candidates' = candidates
    BY <2>3 DEF Exhaust
  <2>. QED BY <1>2, <2>3, <2>9, <2>10, <2>11, Given, SameSections
<1>. QED BY <1>5, <1>6

\* Nothing but the sections grows while they are parsed, and each lies in the file.
LEMMA PeSectionKeeps == RecInv /\ PeSection => RecInv'
<1>. SUFFICES ASSUME RecInv, PeSection PROVE RecInv'
  OBVIOUS
<1>1. /\ recovering = "sections" /\ windows = <<>> /\ wanted = <<>> /\ candidates = <<>>
      /\ UNCHANGED <<executable, here, windows, wanted, instructions, admitted, yielded>>
  BY Given DEF PeSection
<1>2. CASE UNCHANGED <<sections, scannedBytes>> /\ recovering' \in {"search", "done"} /\ candidates' \in {candidates, <<>>}
  BY <1>1, <1>2, Given, SameSections
<1>3. CASE ~ (UNCHANGED <<sections, scannedBytes>> /\ recovering' \in {"search", "done"} /\ candidates' \in {candidates, <<>>})
  <2>1. Len(sections) # Len(Image.sections)
    BY <1>3 DEF PeSection
  <2>2. PICK entry, code : /\ entry = Image.sections[Len(sections) + 1]
                           /\ code = (IF entry.executable THEN entry.rawSize ELSE 0)
                           /\ ~ Outside(entry) /\ Pays(scannedBytes, code, MaxScanned)
                           /\ scannedBytes' = scannedBytes + code
                           /\ sections' = Append(sections, entry) /\ UNCHANGED <<recovering, candidates>>
    BY <1>3, <2>1 DEF PeSection, Abort, Exhaust
  <2>3. PICK ss, n, image, ts : /\ ss = sections /\ n = Len(ss) /\ image = Image /\ ts = sections'
                                /\ n \in Nat /\ IsListed(ss) /\ image \in Executables
                                /\ n < Len(image.sections) /\ IsListed(image.sections)
    <3>1. Len(sections) \in Nat /\ IsListed(sections) /\ Image \in Executables
      BY ListedFacts DEF RecInv, RecTypes
    <3>2. IsListed(Image.sections) /\ Len(Image.sections) \in Nat
      BY <3>1, ImageFacts, ListedFacts
    <3>3. Len(sections) < Len(Image.sections)
      BY <2>1, <3>1, <3>2 DEF RecInv, RecTypes
    <3>. QED BY <3>1, <3>2, <3>3
  <2>4. Image' = Image
    BY <1>1 DEF Image
  <2>5. entry \in ToSet(image.sections)
    <3>1. n + 1 \in 1..Len(image.sections)
      BY <2>3, ListedFacts
    <3>. QED BY <2>2, <2>3, <3>1, ListedFacts
  <2>6. /\ IsListed(ts) /\ Len(ts) = n + 1 /\ ts[n + 1] = entry
        /\ (\A i \in 1..n : ts[i] = ss[i]) /\ ToSet(ts) \subseteq ToSet(ss) \cup {entry}
    BY <2>2, <2>3, ListedAppended
  <2>7. scannedBytes' \in Nat /\ scannedBytes' <= MaxScanned
    <3>1. code \in Nat
      BY <2>2, <2>3, <2>5, SectionFacts
    <3>. QED BY <2>2, <3>1, Given, PaidFits, RecoveryConstants
  <2>8. RecTypes'
    <3>1. /\ IsListed(sections)' /\ ToSet(sections)' \subseteq ToSet(Image.sections)
          /\ Len(sections)' <= Len(Image.sections)
      <4>1. ToSet(ss) \subseteq ToSet(image.sections)
        BY <2>3 DEF RecInv, RecTypes
      <4>2. n + 1 <= Len(image.sections)
        BY <2>3, ListedFacts
      <4>3. IsListed(sections') /\ ToSet(sections') \subseteq ToSet(image.sections) /\ Len(sections') <= Len(image.sections)
        BY <2>3, <2>5, <2>6, <4>1, <4>2
      <4>4. IsListed(sections)' /\ ToSet(sections)' = ToSet(sections')
        BY <4>3 DEF IsListed, ToSet
      <4>. QED BY <2>3, <4>3, <4>4
    <3>2. IsListed(candidates)' /\ windows' \in Seq(WindowType') /\ wanted' \in Seq(WantedType')
      BY <1>1, <2>2 DEF IsListed, ToSet
    <3>. QED BY <1>1, <2>2, <2>4, <3>1, <3>2, Given DEF RecInv, RecTypes
  <2>9. Prepared'
    <3>1. ASSUME NEW i \in 1..Len(sections') PROVE ~ Outside(sections[i])'
      <4>1. CASE i = n + 1
        <5>1. sections'[i] = entry
          BY <2>3, <2>6, <4>1
        <5>. QED BY <2>2, <2>4, <5>1 DEF Outside
      <4>2. CASE i \in 1..n
        <5>1. sections'[i] = sections[i] /\ ~ Outside(sections[i])
          BY <2>3, <2>6, <4>2 DEF RecInv, Prepared
        <5>. QED BY <2>4, <5>1 DEF Outside
      <4>. QED BY <2>3, <2>6, <4>1, <4>2
    <3>. QED BY <1>1, <2>2, <3>1 DEF Prepared
  <2>10. Waiting' /\ Backed'
    BY <1>1, <2>2 DEF Waiting, Backed
  <2>11. Bounded'
    BY <1>1, <2>2, <2>7 DEF RecInv, Bounded
  <2>. QED BY <2>8, <2>9, <2>10, <2>11 DEF RecInv
<1>. QED BY <1>2, <1>3

\* The next image begins with no sections, and what was admitted stays admitted.
LEMMA NextExecutableKeeps == RecInv /\ NextExecutable => RecInv'
<1>. SUFFICES ASSUME RecInv, NextExecutable PROVE RecInv'
  OBVIOUS
<1>1. IsListed(<<>>) /\ ToSet(<<>>) = {} /\ Len(<<>>) = 0
  BY DEF IsListed, ToSet
<1>2. Image' \in Executables
  BY DEF NextExecutable, Image
<1>3. RecTypes'
  <2>1. Len(Image'.sections) \in Nat
    BY <1>2, ImageFacts, ListedFacts
  <2>2. IsListed(sections)' /\ IsListed(candidates)' /\ ToSet(sections)' = {}
    BY <1>1 DEF NextExecutable, IsListed, ToSet
  <2>. QED BY <1>1, <1>2, <2>1, <2>2 DEF NextExecutable, RecTypes
<1>4. Bounded'
  <2>1. Len(candidates) \in Nat
    BY ListedFacts DEF RecInv, RecTypes
  <2>. QED BY <1>1, <2>1 DEF NextExecutable, RecInv, Bounded
<1>5. Prepared' /\ Waiting' /\ Backed'
  BY <1>1 DEF NextExecutable, Prepared, Waiting, Backed
<1>. QED BY <1>3, <1>4, <1>5 DEF RecInv

\* Every step of the recovery keeps the invariant.
LEMMA RecStep == RecInv /\ [RecoveryNext]_recovery => RecInv'
<1>. SUFFICES ASSUME RecInv, [RecoveryNext]_recovery PROVE RecInv'
  OBVIOUS
<1>1. CASE UNCHANGED recovery
  BY <1>1, Given, SameSections DEF recovery
<1>. QED BY <1>1, PeHeaderKeeps, PeSectionKeeps, SearchKeeps, EndsKeep, GlobalsKeeps, LookAtWindowKeeps,
            ConsumeKeeps, ReadFailsKeeps, NextExecutableKeeps DEF RecoveryNext

\* The invariant says of every candidate what the property says.
LEMMA RecInvIsSound == RecInv => RecoveryIsSound
<1>. SUFFICES ASSUME RecInv PROVE RecoveryIsSound
  OBVIOUS
<1>1. DOMAIN candidates = 1..Len(candidates) /\ DOMAIN sections = 1..Len(sections)
  BY ListedFacts DEF RecInv, RecTypes
<1>2. RecoveryIsBounded
  BY <1>1 DEF RecInv, Bounded, RecoveryIsBounded
<1>3. ASSUME NEW i \in 1..Len(candidates), NEW a \in candidates[i].from
      PROVE  \E j \in 1..Len(sections) :
               /\ a >= sections[j].address /\ a - sections[j].address + KeyBytes <= sections[j].rawSize
               /\ sections[j].rawOffset + a - sections[j].address + KeyBytes <= Image.bytes
  <2>1. a \in Int /\ Stored(a)
    BY DEF RecInv, Backed, Found
  <2>2. PICK j \in 1..Len(sections) :
          a >= sections[j].address /\ a - sections[j].address + KeyBytes <= sections[j].rawSize
    BY <1>1, <2>1 DEF Stored, Mapped
  <2>3. PICK f, z, o, total : f = sections[j].address /\ z = sections[j].rawSize /\ o = sections[j].rawOffset
                              /\ total = Image.bytes /\ f \in Nat /\ z \in Nat /\ o \in Nat /\ total \in Nat
    BY ParsedSection DEF RecInv
  <2>4. ~ (o > total) /\ ~ (z > total - o)
    BY <2>3 DEF RecInv, Prepared, Outside
  <2>5. o + a - f + KeyBytes <= total
    <3>1. KeyBytes \in Nat
      BY RecoveryConstants
    <3>2. a - f + KeyBytes <= z
      BY <2>2, <2>3
    <3>3. PICK n : n = KeyBytes /\ n \in Nat
      BY <3>1
    <3>4. /\ a \in Int /\ f \in Nat /\ z \in Nat /\ o \in Nat /\ total \in Nat
          /\ a - f + n <= z /\ ~ (o > total) /\ ~ (z > total - o)
      BY <2>1, <2>3, <2>4, <3>2, <3>3
    <3>5. o + a - f + n <= total
      BY ONLY <3>3, <3>4
    <3>. QED BY <3>3, <3>5
  <2>. QED BY <2>2, <2>3, <2>5
<1>4. CandidatesAreStored
  BY <1>1, <1>3 DEF CandidatesAreStored
<1>. QED BY <1>2, <1>4 DEF RecoveryIsSound

(***************************************************************************)
(* RecoveryIsSound: whatever executables are visited, under one budget,    *)
(* the candidates fit the storage reserved for them, are distinct, and     *)
(* were read from bytes of a section that the file holds.                  *)
(***************************************************************************)
THEOREM RecoveryIsAlwaysSound == RecoverySpec => []RecoveryIsSound
BY RecInvInit, RecStep, RecInvIsSound, PTL DEF RecoverySpec
=============================================================================
