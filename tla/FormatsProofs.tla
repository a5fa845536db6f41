---------------------------- MODULE FormatsProofs ----------------------------
(***************************************************************************)
(* The readers of stored formats: what MCFormats explores on small inputs, *)
(* for every input and every limit.                                        *)
(***************************************************************************)
EXTENDS FastLz, GodotListing, RawListings, ImportRemap, RsccView, PckDirectory, PickleVm, DataInduction, SequenceTheorems

-----------------------------------------------------------------------------
(***************************************************************************)
(* FastLz.  The two readers part at two places only: a block of one byte,  *)
(* which the stream refuses at once and the walk at its first token, and a *)
(* far match whose operands are the last bytes, after which nothing is     *)
(* left to read.                                                           *)
(***************************************************************************)
LzType ==
  /\ size \in Nat /\ ip \in Nat /\ level \in {1, 2} /\ turn \in {"token", "between"}
  /\ block \in {"runs", "accepts", "rejects"} /\ stream \in {"runs", "accepts", "rejects"}

\* What the readers have in common, and where each goes on alone.
LzInv ==
  /\ LzType
  /\ block = "runs" => stream = "runs" \/ (size = 1 /\ ip = 1 /\ turn = "token")
  /\ stream = "runs" /\ block # "runs" =>
       block = "rejects" /\ far /\ turn = "between" /\ ip = size /\ level = 2
  /\ block = "accepts" => stream = "accepts"
  /\ stream = "accepts" => block = "accepts" \/ (block = "rejects" /\ far)
  /\ far => level = 2

\* Before the first byte the readers have read nothing and agree.
LEMMA LzInvInit == LzInit => LzInv
<1>. SUFFICES ASSUME LzInit PROVE LzInv
  OBVIOUS
<1>1. size \in Nat /\ level \in {1, 2}
  BY LzAssumption DEF LzInit
<1>2. ~far
  BY DEF LzInit
<1>3. block = "runs" => stream = "runs" \/ size = 1
  BY <1>1 DEF LzInit
<1>. QED BY <1>1, <1>2, <1>3 DEF LzInit, LzInv, LzType

\* A run of literals leaves both readers at the same byte, or stops both.
LEMMA LiteralKeeps == LzInv /\ Literal => LzInv'
<1>. SUFFICES ASSUME LzInv, Literal PROVE LzInv'
  OBVIOUS
<1>1. PICK n \in Literals :
        /\ Token(n, n) /\ far' = FALSE
        /\ block' = Reject(block, Overruns(n, n))
        /\ stream' = Reject(stream, Overruns(n, n))
  BY DEF Literal
<1>2. n \in Nat /\ n > 0
  BY LzAssumption
<1>3. turn = "token" /\ LzRunning
  BY DEF Literal, AtToken
<1>0. ~far'
  BY <1>1
<1>6. /\ ip' = ip + n /\ turn' = "between" /\ size' = size /\ level' = level
      /\ block' = (IF Overruns(n, n) THEN "rejects" ELSE block)
      /\ stream' = (IF Overruns(n, n) THEN "rejects" ELSE stream)
  BY <1>1 DEF Token, Reject
<1>4. CASE Overruns(n, n)
  BY <1>0, <1>6, <1>2, <1>3, <1>4 DEF LzInv, LzType
<1>5. CASE ~Overruns(n, n)
  <2>1. ip + n <= size
    BY <1>2, <1>5 DEF Overruns, LzInv, LzType
  <2>2. block = "runs" <=> stream = "runs"
    BY <2>1, <1>2, <1>3 DEF LzInv, LzType, LzRunning
  <2>. QED BY <2>2, <1>0, <1>6, <1>2, <1>3, <1>5 DEF LzInv, LzType, LzRunning
<1>. QED BY <1>4, <1>5

\* A match is judged alike, except that the stream notices the end one token later.
LEMMA MatchKeeps == LzInv /\ Match => LzInv'
<1>. SUFFICES ASSUME LzInv, Match PROVE LzInv'
  OBVIOUS
<1>1. PICK m \in Matches :
        LET span == m.escapes + 1 + (IF m.far THEN 2 ELSE 0)
        IN /\ m.escapes > 1 \/ m.far => level = 2
           /\ Token(span, m.length) /\ far' = m.far
           /\ block' = Reject(block, \/ Overruns(span, m.length) \/ m.distance > produced
                                     \/ m.far /\ ip + m.escapes + 1 >= size - 2)
           /\ stream' = Reject(stream, Overruns(span, m.length) \/ m.distance > produced)
  BY DEF Match
<1>2. m.escapes \in Nat /\ m.far \in BOOLEAN
  BY LzAssumption
<1>3. turn = "token" /\ LzRunning /\ ip > 1
  BY DEF Match, AtToken
<1>. DEFINE span == m.escapes + 1 + (IF m.far THEN 2 ELSE 0)
            bad == Overruns(span, m.length) \/ m.distance > produced
            last == m.far /\ ip + m.escapes + 1 >= size - 2
<1>4. span \in Nat /\ span > 0
  BY <1>2
<1>5. /\ ip' = ip + span /\ turn' = "between" /\ size' = size /\ level' = level
      /\ block' = (IF bad \/ last THEN "rejects" ELSE block)
      /\ stream' = (IF bad THEN "rejects" ELSE stream)
      /\ far' = m.far /\ (m.far => level = 2)
  BY <1>1 DEF Token, Reject
<1>6. block = "runs" => stream = "runs"
  BY <1>3 DEF LzInv, LzType
<1>7. stream = "runs" => block = "runs"
  BY <1>3 DEF LzInv, LzType
<1>8. block = "runs" /\ stream = "runs"
  BY <1>3, <1>6, <1>7 DEF LzRunning
<1>9. ~bad => ip + span <= size
  BY <1>2 DEF Overruns, LzInv, LzType
<1>10. last => ip + span >= size
  BY <1>2 DEF LzInv, LzType
<1>11. LzType'
  BY <1>2, <1>4, <1>5, <1>8 DEF LzInv, LzType
<1>12. last /\ ~bad => ip' = size' /\ far'
  BY <1>2, <1>4, <1>5, <1>9, <1>10 DEF LzInv, LzType
<1>. HIDE DEF bad, last, span
<1>. QED BY <1>5, <1>8, <1>11, <1>12 DEF LzInv

\* Where the input ends, both readers end.
LEMMA EndKeeps == LzInv /\ End => LzInv'
BY DEF LzInv, LzType, End, Verdict, LzRunning

\* The control byte of a token is read alike.
LEMMA ControlKeeps == LzInv /\ Control => LzInv'
BY DEF LzInv, LzType, Control, LzRunning, Ended

\* Every step of the two readers keeps the invariant.
LEMMA LzStep == LzInv /\ [LzNext]_lz => LzInv'
<1>1. LzInv /\ UNCHANGED lz => LzInv'
  BY DEF LzInv, LzType, lz
<1>. QED BY <1>1, LiteralKeeps, MatchKeeps, EndKeeps, ControlKeeps DEF LzNext

\* The two readings of a block agree, whatever its tokens are, but for a far
\* match at its very end (decode_fastlz and fill_fastlz).
THEOREM ReadingsAlwaysAgree == LzSpec => []ReadingsAgree
<1>1. LzInv => ReadingsAgree
  BY DEF LzInv, ReadingsAgree
<1>. QED BY <1>1, LzInvInit, LzStep, PTL DEF LzSpec

-----------------------------------------------------------------------------
(***************************************************************************)
(* GodotListing.  The allowances hold because no charge is compared with   *)
(* more than what is left of them; the fragments stay whole because the    *)
(* mappings grow by whole fragments, each of a later entry, and a          *)
(* checkpoint is set behind every one.                                     *)
(***************************************************************************)
\* The bytes of so many slots, a product the provers need not look into.
Slots(n) == Slot * n

\* Mappings in order, of entries before one, and a cut between two fragments.
Sorted(s) == \A i, j \in 1..Len(s) : i <= j => s[i] <= s[j]
AllBelow(s, p) == \A i \in 1..Len(s) : s[i] < p
Cut(s, q) == q <= Len(s) /\ \A i \in 1..q, j \in (q + 1)..Len(s) : s[i] # s[j]

ListingCharged ==
  /\ input \in Nat /\ owned \in Nat
  /\ input <= MaxInput /\ owned <= MaxOwned
  /\ owned >= Slots(Len(mappings))
  /\ pass = "read" => position <= Len(members) /\ FragmentPeak(Entry.size) + owned <= MaxInput

Placed ==
  /\ members \in Indexes /\ position \in Nat \ {0}
  /\ pass \in {"metadata", "read", "probe", "build", "done"}
  /\ mappings \in Seq(Nat) /\ checkpoints \in Seq(Nat) /\ fragments \in Nat
  /\ Sorted(mappings)
  /\ pass \in {"metadata", "read"} => AllBelow(mappings, position)

Whole ==
  /\ \A k \in 1..Len(checkpoints) : Cut(mappings, checkpoints[k])
  /\ Len(mappings) = IF Len(checkpoints) = 0 THEN 0 ELSE checkpoints[Len(checkpoints)]
  /\ fragments <= Len(checkpoints)

ListInv == ListingCharged /\ Placed /\ Whole

\* Growing an index one mapping at a time charges what growing it at once does.
LEMMA SlotsAdd ==
  /\ Slots(0) = 0
  /\ \A a, b \in Nat : Slots(a + b) = Slots(a) + Slots(b) /\ Slots(a) \in Nat
BY ListingAssumption DEF Slots

\* The empty listing satisfies the invariant.
LEMMA ListInvInit == ListInit => ListInv
<1>. SUFFICES ASSUME ListInit PROVE ListInv
  OBVIOUS
<1>1. ListingCharged
  BY ListingAssumption, SlotsAdd DEF ListInit, ListingCharged
<1>2. Placed /\ Whole
  BY DEF ListInit, Placed, Whole, Sorted, AllBelow, Cut
<1>. QED BY <1>1, <1>2 DEF ListInv

\* What is left of an allowance, when no more than it was taken.
LEMMA ResidualIsRest ==
  ASSUME NEW bound \in Nat, bound < Unsigned, NEW used \in Nat, used <= bound
  PROVE  Residual(bound, used) = bound - used
BY ListingAssumption DEF Residual

\* The member that is read next is one the directory may hold.
LEMMA EntryIsTyped ==
  ASSUME Placed, position <= Len(members)
  PROVE  /\ Entry.size \in Nat
         /\ Entry.fragment.charge \in Nat /\ Entry.fragment.mappings \in Int
         /\ Entry.fragment.charge >= Slots(Entry.fragment.mappings)
<1>1. position \in 1..Len(members)
  BY IndexAssumption DEF Placed
<1>. QED BY <1>1, IndexAssumption DEF Placed, Entry, Slots

\* A fragment put behind the mappings that are there: it keeps their order, and
\* no cut behind an earlier fragment goes through it.
Repeated(n, p) == [i \in 1..n |-> p]

\* Where the items of a concatenation come from.
LEMMA ConcatShape ==
  ASSUME NEW T, NEW s \in Seq(T), NEW r \in Seq(T)
  PROVE  /\ s \o r \in Seq(T) /\ Len(s \o r) = Len(s) + Len(r)
         /\ \A i \in 1..Len(s) : (s \o r)[i] = s[i]
         /\ \A i \in (Len(s) + 1)..(Len(s) + Len(r)) : (s \o r)[i] = r[i - Len(s)]
OBVIOUS

\* n copies of a place are a sequence of that place.
LEMMA RepeatedIs ==
  ASSUME NEW n \in Nat, NEW p \in Nat
  PROVE  \E r \in Seq(Nat) : r = Repeated(n, p) /\ Len(r) = n /\ \A i \in 1..n : r[i] = p
<1>1. Repeated(n, p) \in Seq(Nat) /\ Len(Repeated(n, p)) = n /\ \A i \in 1..n : Repeated(n, p)[i] = p
  BY DEF Repeated
<1>. QED BY <1>1

\* A fragment grows by what is appended to it.
LEMMA FragmentHead ==
  ASSUME NEW s \in Seq(Nat), NEW n \in Nat, NEW p \in Nat, NEW t, t = s \o Repeated(n, p)
  PROVE  t \in Seq(Nat) /\ Len(t) = Len(s) + n
<1>1. PICK r \in Seq(Nat) : r = Repeated(n, p) /\ Len(r) = n
  BY RepeatedIs
<1>2. t = s \o r
  BY <1>1
<1>3. t \in Seq(Nat)
  BY <1>2, ConcatShape
<1>4. Len(t) = Len(s) + n
  BY <1>1, <1>2, ConcatShape
<1>. QED BY <1>3, <1>4

\* Appending to a fragment leaves what it held.
LEMMA FragmentFront ==
  ASSUME NEW s \in Seq(Nat), NEW n \in Nat, NEW p \in Nat, NEW i \in 1..Len(s)
  PROVE  (s \o Repeated(n, p))[i] = s[i]
<1>1. PICK r \in Seq(Nat) : r = Repeated(n, p)
  BY RepeatedIs
<1>. QED BY <1>1, ConcatShape

\* What is appended to a fragment is the place of the member that brought it.
LEMMA FragmentTail ==
  ASSUME NEW s \in Seq(Nat), NEW n \in Nat, NEW p \in Nat, NEW i \in Nat, Len(s) < i, i <= Len(s) + n
  PROVE  (s \o Repeated(n, p))[i] = p
<1>1. PICK r \in Seq(Nat) : r = Repeated(n, p) /\ Len(r) = n /\ \A j \in 1..n : r[j] = p
  BY RepeatedIs
<1>2. i \in (Len(s) + 1)..(Len(s) + Len(r)) /\ i - Len(s) \in 1..n
  BY <1>1
<1>3. (s \o r)[i] = r[i - Len(s)]
  BY <1>2, ConcatShape
<1>. QED BY <1>1, <1>2, <1>3

\* A fragment that the next member extends stays sorted, below the next place, and keeps its cuts.
LEMMA FragmentFacts ==
  ASSUME NEW p \in Nat, NEW s \in Seq(Nat), NEW t \in Seq(Nat),
         Len(s) <= Len(t), Sorted(s), AllBelow(s, p),
         \A i \in 1..Len(s) : t[i] = s[i],
         \A i \in Nat : Len(s) < i /\ i <= Len(t) => t[i] = p
  PROVE  /\ Sorted(t) /\ AllBelow(t, p + 1) /\ Cut(t, Len(t))
         /\ \A q \in Nat : Cut(s, q) => Cut(t, q)
<1>3. PICK m, l \in Nat : m = Len(s) /\ l = Len(t) /\ m <= l
  OBVIOUS
<1>4. /\ \A i \in 1..m : t[i] = s[i] /\ s[i] \in Nat /\ s[i] < p
      /\ \A i \in Nat : m < i /\ i <= l => t[i] = p
  BY <1>3 DEF AllBelow
<1>5. \A i, j \in 1..m : i <= j => s[i] <= s[j]
  BY <1>3 DEF Sorted
<1>6. Sorted(t)
  <2>1. ASSUME NEW i \in 1..l, NEW j \in 1..l, i <= j PROVE t[i] <= t[j]
    <3>1. i \in 1..m \/ i \in (m + 1)..l
      BY <1>3
    <3>2. j \in 1..m \/ (j \in (m + 1)..l)
      BY <1>3
    <3>3. j \in 1..m => i \in 1..m
      BY <2>1
    <3>. QED BY <3>1, <3>2, <3>3, <1>4, <1>5, <2>1
  <2>. QED BY <2>1, <1>3 DEF Sorted
<1>7. AllBelow(t, p + 1)
  <2>1. ASSUME NEW i \in 1..l PROVE t[i] < p + 1
    <3>1. i \in 1..m \/ i \in (m + 1)..l
      BY <1>3
    <3>. QED BY <3>1, <1>4
  <2>. QED BY <2>1, <1>3 DEF AllBelow
<1>8. Cut(t, Len(t))
  BY <1>3 DEF Cut
<1>9. ASSUME NEW q \in Nat, Cut(s, q) PROVE Cut(t, q)
  <2>1. q <= m /\ \A i \in 1..q, j \in (q + 1)..m : s[i] # s[j]
    BY <1>3, <1>9 DEF Cut
  <2>2. ASSUME NEW i \in 1..q, NEW j \in (q + 1)..l PROVE t[i] # t[j]
    <3>1. i \in 1..m /\ t[i] = s[i] /\ s[i] \in Nat /\ s[i] < p
      BY <1>3, <1>4, <2>1
    <3>2. j \in (q + 1)..m \/ j \in (m + 1)..l
      BY <1>3, <2>1
    <3>3. CASE j \in (m + 1)..l
      BY <1>4, <3>1, <3>3
    <3>4. CASE j \in (q + 1)..m
      <4>1. j \in 1..m /\ t[j] = s[j]
        BY <1>4, <3>4
      <4>. QED BY <2>1, <3>1, <3>4, <4>1
    <3>. QED BY <3>2, <3>3, <3>4
  <2>. QED BY <1>3, <2>1, <2>2 DEF Cut
<1>. QED BY <1>6, <1>7, <1>8, <1>9

\* What a fragment needs at its peak is a number.
LEMMA PeakIsInt ==
  ASSUME NEW n \in Nat
  PROVE  FragmentPeak(n) \in Int
BY ListingAssumption DEF FragmentPeak

\* A checkpoint appends one number.
LEMMA CheckpointFacts ==
  ASSUME NEW s \in Seq(Nat), NEW n \in Nat
  PROVE  /\ Append(s, n) \in Seq(Nat) /\ Len(Append(s, n)) = Len(s) + 1
         /\ \A k \in 1..Len(s) : Append(s, n)[k] = s[k]
         /\ Append(s, n)[Len(s) + 1] = n
OBVIOUS

\* Retaining a fragment keeps what is charged above what is held.
LEMMA RetainKeepsCharged ==
  ASSUME ListInv, pass = "read", NEW fragment, fragment.charge \in Nat, fragment.mappings \in Int,
         fragment.charge >= Slots(fragment.mappings), Retain(fragment),
         members' = members, input' = input
  PROVE  ListingCharged'
<1>0. owned \in Nat /\ owned <= MaxOwned /\ input \in Nat /\ input <= MaxInput /\ owned >= Slots(Len(mappings))
  BY DEF ListInv, ListingCharged
<1>1. pass' # "read" /\ input' = input
  BY DEF Retain, NextEntry, EndMetadata
<1>2. CASE UNCHANGED <<owned, mappings>>
  BY <1>0, <1>1, <1>2 DEF ListingCharged
<1>3. CASE /\ fragment.mappings >= 0
           /\ ~ (fragment.charge > Residual(MaxOwned, owned))
           /\ owned' = owned + fragment.charge
           /\ mappings' = mappings \o [i \in 1..fragment.mappings |-> position]
  <2>1. Residual(MaxOwned, owned) = MaxOwned - owned /\ MaxOwned \in Nat
    BY <1>0, ListingAssumption, ResidualIsRest
  <2>2. owned' \in Nat /\ owned' <= MaxOwned
    BY <1>0, <1>3, <2>1
  <2>3. Len(mappings') = Len(mappings) + fragment.mappings
    BY <1>3, FragmentHead DEF ListInv, Placed, Repeated
  <2>4. PICK a, b \in Nat : a = Len(mappings) /\ b = fragment.mappings
    BY <1>3 DEF ListInv, Placed
  <2>5. Slots(a + b) = Slots(a) + Slots(b) /\ Slots(a) \in Nat /\ Slots(b) \in Nat
    BY SlotsAdd
  <2>6. owned' >= Slots(Len(mappings'))
    BY <1>0, <1>3, <2>3, <2>4, <2>5
  <2>. QED BY <1>0, <1>1, <2>2, <2>6 DEF ListingCharged
<1>. QED BY <1>2, <1>3 DEF Retain

\* Retaining a fragment moves no member.
LEMMA RetainKeepsPlaces ==
  ASSUME ListInv, pass = "read", NEW fragment, fragment.charge \in Nat, fragment.mappings \in Int,
         Retain(fragment), UNCHANGED <<members, fragments>>
  PROVE  Placed' /\ Whole'
<1>0. /\ members \in Indexes /\ position \in Nat \ {0} /\ fragments \in Nat
      /\ mappings \in Seq(Nat) /\ checkpoints \in Seq(Nat)
      /\ Sorted(mappings) /\ AllBelow(mappings, position)
      /\ \A k \in 1..Len(checkpoints) : Cut(mappings, checkpoints[k])
      /\ fragments <= Len(checkpoints)
  BY DEF ListInv, Placed, Whole
<1>1. CASE UNCHANGED <<mappings, checkpoints>>
  <2>1. /\ pass' \in {"metadata", "probe"}
        /\ pass' = "metadata" => position' = position + 1
        /\ position' \in Nat \ {0}
    BY <1>0 DEF Retain, NextEntry, EndMetadata
  <2>2. pass' = "metadata" => AllBelow(mappings, position')
    BY <1>0, <2>1 DEF AllBelow
  <2>3. Placed'
    BY <1>0, <1>1, <2>1, <2>2 DEF Placed, Sorted, AllBelow
  <2>. QED BY <1>1, <2>3 DEF ListInv, Whole, Cut
<1>2. CASE /\ fragment.mappings >= 0
           /\ mappings' = mappings \o [i \in 1..fragment.mappings |-> position]
           /\ checkpoints' = Append(checkpoints, Len(mappings'))
           /\ NextEntry("metadata")
  <2>1. PICK n \in Nat, p \in Nat, s \in Seq(Nat) :
          n = fragment.mappings /\ p = position /\ s = mappings /\ Sorted(s) /\ AllBelow(s, p)
    BY <1>0, <1>2
  <2>2. PICK t : t = mappings' /\ t = s \o Repeated(n, p)
    BY <1>2, <2>1 DEF Repeated
  <2>3. /\ t \in Seq(Nat) /\ Sorted(t) /\ AllBelow(t, p + 1) /\ Cut(t, Len(t))
        /\ \A q \in Nat : Cut(s, q) => Cut(t, q)
    <3>0. t \in Seq(Nat)
      BY <2>1, <2>2, FragmentHead
    <3>1. Len(t) = Len(s) + n
      <4>1. t = s \o Repeated(n, p)
        BY <2>2
      <4>2. s \in Seq(Nat) /\ n \in Nat /\ p \in Nat
        BY <2>1
      <4>. QED BY ONLY <4>1, <4>2, FragmentHead
    <3>3. \A i \in 1..Len(s) : t[i] = s[i]
      <4>1. ASSUME NEW i \in 1..Len(s) PROVE t[i] = s[i]
        BY <2>1, <2>2, FragmentFront
      <4>. QED BY <4>1
    <3>4. \A i \in Nat : Len(s) < i /\ i <= Len(t) => t[i] = p
      BY <2>1, <2>2, <3>1, FragmentTail
    <3>2. Len(s) <= Len(t)
      BY <2>1, <3>1
    <3>5. Sorted(s) /\ AllBelow(s, p)
      BY <2>1
    <3>. QED BY <2>1, <3>0, <3>2, <3>3, <3>4, <3>5, FragmentFacts
  <2>4. PICK c : c = checkpoints /\ c \in Seq(Nat)
    BY <1>0
  <2>0. Len(t) \in Nat
    BY <2>3
  <2>5. PICK d : d = checkpoints' /\ d = Append(c, Len(t))
    <3>1. checkpoints' = Append(checkpoints, Len(mappings'))
      BY <1>2
    <3>. QED BY <3>1, <2>2, <2>4
  <2>6. /\ d \in Seq(Nat) /\ Len(d) = Len(c) + 1 /\ Len(c) \in Nat
        /\ \A k \in 1..Len(c) : d[k] = c[k]
        /\ d[Len(c) + 1] = Len(t)
    BY <2>0, <2>4, <2>5, CheckpointFacts
  <2>7. pass' = "metadata" /\ position' = position + 1
    BY <1>2 DEF NextEntry
  <2>8. Placed'
    <3>1. Sorted(mappings)'
      BY <2>2, <2>3 DEF Sorted
    <3>2. AllBelow(mappings, position)'
      <4>1. position' = p + 1
        BY <2>1, <2>7
      <4>. QED BY <2>2, <2>3, <4>1 DEF AllBelow
    <3>3. mappings' \in Seq(Nat) /\ checkpoints' \in Seq(Nat) /\ fragments' \in Nat /\ members' \in Indexes
      BY <1>0, <2>2, <2>3, <2>5, <2>6
    <3>4. position' \in Nat \ {0}
      BY <1>0, <2>7
    <3>. QED BY <2>7, <3>1, <3>2, <3>3, <3>4 DEF Placed
  <2>9. ASSUME NEW k \in 1..Len(c) PROVE Cut(t, c[k])
    <3>1. PICK q \in Nat : q = c[k]
      BY <2>4
    <3>2. Cut(s, q)
      BY <1>0, <2>1, <2>4, <3>1
    <3>. QED BY <2>3, <3>1, <3>2
  <2>10. ASSUME NEW k \in 1..Len(d) PROVE Cut(t, d[k])
    <3>1. k \in 1..Len(c) \/ k = Len(c) + 1
      BY <2>6
    <3>2. CASE k \in 1..Len(c)
      <4>1. d[k] = c[k]
        BY <2>6, <3>2
      <4>. QED BY <2>9, <3>2, <4>1
    <3>3. CASE k = Len(c) + 1
      BY <2>3, <2>6, <3>3
    <3>. QED BY <3>1, <3>2, <3>3
  <2>11. Whole'
    <3>1. (\A k \in 1..Len(checkpoints) : Cut(mappings, checkpoints[k]))'
      BY <2>2, <2>5, <2>10 DEF Cut
    <3>2. Len(d) # 0 /\ d[Len(d)] = Len(t)
      BY <2>6
    <3>3. (Len(mappings) = IF Len(checkpoints) = 0 THEN 0 ELSE checkpoints[Len(checkpoints)])'
      BY <2>2, <2>5, <3>2
    <3>4. (fragments <= Len(checkpoints))'
      BY <1>0, <2>4, <2>5, <2>6
    <3>. QED BY <3>1, <3>3, <3>4 DEF Whole
  <2>. QED BY <2>8, <2>11
<1>. QED BY <1>1, <1>2 DEF Retain

\* Reading a fragment, whole or torn.
LEMMA ReadKeeps == ListInv /\ (ReadMetadata \/ ReadMetadataTorn) => ListInv'
<1>. SUFFICES ASSUME ListInv, ReadMetadata \/ ReadMetadataTorn PROVE ListInv'
  OBVIOUS
<1>1. pass = "read" /\ position <= Len(members) /\ UNCHANGED <<members, input, fragments>>
  BY DEF ReadMetadata, ReadMetadataTorn, Listed
<1>2. PICK f : /\ Retain(f) /\ f.charge \in Nat /\ f.mappings \in Int
               /\ f.charge >= Slots(f.mappings)
  <2>1. CASE ReadMetadata
    BY <1>1, <2>1, EntryIsTyped DEF ReadMetadata, ListInv
  <2>2. CASE ReadMetadataTorn
    <3>1. PICK f \in {Malformed} \cup
            {[charge |-> Slot * n, mappings |-> n] : n \in 0..(Entry.fragment.mappings - 1)} : Retain(f)
      BY <2>2 DEF ReadMetadataTorn
    <3>2. CASE f = Malformed
      <4>1. f.charge = 0 /\ f.mappings = -1
        BY <3>2 DEF Malformed
      <4>. QED BY <3>1, <4>1, ListingAssumption DEF Slots
    <3>3. CASE f # Malformed
      <4>1. PICK n \in 0..(Entry.fragment.mappings - 1) : f = [charge |-> Slot * n, mappings |-> n]
        BY <3>1, <3>3
      <4>2. n \in Nat /\ f.charge = Slot * n /\ f.mappings = n
        BY <4>1
      <4>3. Slots(n) = Slot * n /\ Slots(n) \in Nat
        BY <4>2, SlotsAdd DEF Slots
      <4>. QED BY <3>1, <4>2, <4>3
    <3>. QED BY <3>2, <3>3
  <2>. QED BY <2>1, <2>2
<1>3. ListingCharged'
  BY <1>1, <1>2, RetainKeepsCharged
<1>4. Placed' /\ Whole'
  BY <1>1, <1>2, RetainKeepsPlaces
<1>. QED BY <1>3, <1>4 DEF ListInv

\* Charging the input keeps the invariant.
LEMMA ChargeKeeps == ListInv /\ ChargeInput => ListInv'
<1>. SUFFICES ASSUME ListInv, ChargeInput PROVE ListInv'
  OBVIOUS
<1>1. /\ pass = "metadata" /\ position <= Len(members)
      /\ UNCHANGED <<members, owned, mappings, checkpoints, fragments>>
  BY DEF ChargeInput, Listed
<1>2. Entry.size \in Nat
  BY <1>1, EntryIsTyped DEF ListInv
<1>3. Residual(MaxInput, input) = MaxInput - input /\ Residual(MaxInput, owned) = MaxInput - owned
  BY ListingAssumption, ResidualIsRest DEF ListInv, ListingCharged
<1>4. input' \in Nat /\ input' <= MaxInput
  BY <1>2, <1>3, ListingAssumption DEF ChargeInput, Eligible, ListInv, ListingCharged
<1>5. \/ pass' = "probe" /\ position' = 1
      \/ pass' = "read" /\ position' = position /\ FragmentPeak(Entry.size) <= MaxInput - owned
  <2>. HIDE DEF FragmentPeak, Eligible
  <2>1. PICK p \in Int : p = FragmentPeak(Entry.size)
    BY <1>2, PeakIsInt
  <2>2. owned \in Nat /\ MaxInput \in Nat
    BY ListingAssumption DEF ListInv, ListingCharged
  <2>3. (pass' = "probe" /\ position' = 1) \/ (pass' = "read" /\ position' = position /\ ~ (p > MaxInput - owned))
    BY <1>3, <2>1 DEF ChargeInput, EndMetadata
  <2>. QED BY <2>1, <2>2, <2>3
<1>6. pass' = "read" => position' = position /\ FragmentPeak(Entry.size) + owned <= MaxInput
  <2>1. PICK p \in Int : p = FragmentPeak(Entry.size)
    BY <1>2, PeakIsInt
  <2>2. owned \in Nat /\ MaxInput \in Nat
    BY ListingAssumption DEF ListInv, ListingCharged
  <2>. QED BY <1>5, <2>1, <2>2
<1>7. ListingCharged'
  <2>1. pass' = "read" => Entry' = Entry
    BY <1>1, <1>6 DEF Entry
  <2>2. pass' = "read" => (position <= Len(members) /\ FragmentPeak(Entry.size) + owned <= MaxInput)'
    <3>. SUFFICES ASSUME pass' = "read"
                  PROVE  (position <= Len(members))' /\ (FragmentPeak(Entry.size) + owned <= MaxInput)'
      OBVIOUS
    <3>1. (Entry.size)' = Entry.size
      BY <2>1
    <3>2. (position <= Len(members))'
      BY <1>1, <1>6
    <3>3. (FragmentPeak(Entry.size) + owned <= MaxInput)'
      BY <3>1, <1>1, <1>6 DEF FragmentPeak
    <3>. QED BY <3>2, <3>3
  <2>. QED BY <1>1, <1>4, <2>2 DEF ListInv, ListingCharged
<1>8. Placed'
  BY <1>1, <1>5 DEF ListInv, Placed, Sorted, AllBelow
<1>9. Whole'
  BY <1>1 DEF ListInv, Whole, Cut
<1>. QED BY <1>7, <1>8, <1>9 DEF ListInv

\* Every step that reads no metadata leaves the charges and the mappings alone.
LEMMA OtherListingSteps ==
  ASSUME ListInv,
         UNCHANGED <<members, input, owned, mappings, checkpoints>>,
         position' \in Nat \ {0}, pass' \in {"metadata", "probe", "build", "done"},
         pass' = "metadata" => pass = "metadata" /\ position' >= position,
         fragments' \in Nat, fragments' <= Len(checkpoints)
  PROVE  ListInv'
<1>1. ListingCharged'
  BY DEF ListInv, ListingCharged, Slots
<1>2. pass' = "metadata" => AllBelow(mappings, position')
  <2>1. PICK s \in Seq(Nat), p \in Nat, q \in Nat : s = mappings /\ p = position /\ q = position'
    BY DEF ListInv, Placed
  <2>2. AllBelow(s, p) /\ p <= q => AllBelow(s, q)
    BY DEF AllBelow
  <2>. QED BY <2>1, <2>2 DEF ListInv, Placed
<1>3. Placed'
  BY <1>2 DEF ListInv, Placed, Sorted, AllBelow
<1>4. Whole'
  BY DEF ListInv, Whole, Cut
<1>. QED BY <1>1, <1>3, <1>4 DEF ListInv

\* Every step of the listing keeps the invariant.
LEMMA ListStep == ListInv /\ [ListNext]_list => ListInv'
<1>. SUFFICES ASSUME ListInv, [ListNext]_list PROVE ListInv'
  OBVIOUS
<1>0. position \in Nat \ {0} /\ fragments \in Nat /\ fragments <= Len(checkpoints) /\ Len(checkpoints) \in Nat
  BY DEF ListInv, Placed, Whole
<1>1. CASE SkipEntry \/ MetadataEnds
  BY <1>0, <1>1, OtherListingSteps DEF SkipEntry, MetadataEnds, EndMetadata, NextEntry, Listed
<1>2. CASE SourceFails
  BY <1>0, <1>2, OtherListingSteps DEF SourceFails
<1>3. CASE SkipProbe \/ Probe
  BY <1>0, <1>3, OtherListingSteps DEF SkipProbe, Probe, NextEntry
<1>4. CASE ProbesEnd
  BY <1>0, <1>4, OtherListingSteps DEF ProbesEnd
<1>5. CASE TreeFits \/ TreeIsBroken
  BY <1>0, <1>5, OtherListingSteps DEF TreeFits, TreeIsBroken, Build
<1>6. CASE TreeIsOverBudget
  <2>1. fragments' \in Nat /\ fragments' <= Len(checkpoints)
    BY <1>0, <1>6 DEF TreeIsOverBudget, Build
  <2>. QED BY <1>0, <1>6, <2>1, OtherListingSteps DEF TreeIsOverBudget, Build
<1>7. CASE UNCHANGED list
  <2>1. ListingCharged'
    BY <1>7 DEF list, ListInv, ListingCharged, Slots, Entry, FragmentPeak
  <2>2. Placed'
    BY <1>7 DEF list, ListInv, Placed, Sorted, AllBelow
  <2>3. Whole'
    BY <1>7 DEF list, ListInv, Whole, Cut
  <2>. QED BY <2>1, <2>2, <2>3 DEF ListInv
<1>. QED BY <1>1, <1>2, <1>3, <1>4, <1>5, <1>6, <1>7, ReadKeeps, ChargeKeeps DEF ListNext

\* The invariant says of every key what the property says.
LEMMA ListInvIsSound == ListInv => AliasSetIsSound
<1>. SUFFICES ASSUME ListInv PROVE AliasSetIsSound
  OBVIOUS
<1>1. AliasesArePaidFor
  BY DEF ListInv, ListingCharged, Slots, AliasesArePaidFor
<1>2. FragmentsAreWhole
  <2>1. /\ mappings \in Seq(Nat) /\ checkpoints \in Seq(Nat) /\ fragments \in Nat
        /\ fragments <= Len(checkpoints)
    BY DEF ListInv, Placed, Whole
  <2>2. \A i, j \in DOMAIN mappings : i <= j => mappings[i] <= mappings[j]
    BY <2>1 DEF ListInv, Placed, Sorted
  <2>3. CASE fragments = 0
    BY <2>1, <2>2, <2>3 DEF ListInv, Whole, FragmentsAreWhole, Usable
  <2>4. CASE fragments # 0
    <3>1. fragments \in 1..Len(checkpoints)
      BY <2>1, <2>4
    <3>2. PICK q \in Nat : q = checkpoints[fragments] /\ q = Usable
      BY <2>1, <2>4, <3>1 DEF Usable
    <3>3. /\ q <= Len(mappings)
          /\ \A i \in 1..q, j \in (q + 1)..Len(mappings) : mappings[i] # mappings[j]
      BY <3>1, <3>2 DEF ListInv, Whole, Cut
    <3>4. fragments = Len(checkpoints) => q = Len(mappings)
      BY <2>1, <2>4, <3>2 DEF ListInv, Whole
    <3>. HIDE DEF Usable
    <3>. QED BY <2>1, <2>2, <3>2, <3>3, <3>4 DEF FragmentsAreWhole
  <2>. QED BY <2>3, <2>4
<1>. QED BY <1>1, <1>2 DEF AliasSetIsSound

\* list_files neither passes its two allowances nor splits a fragment, whatever
\* the index, the faults of the source and the attempts at a tree.
THEOREM AliasSetStaysSound == ListSpec => []AliasSetIsSound
BY ListInvInit, ListStep, ListInvIsSound, PTL DEF ListSpec

-----------------------------------------------------------------------------
(***************************************************************************)
(* RawListings.  One part per format; no action of one format is an action *)
(* of another.  A legacy key is the sum of what the names before it        *)
(* advance, so the running key of a listing is the sum over all rows, and  *)
(* that of an extraction has moved on by the words it has decrypted.       *)
(***************************************************************************)
RowType == [offset : Int, size : Int, key : Int, name : Nat]
Weights(rs) == [j \in DOMAIN rs |-> rs[j].name + 2]
KeyOf(rs, i) == SumFunctionOnSet(Weights(rs), 1..i)

RawTypes ==
  /\ format \in {"legacy", "ace", "zanzarah", "rpa"} /\ bytes \in Nat /\ readAt \in Nat
  /\ step \in {"header", "entries", "inflate", "index", "row", "done"}
  /\ outcome \in {"none", "listed", "error"}
  /\ outcome = "listed" => step \in {"done", "row"}
  /\ step = "row" => format = "legacy"
  /\ format \in {"legacy", "zanzarah"} => rows \in Seq(RowType)

\* Rows in order, each behind its own name, and none behind the place reached.
Laid(rs, reached) ==
  \A i \in 1..Len(rs) :
    /\ rs[i].size >= 0 /\ rs[i].offset + rs[i].size <= reached
    /\ \A j \in 1..(i - 1) : rs[j].offset + rs[j].size + 8 + rs[i].name <= rs[i].offset

Keyed(rs) == \A i \in 1..Len(rs) : rs[i].key = KeyOf(rs, i)

LegacyInv ==
  format = "legacy" =>
    /\ Laid(rows, readAt) /\ Keyed(rows)
    /\ step = "header" => rows = <<>>
    /\ step \in {"header", "entries"} => runningKey = KeyOf(rows, Len(rows))
    /\ readAt <= bytes
    /\ outcome = "listed" => readAt = bytes
    /\ step # "row" => body = <<>>

\* What a chunked decryption of a row has done so far, and the key it goes on with.
DecryptedTo(b, k, extent, next) ==
  /\ b \in Seq([key : Int, shift : Int])
  /\ Len(b) % 4 = 0 \/ Len(b) = extent
  /\ Len(b) <= extent
  /\ next = k + (Len(b) \div 4)
  /\ \A i \in 1..Len(b) : b[i] = [key |-> k + ((i - 1) \div 4), shift |-> (i - 1) % 4]

BodyInv ==
  step = "row" => row \in 1..Len(rows) /\ DecryptedTo(body, rows[row].key, rows[row].size, runningKey)

ZanzarahInv ==
  format = "zanzarah" =>
    /\ step = "entries" => \A i \in 1..Len(rows) : rows[i].offset >= 4 /\ rows[i].size >= 0
    /\ step = "header" => rows = <<>>
    /\ outcome = "listed" =>
         /\ Len(rows) = announced
         /\ \A i \in 1..Len(rows) :
              rows[i].size >= 0 /\ rows[i].offset + rows[i].size <= bytes /\ rows[i].offset >= readAt + 4

OtherInv ==
  /\ format = "rpa" =>
       /\ inflated \in Nat /\ inflated <= Budget
       /\ step = "index" \/ outcome = "listed" => consumed
       /\ step # "entries"
  /\ format = "ace" /\ (outcome = "listed" \/ step = "entries") => readAt <= bytes

RawInv == RawTypes /\ LegacyInv /\ BodyInv /\ ZanzarahInv /\ OtherInv

\* The keys of no rows, and of rows with one more behind them.
LEMMA KeyOfNone == KeyOf(<<>>, 0) = 0
BY PrefixSum DEF KeyOf

\* A new row's key follows the row before it; no earlier key moves.
LEMMA KeyOfAppended ==
  ASSUME NEW rs \in Seq(RowType), NEW r \in RowType
  PROVE  /\ \A i \in 1..Len(rs) : KeyOf(Append(rs, r), i) = KeyOf(rs, i)
         /\ KeyOf(Append(rs, r), Len(rs) + 1) = KeyOf(rs, Len(rs)) + r.name + 2
         /\ KeyOf(rs, Len(rs)) \in Nat
<1>. DEFINE t == Append(rs, r)
            w == Weights(rs)
            v == Weights(t)
<1>1. Len(rs) \in Nat /\ Len(t) = Len(rs) + 1 /\ DOMAIN rs = 1..Len(rs) /\ DOMAIN t = 1..(Len(rs) + 1)
  OBVIOUS
<1>2. \A x \in 1..Len(rs) : t[x] = rs[x] /\ rs[x].name \in Nat
  <2>1. \A x \in 1..Len(rs) : t[x] = rs[x] /\ rs[x] \in RowType
    OBVIOUS
  <2>. QED BY <2>1 DEF RowType
<1>3. t[Len(rs) + 1] = r /\ r.name \in Nat
  BY DEF RowType
<1>4. \A x \in 1..Len(rs) : w[x] = rs[x].name + 2 /\ v[x] = w[x] /\ w[x] \in Nat
  BY <1>1, <1>2 DEF Weights
<1>5. v[Len(rs) + 1] = r.name + 2 /\ v[Len(rs) + 1] \in Nat
  BY <1>1, <1>3 DEF Weights
<1>6. PICK n \in Nat : n = Len(rs)
  BY <1>1
<1>. HIDE DEF t, w, v
<1>7. ASSUME NEW i \in 1..n PROVE SumFunctionOnSet(v, 1..i) = SumFunctionOnSet(w, 1..i)
  BY <1>4, <1>6, PrefixSumOfSame
<1>8. SumFunctionOnSet(v, 1..n) = SumFunctionOnSet(w, 1..n) /\ SumFunctionOnSet(w, 1..n) \in Nat
  BY <1>4, <1>6, PrefixSumOfSame, PrefixSum
<1>9. SumFunctionOnSet(v, 1..(n + 1)) = SumFunctionOnSet(v, 1..n) + v[n + 1]
  <2>1. \A x \in 1..(n + 1) : v[x] \in Nat
    BY <1>4, <1>5, <1>6
  <2>. QED BY <2>1, PrefixSumGrows
<1>10. KeyOf(t, n + 1) = KeyOf(rs, n) + r.name + 2
  BY <1>3, <1>5, <1>6, <1>8, <1>9 DEF KeyOf, t, w, v
<1>11. \A i \in 1..n : KeyOf(t, i) = KeyOf(rs, i)
  BY <1>7 DEF KeyOf, t, w, v
<1>. QED BY <1>6, <1>8, <1>10, <1>11 DEF KeyOf, t, w

\* A row behind all others keeps the order and the keys.
LEMMA LaidAppended ==
  ASSUME NEW rs \in Seq(RowType), NEW r \in RowType, NEW reached \in Int,
         Laid(rs, reached), r.size >= 0, reached + 8 + r.name <= r.offset
  PROVE  Laid(Append(rs, r), r.offset + r.size)
<1>. DEFINE t == Append(rs, r)
<1>0. reached \in Int /\ reached + 8 + r.name <= r.offset /\ r.size >= 0
  OBVIOUS
<1>1. Len(rs) \in Nat /\ Len(t) = Len(rs) + 1
  OBVIOUS
<1>2. \A x \in 1..Len(rs) : t[x] = rs[x] /\ rs[x] \in RowType
  OBVIOUS
<1>3. t[Len(rs) + 1] = r
  OBVIOUS
<1>. HIDE DEF t
<1>4. r.offset \in Int /\ r.size \in Int /\ r.name \in Nat
  BY DEF RowType
<1>7. PICK at, bytesOf, name : at = r.offset /\ bytesOf = r.size /\ name = r.name
  OBVIOUS
<1>8. ASSUME NEW a \in Int, a <= reached PROVE a + 8 + name <= at /\ a <= at + bytesOf
  <2>1. at \in Int /\ bytesOf \in Int /\ name \in Nat /\ bytesOf >= 0 /\ reached + 8 + name <= at
    BY <1>0, <1>4, <1>7
  <2>. QED BY ONLY <2>1, <1>8, <1>0
<1>5. \A x \in 1..Len(rs) : rs[x].offset \in Int /\ rs[x].size \in Int
  BY <1>2 DEF RowType
<1>6. ASSUME NEW i \in 1..Len(t)
      PROVE  /\ t[i].size >= 0 /\ t[i].offset + t[i].size <= r.offset + r.size
             /\ \A j \in 1..(i - 1) : t[j].offset + t[j].size + 8 + t[i].name <= t[i].offset
  <2>1. CASE i = Len(rs) + 1
    <3>1. ASSUME NEW j \in 1..(i - 1) PROVE t[j].offset + t[j].size + 8 + t[i].name <= t[i].offset
      <4>1. j \in 1..Len(rs) /\ t[j] = rs[j] /\ t[i] = r
        BY <1>1, <1>2, <1>3, <2>1
      <4>2. rs[j].offset + rs[j].size <= reached
        BY <4>1 DEF Laid
      <4>3. PICK a, b \in Int : a = rs[j].offset /\ b = rs[j].size /\ a + b <= reached
        BY <4>1, <4>2, <1>5
      <4>4. a + b + 8 + r.name <= r.offset
        BY <4>3, <1>7, <1>8
      <4>. QED BY <4>1, <4>3, <4>4
    <3>. QED BY <3>1, <2>1, <1>3, <1>4
  <2>2. CASE i \in 1..Len(rs)
    <3>1. t[i] = rs[i] /\ \A j \in 1..(i - 1) : t[j] = rs[j]
      BY <1>1, <1>2, <2>2
    <3>2. rs[i].size >= 0 /\ rs[i].offset + rs[i].size <= reached
      BY <2>2 DEF Laid
    <3>3. \A j \in 1..(i - 1) : rs[j].offset + rs[j].size + 8 + rs[i].name <= rs[i].offset
      BY <2>2 DEF Laid
    <3>4. rs[i].offset + rs[i].size <= r.offset + r.size
      <4>1. PICK a, b \in Int : a = rs[i].offset /\ b = rs[i].size /\ a + b <= reached
        BY <3>2, <2>2, <1>5
      <4>2. a + b <= r.offset + r.size
        BY <4>1, <1>7, <1>8
      <4>. QED BY <4>1, <4>2
    <3>. QED BY ONLY <3>1, <3>2, <3>3, <3>4
  <2>. QED BY <2>1, <2>2, <1>1
<1>. QED BY <1>6 DEF Laid, t

\* A row under the next key keeps the list keyed.
LEMMA KeyedAppended ==
  ASSUME NEW rs \in Seq(RowType), NEW r \in RowType,
         Keyed(rs), r.key = KeyOf(rs, Len(rs)) + r.name + 2
  PROVE  Keyed(Append(rs, r)) /\ KeyOf(Append(rs, r), Len(Append(rs, r))) = r.key
<1>. DEFINE t == Append(rs, r)
<1>1. Len(rs) \in Nat /\ Len(t) = Len(rs) + 1 /\ t[Len(rs) + 1] = r
  OBVIOUS
<1>2. \A x \in 1..Len(rs) : t[x] = rs[x]
  OBVIOUS
<1>3. KeyOf(t, Len(rs) + 1) = r.key
  BY KeyOfAppended
<1>4. \A i \in 1..Len(rs) : KeyOf(t, i) = KeyOf(rs, i)
  BY KeyOfAppended
<1>. HIDE DEF t
<1>5. ASSUME NEW i \in 1..Len(t) PROVE t[i].key = KeyOf(t, i)
  <2>1. i = Len(rs) + 1 \/ i \in 1..Len(rs)
    BY <1>1
  <2>. QED BY <2>1, <1>1, <1>2, <1>3, <1>4 DEF Keyed
<1>. QED BY <1>1, <1>3, <1>5 DEF Keyed, t

\* Before the header of any format nothing is listed.
LEMMA RawInvInit == ListingInit => RawInv
<1>. SUFFICES ASSUME ListingInit PROVE RawInv
  OBVIOUS
<1>1. RawTypes
  BY FieldAssumption DEF ListingInit, RawTypes
<1>2. LegacyInv
  BY <1>1, KeyOfNone DEF ListingInit, LegacyInv, Laid, Keyed, RawTypes
<1>. QED BY <1>1, <1>2, FieldAssumption DEF ListingInit, RawInv, BodyInv, ZanzarahInv, OtherInv

\* A refusal leaves no rows, and what it leaves of a listing satisfies everything.
LEMMA RefuseKeeps ==
  ASSUME RawInv, Refuse, step # "row",
         UNCHANGED <<format, bytes, inflated, consumed, body>>, readAt' = readAt
  PROVE  RawInv'
<1>1. rows' = <<>> /\ step' = "done" /\ outcome' = "error"
  BY DEF Refuse, EndListing
<1>2. RawTypes'
  BY <1>1 DEF RawInv, RawTypes
<1>3. LegacyInv'
  BY <1>1 DEF RawInv, LegacyInv, RawTypes, Laid, Keyed
<1>4. OtherInv'
  BY <1>1 DEF RawInv, OtherInv, RawTypes
<1>. QED BY <1>1, <1>2, <1>3, <1>4 DEF RawInv, BodyInv, ZanzarahInv

\* The header of an RGSS archive keeps the invariant.
LEMMA RgssHeaderKeeps == RawInv /\ RgssHeader => RawInv'
<1>. SUFFICES ASSUME RawInv, RgssHeader PROVE RawInv'
  OBVIOUS
<1>1. CASE Refuse /\ UNCHANGED readAt
  BY <1>1, RefuseKeeps DEF RgssHeader
<1>2. CASE /\ bytes >= readAt' /\ readAt' \in {8, 12} /\ step' = "entries" /\ UNCHANGED <<rows, outcome>>
  <2>1. RawTypes'
    BY <1>2 DEF RawInv, RgssHeader, RawTypes
  <2>2. ASSUME format = "legacy" PROVE Laid(rows', readAt') /\ Keyed(rows')
    BY <1>2, <2>2 DEF RawInv, RgssHeader, RawTypes, LegacyInv, Laid, Keyed
  <2>3. LegacyInv'
    BY <2>2, <1>2 DEF RawInv, RgssHeader, RawTypes, LegacyInv
  <2>4. OtherInv' /\ BodyInv' /\ ZanzarahInv'
    BY <1>2 DEF RawInv, RgssHeader, RawTypes, OtherInv, BodyInv, ZanzarahInv
  <2>. QED BY <2>1, <2>3, <2>4 DEF RawInv
<1>. QED BY <1>1, <1>2 DEF RgssHeader, RawInv, RawTypes

\* A row of a version 1 table keeps the invariant: its key is the one after its bytes.
LEMMA LegacyEntryKeeps == RawInv /\ LegacyEntry => RawInv'
<1>. SUFFICES ASSUME RawInv, LegacyEntry PROVE RawInv'
  OBVIOUS
<1>1. CASE Refuse /\ UNCHANGED <<readAt, runningKey>>
  BY <1>1, RefuseKeeps DEF LegacyEntry
<1>2. ASSUME NEW name \in NameLengths, NEW extent \in {v \in FieldValues : v >= 0},
             ~ (extent > bytes - (readAt + 8 + name)),
             rows' = Append(rows, Row(readAt + 8 + name, extent, BodyKey(name), name)),
             runningKey' = KeyBehind(name, extent), readAt' = readAt + 8 + name + extent,
             UNCHANGED <<step, outcome>>
      PROVE  RawInv'
  <2>. DEFINE r == Row(readAt + 8 + name, extent, BodyKey(name), name)
  <2>1. name \in Nat /\ extent \in Nat /\ bytes \in Nat /\ readAt \in Nat
    <3>1. bytes \in Nat /\ readAt \in Nat
      BY DEF RawInv, RawTypes
    <3>2. NameLengths \subseteq Nat /\ FieldValues \subseteq Int
      BY FieldAssumption
    <3>3. extent \in FieldValues /\ extent >= 0
      OBVIOUS
    <3>. QED BY ONLY <3>1, <3>2, <3>3, name \in NameLengths
  <2>2. format = "legacy" /\ step = "entries" /\ rows \in Seq(RowType) /\ outcome # "listed"
    BY DEF LegacyEntry, RawInv, RawTypes
  <2>3. runningKey = KeyOf(rows, Len(rows)) /\ Laid(rows, readAt) /\ Keyed(rows) /\ body = <<>>
    BY <2>2 DEF RawInv, LegacyInv
  <2>4. runningKey \in Nat
    <3>1. Row(0, 0, 0, 0) \in RowType
      BY DEF Row, RowType
    <3>. QED BY <3>1, <2>2, <2>3, KeyOfAppended
  <2>5. r \in RowType /\ r.offset = readAt + 8 + name /\ r.size = extent /\ r.name = name
        /\ r.key = runningKey + name + 2
    BY <2>1, <2>4 DEF Row, RowType, BodyKey
  <2>. HIDE DEF r
  <2>6. rows' = Append(rows, r)
    BY <1>2 DEF r
  <2>7. Laid(rows', r.offset + r.size)
    <3>1. PICK rs, at : rs = rows /\ at = readAt
      OBVIOUS
    <3>2. rs \in Seq(RowType) /\ at \in Int /\ Laid(rs, at)
      BY <2>1, <2>2, <2>3, <3>1
    <3>3. r.size >= 0 /\ at + 8 + r.name <= r.offset
      BY <2>1, <2>5, <3>1
    <3>. QED BY <3>1, <3>2, <3>3, <2>5, <2>6, LaidAppended
  <2>8. Keyed(rows') /\ KeyOf(rows', Len(rows')) = r.key
    BY <2>2, <2>3, <2>5, <2>6, KeyedAppended
  <2>9. readAt' = r.offset + r.size /\ readAt' <= bytes /\ readAt' \in Nat
    BY <1>2, <2>1, <2>5
  <2>10. runningKey' = r.key
    BY <1>2, <2>1, <2>4, <2>5 DEF KeyBehind, BodyKey
  <2>11. UNCHANGED <<format, bytes, step, outcome, body>>
    BY <1>2 DEF LegacyEntry
  <2>12. LegacyInv'
    BY <2>2, <2>3, <2>7, <2>8, <2>9, <2>10, <2>11 DEF LegacyInv
  <2>13. RawTypes'
    <3>1. rows' \in Seq(RowType)
      BY <2>2, <2>5, <2>6
    <3>. QED BY <3>1, <2>2, <2>9, <2>11 DEF RawInv, RawTypes
  <2>. QED BY <2>2, <2>11, <2>12, <2>13 DEF RawInv, BodyInv, ZanzarahInv, OtherInv
<1>. QED BY <1>1, <1>2 DEF LegacyEntry

\* A row of a version 3 table keeps the invariant.
LEMMA AceEntryKeeps == RawInv /\ AceEntry => RawInv'
<1>. SUFFICES ASSUME RawInv, AceEntry PROVE RawInv'
  OBVIOUS
<1>1. CASE Refuse /\ UNCHANGED readAt
  BY <1>1, RefuseKeeps DEF AceEntry
<1>2. CASE ~(Refuse /\ UNCHANGED readAt)
  <2>1. format' = "ace" /\ format = "ace" /\ bytes' = bytes /\ step = "entries"
    BY DEF AceEntry
  <2>2. \/ Has(4) /\ step' = "done" /\ outcome' = "listed" /\ readAt' = readAt + 4
        \/ UNCHANGED <<step, outcome>> /\ \E name \in NameLengths : Has(16 + name) /\ readAt' = readAt + 16 + name
    BY <1>2 DEF AceEntry, EndListing
  <2>3. readAt \in Nat /\ bytes \in Nat
    BY DEF RawInv, RawTypes
  <2>4. readAt' \in Nat /\ readAt' <= bytes
    BY <2>2, <2>3, FieldAssumption DEF Has
  <2>5. RawTypes'
    BY <2>1, <2>2, <2>4 DEF RawInv, RawTypes
  <2>. QED BY <2>1, <2>2, <2>4, <2>5 DEF RawInv, LegacyInv, BodyInv, ZanzarahInv, OtherInv
<1>. QED BY <1>1, <1>2 DEF AceEntry

\* A listing that ends was at the last byte; one that has not begun a row has no bytes of it.
LEMMA LegacyEndsKeeps == RawInv /\ LegacyEnds => RawInv'
<1>. SUFFICES ASSUME RawInv, LegacyEnds PROVE RawInv'
  OBVIOUS
<1>1. readAt = bytes
  <2>1. readAt \in Nat /\ bytes \in Nat /\ bytes - readAt = 0
    BY DEF LegacyEnds, Left, RawInv, RawTypes
  <2>. QED BY <2>1
<1>. QED BY <1>1 DEF LegacyEnds, EndListing, RawInv, RawTypes, LegacyInv, BodyInv, ZanzarahInv, OtherInv

\* A row's stream starts at its offset, under its own key.
LEMMA BeginRowKeeps == RawInv /\ BeginRow => RawInv'
<1>. SUFFICES ASSUME RawInv, BeginRow PROVE RawInv'
  OBVIOUS
<1>1. format = "legacy" /\ step = "done" /\ rows \in Seq(RowType) /\ body = <<>>
  BY DEF BeginRow, RawInv, RawTypes, LegacyInv
<1>2. PICK i \in DOMAIN rows : row' = i /\ runningKey' = rows[i].key
  BY DEF BeginRow
<1>3. i \in 1..Len(rows) /\ rows[i].key \in Int /\ rows[i].size >= 0 /\ rows[i].size \in Int
  <2>1. i \in 1..Len(rows) /\ rows[i] \in RowType
    BY <1>1
  <2>2. rows[i].size >= 0
    BY <2>1, <1>1 DEF RawInv, LegacyInv, Laid
  <2>. QED BY <2>1, <2>2 DEF RowType
<1>4. /\ step' = "row" /\ UNCHANGED <<format, bytes, readAt, rows, body, outcome>>
  BY DEF BeginRow
<1>5. DecryptedTo(<<>>, rows[i].key, rows[i].size, rows[i].key)
  BY <1>3 DEF DecryptedTo
<1>6. BodyInv'
  BY <1>1, <1>2, <1>3, <1>4, <1>5 DEF BodyInv
<1>. QED BY <1>1, <1>4, <1>6 DEF RawInv, RawTypes, LegacyInv, ZanzarahInv, OtherInv

\* A chunk of whole words, or the last one, goes on where the chunk before it ended.
LEMMA ChunkGoesOn ==
  ASSUME NEW b, NEW k \in Int, NEW extent \in Int, NEW next, DecryptedTo(b, k, extent, next),
         NEW n \in Nat, n <= extent - Len(b), n % 4 = 0 \/ n = extent - Len(b), Len(b) < extent
  PROVE  DecryptedTo(b \o DecryptedBytes(next, n), k, extent, next + (n \div 4))
<1>1. PICK m \in Nat : m = Len(b)
  BY DEF DecryptedTo
<1>2. m % 4 = 0 /\ next = k + (m \div 4) /\ m + n <= extent
  BY <1>1 DEF DecryptedTo
<1>. DEFINE d == DecryptedBytes(next, n)
            t == b \o d
            T == [key : Int, shift : Int]
<1>3. PICK w \in Nat : m = 4 * w /\ m \div 4 = w
  BY <1>2
<1>4. next = k + w /\ next \in Int
  BY <1>2, <1>3
<1>5. ASSUME NEW i \in 1..n
      PROVE  /\ next + ((i - 1) \div 4) = k + (((m + i) - 1) \div 4)
             /\ (i - 1) % 4 = ((m + i) - 1) % 4
             /\ next + ((i - 1) \div 4) \in Int /\ (i - 1) % 4 \in Int
  BY <1>3, <1>4
<1>6. b \in Seq(T) /\ d \in Seq(T) /\ Len(d) = n
  BY <1>5 DEF DecryptedTo, DecryptedBytes
<1>7. t \in Seq(T) /\ Len(t) = m + n
  BY <1>1, <1>6, JoinedIs
<1>8. (m + n) % 4 = 0 \/ m + n = extent
  <2>1. CASE n % 4 = 0
    BY <1>3, <2>1
  <2>2. CASE n = extent - Len(b)
    BY <1>1, <2>2
  <2>. QED BY <2>1, <2>2
<1>9. next + (n \div 4) = k + ((m + n) \div 4)
  BY <1>3, <1>4
<1>10. ASSUME NEW j \in 1..(m + n) PROVE t[j] = [key |-> k + ((j - 1) \div 4), shift |-> (j - 1) % 4]
  <2>1. CASE j \in 1..m
    <3>1. t[j] = b[j]
      BY <1>1, <1>6, <2>1, JoinedIs
    <3>. QED BY <3>1, <2>1, <1>1 DEF DecryptedTo
  <2>2. CASE j > m
    <3>1. PICK i \in 1..n : j = m + i
      <4>1. j - m \in 1..n
        BY <2>2
      <4>. QED BY <4>1
    <3>2. t[j] = d[i]
      BY <1>1, <1>6, <3>1, JoinedIs
    <3>3. d[i] = [key |-> next + ((i - 1) \div 4), shift |-> (i - 1) % 4]
      BY DEF DecryptedBytes
    <3>. QED BY <3>1, <3>2, <3>3, <1>5
  <2>3. j \in 1..m \/ j > m
    OBVIOUS
  <2>. QED BY ONLY <2>1, <2>2, <2>3
<1>. HIDE DEF t, d
<1>11. DecryptedTo(t, k, extent, next + (n \div 4))
  BY <1>2, <1>7, <1>8, <1>9, <1>10 DEF DecryptedTo
<1>. QED BY <1>11 DEF t, d

\* A chunk advances the key by as many words as it holds bytes for.
LEMMA DecryptChunkKeeps == RawInv /\ DecryptChunk => RawInv'
<1>. SUFFICES ASSUME RawInv, DecryptChunk PROVE RawInv'
  OBVIOUS
<1>1. step = "row" /\ format = "legacy" /\ rows \in Seq(RowType) /\ row \in 1..Len(rows)
  BY DEF DecryptChunk, RawInv, RawTypes, BodyInv
<1>2. PICK k, extent, b, next :
        /\ k = rows[row].key /\ extent = rows[row].size /\ b = body /\ next = runningKey
        /\ k \in Int /\ extent \in Int
  <2>1. rows[row] \in RowType
    BY <1>1
  <2>2. rows[row].key \in Int /\ rows[row].size \in Int
    BY <2>1 DEF RowType
  <2>. QED BY <2>2
<1>3. DecryptedTo(b, k, extent, next)
  BY <1>1, <1>2 DEF RawInv, BodyInv
<1>4. Len(b) \in Nat /\ Len(b) < extent
  BY <1>2, <1>3 DEF DecryptedTo, DecryptChunk
<1>5. PICK n : n = Min({ChunkBytes, extent - Len(b)})
  OBVIOUS
<1>6. n \in Nat /\ n <= extent - Len(b) /\ (n % 4 = 0 \/ n = extent - Len(b))
  <2>1. PICK a, c \in Int : a = ChunkBytes /\ c = extent - Len(b)
    BY <1>2, <1>4, ChunkIsWholeWords
  <2>2. n \in {a, c} /\ n <= c
    BY <1>5, <2>1, MinOfTwo
  <2>. QED BY <2>1, <2>2, <1>2, <1>4, ChunkIsWholeWords
<1>7. body' = b \o DecryptedBytes(next, n) /\ runningKey' = next + (n \div 4)
  BY <1>2, <1>5 DEF DecryptChunk
<1>8. DecryptedTo(body', k, extent, runningKey')
  BY <1>2, <1>3, <1>4, <1>6, <1>7, ChunkGoesOn
<1>9. UNCHANGED <<format, bytes, readAt, step, announced, rows, row, outcome>>
  BY DEF DecryptChunk
<1>10. BodyInv'
  BY <1>1, <1>2, <1>8, <1>9 DEF BodyInv
<1>. QED BY <1>1, <1>9, <1>10 DEF RawInv, RawTypes, LegacyInv, ZanzarahInv, OtherInv

-----------------------------------------------------------------------------
\* Zanzarah: what its two passes over the rows establish.
LEMMA ZanHeaderKeeps == RawInv /\ ZanHeader => RawInv'
<1>. SUFFICES ASSUME RawInv, ZanHeader PROVE RawInv'
  OBVIOUS
<1>1. CASE Refuse /\ UNCHANGED <<readAt, announced>>
  BY <1>1, RefuseKeeps DEF ZanHeader
<1>2. CASE readAt' = 8 /\ step' = "entries" /\ UNCHANGED <<rows, outcome>>
  BY <1>2 DEF ZanHeader, RawInv, RawTypes, LegacyInv, BodyInv, ZanzarahInv, OtherInv
<1>. QED BY <1>1, <1>2 DEF ZanHeader

\* A row of a Zanzarah table keeps the invariant.
LEMMA ZanEntryKeeps == RawInv /\ ZanEntry => RawInv'
<1>. SUFFICES ASSUME RawInv, ZanEntry PROVE RawInv'
  OBVIOUS
<1>1. CASE Refuse /\ UNCHANGED readAt
  BY <1>1, RefuseKeeps DEF ZanEntry
<1>2. ASSUME NEW name \in NameLengths, NEW offset \in FieldValues, NEW extent \in FieldValues,
             ~ (offset < 0), ~ (extent < 4),
             rows' = Append(rows, Row(offset + 4, extent - 4, 0, name)), readAt' = readAt + 12 + name,
             UNCHANGED <<step, outcome>>
      PROVE  RawInv'
  <2>1. name \in Nat /\ offset \in Nat /\ extent \in Nat /\ extent >= 4
    <3>1. NameLengths \subseteq Nat /\ FieldValues \subseteq Int
      BY FieldAssumption
    <3>. QED BY <3>1, <1>2
  <2>2. /\ format = "zanzarah" /\ step = "entries" /\ rows \in Seq(RowType)
        /\ outcome # "listed" /\ UNCHANGED <<format, bytes>>
    BY DEF ZanEntry, RawInv, RawTypes
  <2>3. PICK r : r = Row(offset + 4, extent - 4, 0, name) /\ r \in RowType /\ r.offset >= 4 /\ r.size >= 0
    <3>. DEFINE s == Row(offset + 4, extent - 4, 0, name)
    <3>1. s.offset = offset + 4 /\ s.size = extent - 4
      BY DEF Row
    <3>2. s \in RowType
      BY <2>1 DEF Row, RowType
    <3>3. s.offset >= 4 /\ s.size >= 0
      BY <2>1, <3>1
    <3>. HIDE DEF s
    <3>. QED BY <3>2, <3>3 DEF s
  <2>4. rows' = Append(rows, r) /\ rows' \in Seq(RowType) /\ Len(rows') = Len(rows) + 1
    BY <1>2, <2>2, <2>3
  <2>5. ASSUME NEW i \in 1..Len(rows') PROVE rows'[i].offset >= 4 /\ rows'[i].size >= 0
    <3>1. rows'[i] = r \/ (i \in 1..Len(rows) /\ rows'[i] = rows[i])
      BY <2>2, <2>4
    <3>2. \A x \in 1..Len(rows) : rows[x].offset >= 4 /\ rows[x].size >= 0
      BY <2>2 DEF RawInv, ZanzarahInv
    <3>. QED BY <3>1, <3>2, <2>3
  <2>6. readAt' \in Nat
    BY <1>2, <2>1 DEF RawInv, RawTypes
  <2>7. RawTypes'
    BY <1>2, <2>2, <2>4, <2>6 DEF RawInv, RawTypes
  <2>8. ZanzarahInv'
    BY <1>2, <2>2, <2>5 DEF ZanzarahInv
  <2>. QED BY <1>2, <2>2, <2>7, <2>8 DEF RawInv, LegacyInv, BodyInv, OtherInv
<1>. QED BY <1>1, <1>2 DEF ZanEntry

\* A row inside what is left behind the directory is inside the source once it is moved there.
LEMMA RowMoved ==
  ASSUME NEW r \in RowType, NEW at \in Nat, NEW total \in Nat, NEW framed \in BOOLEAN,
         r.offset >= 4, r.size >= 0, r.offset <= total - at, r.size <= (total - at) - r.offset,
         framed => r.size >= 4
  PROVE  LET q == [r EXCEPT !.offset = @ + at, !.size = IF framed THEN @ - 4 ELSE @]
         IN  q \in RowType /\ q.size >= 0 /\ q.offset + q.size <= total /\ q.offset >= at + 4
<1>. DEFINE q == [r EXCEPT !.offset = @ + at, !.size = IF framed THEN @ - 4 ELSE @]
<1>1. PICK o, z : o = r.offset /\ z = r.size /\ o \in Int /\ z \in Int
  BY DEF RowType
<1>2. q.offset = o + at /\ q.size = (IF framed THEN z - 4 ELSE z)
  BY <1>1 DEF RowType
<1>3. q \in RowType
  <2>1. r \in [offset : Int, size : Int, key : Int, name : Nat]
    BY DEF RowType
  <2>2. o + at \in Int /\ (IF framed THEN z - 4 ELSE z) \in Int
    BY <1>1
  <2>3. q = [[r EXCEPT !.offset = o + at] EXCEPT !.size = IF framed THEN z - 4 ELSE z]
    BY <1>1
  <2>4. [r EXCEPT !.offset = o + at] \in [offset : Int, size : Int, key : Int, name : Nat]
    BY <2>1, <2>2
  <2>. QED BY <2>2, <2>3, <2>4 DEF RowType
<1>4. o >= 4 /\ z >= 0 /\ o <= total - at /\ z <= (total - at) - o
  BY <1>1
<1>5. framed => z >= 4
  BY <1>1
<1>6. q.size >= 0 /\ q.size <= z /\ q.size \in Int
  BY <1>1, <1>2, <1>4, <1>5
<1>. HIDE DEF q
<1>7. q.offset + q.size <= total /\ q.offset >= at + 4
  BY <1>1, <1>2, <1>4, <1>6
<1>. QED BY <1>3, <1>6, <1>7 DEF q

\* The end of the Zanzarah table shifts the rows to the data and keeps the invariant.
LEMMA ZanEndsKeeps == RawInv /\ ZanEnds => RawInv'
<1>. SUFFICES ASSUME RawInv, ZanEnds PROVE RawInv'
  OBVIOUS
<1>1. CASE Refuse
  BY <1>1, RefuseKeeps DEF ZanEnds
<1>2. ASSUME NEW framed \in BOOLEAN,
             \A i \in DOMAIN rows : ~ Overlong(rows[i]),
             framed => \A i \in DOMAIN rows : rows[i].size >= 4,
             rows' = [i \in DOMAIN rows |->
                        [rows[i] EXCEPT !.offset = @ + readAt, !.size = IF framed THEN @ - 4 ELSE @]],
             EndListing("listed")
      PROVE  RawInv'
  <2>1. /\ format = "zanzarah" /\ step = "entries" /\ rows \in Seq(RowType) /\ Len(rows) = announced
        /\ UNCHANGED <<format, bytes, readAt, announced>>
    BY DEF ZanEnds, RawInv, RawTypes
  <2>2. step' = "done" /\ outcome' = "listed"
    BY <1>2 DEF EndListing
  <2>3. Len(rows) \in Nat /\ DOMAIN rows = 1..Len(rows) /\ readAt \in Nat /\ bytes \in Nat
    BY <2>1 DEF RawInv, RawTypes
  <2>4. ASSUME NEW i \in 1..Len(rows)
        PROVE  /\ rows'[i] \in RowType /\ rows'[i].size >= 0
               /\ rows'[i].offset + rows'[i].size <= bytes /\ rows'[i].offset >= readAt + 4
    <3>1. PICK r, at, total : r = rows[i] /\ at = readAt /\ total = bytes
      OBVIOUS
    <3>2. r \in RowType /\ at \in Nat /\ total \in Nat
      BY <2>1, <2>3, <3>1
    <3>3. r.offset >= 4 /\ r.size >= 0
      BY <2>1, <3>1 DEF RawInv, ZanzarahInv
    <3>4. ~ (r.offset > total - at) /\ ~ (r.size > (total - at) - r.offset)
      BY <1>2, <2>3, <3>1 DEF Overlong, Left
    <3>5. r.offset <= total - at /\ r.size <= (total - at) - r.offset
      BY <3>2, <3>4 DEF RowType
    <3>6. framed => r.size >= 4
      BY <1>2, <2>3, <3>1
    <3>7. rows'[i] = [r EXCEPT !.offset = @ + at, !.size = IF framed THEN @ - 4 ELSE @]
      BY <1>2, <2>3, <3>1
    <3>. DEFINE q == [r EXCEPT !.offset = @ + at, !.size = IF framed THEN @ - 4 ELSE @]
    <3>8. q \in RowType /\ q.size >= 0 /\ q.offset + q.size <= total /\ q.offset >= at + 4
      BY <3>2, <3>3, <3>5, <3>6, RowMoved
    <3>. HIDE DEF q
    <3>. QED BY <3>1, <3>7, <3>8 DEF q
  <2>5. rows' \in Seq(RowType) /\ Len(rows') = Len(rows)
    <3>1. rows' \in [1..Len(rows) -> RowType]
      BY <1>2, <2>3, <2>4
    <3>. QED BY <3>1, <2>3
  <2>6. RawTypes'
    BY <2>1, <2>2, <2>5 DEF RawInv, RawTypes
  <2>7. ZanzarahInv'
    BY <2>1, <2>2, <2>4, <2>5 DEF ZanzarahInv
  <2>. QED BY <2>1, <2>2, <2>6, <2>7 DEF RawInv, LegacyInv, BodyInv, OtherInv
<1>. QED BY <1>1, <1>2 DEF ZanEnds

-----------------------------------------------------------------------------
\* Ren'Py: the index is inflated to the end of both streams.
LEMMA RpaHeaderKeeps == RawInv /\ RpaHeader => RawInv'
<1>. SUFFICES ASSUME RawInv, RpaHeader PROVE RawInv'
  OBVIOUS
<1>1. CASE Refuse /\ UNCHANGED readAt
  BY <1>1, RefuseKeeps DEF RpaHeader
<1>2. CASE readAt' = bytes /\ step' = "inflate" /\ UNCHANGED <<rows, outcome>>
  BY <1>2 DEF RpaHeader, RawInv, RawTypes, LegacyInv, BodyInv, ZanzarahInv, OtherInv
<1>. QED BY <1>1, <1>2 DEF RpaHeader

\* A step of the inflation keeps the invariant.
LEMMA InflateKeeps == RawInv /\ Inflate => RawInv'
<1>. SUFFICES ASSUME RawInv, Inflate PROVE RawInv'
  OBVIOUS
<1>1. CASE Refuse /\ UNCHANGED <<inflated, consumed>>
  BY <1>1, RefuseKeeps DEF Inflate
<1>2. ASSUME NEW part \in Pieces, NEW ends \in BOOLEAN, NEW all \in BOOLEAN,
             ~ (part > Budget - inflated), ~ Trailing(ends, all),
             inflated' = inflated + part, consumed' = all,
             step' = (IF ends THEN "index" ELSE step), UNCHANGED <<rows, outcome>>
      PROVE  RawInv'
  <2>1. format = "rpa" /\ step = "inflate" /\ outcome # "listed" /\ UNCHANGED <<format, bytes, readAt>>
    BY DEF Inflate, RawInv, RawTypes
  <2>2. inflated' \in Nat /\ inflated' <= Budget
    <3>1. inflated \in Nat /\ part \in Nat /\ Budget \in Nat
      BY <2>1, FieldAssumption DEF RawInv, OtherInv
    <3>. QED BY <3>1, <1>2
  <2>3. ends => consumed'
    BY <1>2, Zenon DEF Trailing
  <2>4. step' \in {"inflate", "index"} /\ (step' = "index" => ends)
    BY <1>2, <2>1
  <2>5. step' = "index" => consumed'
    BY <2>3, <2>4
  <2>6. RawTypes'
    BY <1>2, <2>1, <2>4 DEF RawInv, RawTypes
  <2>7. OtherInv'
    BY <1>2, <2>1, <2>2, <2>4, <2>5 DEF OtherInv
  <2>. QED BY <1>2, <2>1, <2>4, <2>6, <2>7 DEF RawInv, LegacyInv, BodyInv, ZanzarahInv
<1>. QED BY <1>1, <1>2 DEF Inflate

\* The rows of a Ren'Py index keep the invariant.
LEMMA RpaIndexKeeps == RawInv /\ RpaIndex => RawInv'
<1>. SUFFICES ASSUME RawInv, RpaIndex PROVE RawInv'
  OBVIOUS
<1>1. CASE Refuse
  BY <1>1, RefuseKeeps DEF RpaIndex
<1>2. CASE EndListing("listed")
  BY <1>2 DEF EndListing, RpaIndex, RawInv, RawTypes, LegacyInv, BodyInv, ZanzarahInv, OtherInv
<1>. QED BY <1>1, <1>2 DEF RpaIndex

-----------------------------------------------------------------------------
\* Every step of the raw listings keeps the invariant.
LEMMA RawStep == RawInv /\ [ListingNext]_listing => RawInv'
<1>. SUFFICES ASSUME RawInv, [ListingNext]_listing PROVE RawInv'
  OBVIOUS
<1>1. CASE UNCHANGED listing
  BY <1>1 DEF listing, RawInv, RawTypes, LegacyInv, BodyInv, ZanzarahInv, OtherInv
<1>2. CASE RgssOther
  BY <1>2, RefuseKeeps DEF RgssOther
<1>3. CASE RpaOther
  BY <1>3, RefuseKeeps DEF RpaOther
<1>. QED BY <1>1, <1>2, <1>3, RgssHeaderKeeps, LegacyEntryKeeps, LegacyEndsKeeps, AceEntryKeeps,
            BeginRowKeeps, DecryptChunkKeeps, ZanHeaderKeeps, ZanEntryKeeps, ZanEndsKeeps,
            RpaHeaderKeeps, InflateKeeps, RpaIndexKeeps DEF ListingNext

\* The invariant says of every listed row what the property says.
LEMMA RawInvIsSound == RawInv => ListingsAreSound
<1>. SUFFICES ASSUME RawInv PROVE ListingsAreSound
  OBVIOUS
<1>1. ListingsAreWhole
  BY DEF RawInv, RawTypes, LegacyInv, ZanzarahInv, OtherInv, ListingsAreWhole
<1>2. CASE format = "legacy" /\ outcome = "listed"
  <2>1. rows \in Seq(RowType) /\ Laid(rows, readAt) /\ readAt = bytes
    BY <1>2 DEF RawInv, RawTypes, LegacyInv
  <2>. QED BY <1>2, <2>1 DEF ValidatedRowsAreInside, ListingsAreSound, Laid, ListingsAreWhole
<1>3. CASE format = "zanzarah" /\ outcome = "listed"
  <2>1. rows \in Seq(RowType)
    BY <1>3 DEF RawInv, RawTypes
  <2>. QED BY <1>1, <1>3, <2>1 DEF RawInv, ZanzarahInv, ValidatedRowsAreInside, ListingsAreSound
<1>. QED BY <1>1, <1>2, <1>3 DEF ListingsAreSound, ValidatedRowsAreInside

\* The invariant says of every key what the property says.
LEMMA RawInvHasKeys == RawInv => KeysFollowTheBytes
<1>. SUFFICES ASSUME RawInv, format = "legacy" PROVE KeysFollowTheBytes
  BY DEF KeysFollowTheBytes
<1>1. rows \in Seq(RowType) /\ Keyed(rows)
  BY DEF RawInv, RawTypes, LegacyInv
<1>2. ASSUME NEW i \in DOMAIN rows
      PROVE  rows[i].key = SumFunctionOnSet([j \in DOMAIN rows |-> rows[j].name + 2], 1..i)
  BY <1>1 DEF Keyed, KeyOf, Weights
<1>3. ASSUME NEW b \in DOMAIN body
      PROVE  body[b] = [key |-> rows[row].key + ((b - 1) \div 4), shift |-> (b - 1) % 4]
  <2>1. CASE step = "row"
    <3>1. DecryptedTo(body, rows[row].key, rows[row].size, runningKey)
      BY <2>1 DEF RawInv, BodyInv
    <3>2. body \in Seq([key : Int, shift : Int])
      BY <3>1 DEF DecryptedTo
    <3>3. DOMAIN body = 1..Len(body)
      BY <3>2
    <3>. QED BY <3>1, <3>3 DEF DecryptedTo
  <2>2. CASE step # "row"
    BY <2>2 DEF RawInv, LegacyInv
  <2>. QED BY <2>1, <2>2
<1>. QED BY <1>2, <1>3 DEF KeysFollowTheBytes

(***************************************************************************)
(* ListingsAreSound: rows of the formats that validate extents lie inside  *)
(* the source and in order, and a listing is the whole of what announced   *)
(* it.  For every size of source, field, name, limit and budget.           *)
(***************************************************************************)
THEOREM ListingsAreAlwaysSound == ListingSpec => []ListingsAreSound
BY RawInvInit, RawStep, RawInvIsSound, PTL DEF ListingSpec

(***************************************************************************)
(* KeysFollowTheBytes: the key of a legacy row is the sum of what the      *)
(* names before it advance, and chunks of whole words meet the keys one    *)
(* piece would meet.  The size of a chunk matters only in that it is a     *)
(* multiple of four.                                                       *)
(***************************************************************************)
THEOREM KeysAlwaysFollowTheBytes == ListingSpec => []KeysFollowTheBytes
BY RawInvInit, RawStep, RawInvHasKeys, PTL DEF ListingSpec

-----------------------------------------------------------------------------
(***************************************************************************)
(* ImportRemap.  A line of [remap] is recorded with the path it gives or   *)
(* not at all; an error ends the scan; a half of a surrogate pair waits    *)
(* alone; and outside a group no bracket is open.                          *)
(***************************************************************************)
Features == Variants \cup {""}
PathType == [variant : Features, value : Texts]

Scanned ==
  /\ paths \in Seq(PathType)
  /\ keyed.variant \in Features
  /\ Len(paths) <= MaxMappings
  /\ \A i, j \in 1..Len(paths) : paths[i].variant = paths[j].variant => i = j

\* Until a line contradicts another, all that was recorded is there.
Remembered ==
  /\ given \in {"none", "mappings", "error"}
  /\ scanning # "done" => given = "none"
  /\ given # "error" =>
       \A line \in recorded : \E i \in 1..Len(paths) :
         paths[i].variant = line.variant /\ paths[i].value = line.value

Halves == pending \in Nat /\ (pending # 0 => Lead(pending))

Closed ==
  /\ scanning \in {"line", "assign", "value"} => brackets = <<>>
  /\ scanning = "string" /\ quoted # "skipped" => brackets = <<>>

RemapInv == Scanned /\ Remembered /\ Halves /\ StringsAreScalar /\ Closed

\* An empty text satisfies the invariant.
LEMMA RemapInvInit == RemapInit => RemapInv
<1>. SUFFICES ASSUME RemapInit PROVE RemapInv
  OBVIOUS
<1>1. Scanned /\ Remembered
  <2>1. paths = <<>> /\ recorded = {} /\ keyed.variant = "" /\ MaxMappings \in Nat
    BY RemapAssumption DEF RemapInit
  <2>2. Scanned
    <3>0. <<>> \in Seq(PathType) /\ Len(<<>>) = 0
      OBVIOUS
    <3>1. paths \in Seq(PathType) /\ Len(paths) = 0
      BY <2>1, <3>0
    <3>2. keyed.variant \in Features
      BY <2>1 DEF Features
    <3>3. Len(paths) <= MaxMappings
      <4>1. PICK m, n : m = MaxMappings /\ n = Len(paths) /\ m \in Nat /\ n = 0
        BY <2>1, <3>1
      <4>2. n <= m
        BY ONLY <4>1
      <4>. QED BY <4>1, <4>2
    <3>. QED BY <3>1, <3>2, <3>3 DEF Scanned
  <2>3. given \in {"none", "error"} /\ (scanning # "done" => given = "none")
    BY DEF RemapInit
  <2>. QED BY <2>1, <2>2, <2>3 DEF Remembered
<1>2. Halves /\ StringsAreScalar /\ Closed
  BY DEF RemapInit, Halves, StringsAreScalar, Closed
<1>. QED BY <1>1, <1>2 DEF RemapInv

\* Unicode is a number, and two halves of a pair join to a scalar value (the
\* constants are too large for Zenon, which writes them in unary).
LEMMA UnicodeIsNat == Unicode \in Nat
BY SMT DEF Unicode

\* A surrogate pair stands for one scalar value.
LEMMA JoinedIsScalar ==
  ASSUME NEW lead \in Nat, NEW trail \in Nat, Lead(lead), Trail(trail)
  PROVE  Joined(lead, trail) \in 0..Unicode /\ ~Lead(Joined(lead, trail)) /\ ~Trail(Joined(lead, trail))
<1>1. 55296 <= lead /\ lead < 56320 /\ 56320 <= trail /\ trail < 57344
  BY SMT DEF Lead, Trail
<1>2. PICK c : c = Joined(lead, trail)
  BY SMT
<1>3. c \in Nat /\ 65536 <= c /\ c <= 1114111
  BY <1>1, <1>2, SMT DEF Joined
<1>4. c \in 0..Unicode
  <2>1. c <= Unicode
    BY <1>3, SMT DEF Unicode
  <2>. QED BY <1>3, <2>1, UnicodeIsNat, SMT
<1>5. ~ Lead(c) /\ ~ Trail(c)
  BY <1>3, SMT DEF Lead, Trail
<1>. QED BY <1>2, <1>4, <1>5, SMT

\* What neither adds a line, nor decodes, nor opens a bracket.
LEMMA ScanningOnKeeps ==
  ASSUME RemapInv,
         \/ MalformedText \/ SectionName \/ Key \/ Assignment \/ BareToken \/ String \/ Character \/ EndOfText
  PROVE  RemapInv'
<1>1. Scanned'
  <2>1. keyed'.variant \in Features
    BY DEF RemapInv, Scanned, Features, MalformedText, SectionName, Key, Keys, Assignment, BareToken, String,
           Character, EndOfText
  <2>2. UNCHANGED paths
    BY DEF MalformedText, SectionName, Key, Assignment, BareToken, String, Character, EndOfText
  <2>. QED BY <2>1, <2>2 DEF RemapInv, Scanned
<1>2. Remembered'
  <2>1. UNCHANGED <<paths, recorded>>
    BY DEF MalformedText, SectionName, Key, Assignment, BareToken, String, Character, EndOfText
  <2>2. scanning # "done"
    BY DEF MalformedText, SectionName, Key, Assignment, BareToken, String, Character, EndOfText
  <2>3. given' \in {"none", "mappings", "error"} /\ (scanning' # "done" => given' = "none")
    BY <2>2 DEF RemapInv, Remembered, MalformedText, SectionName, Key, Assignment, BareToken, String, Character,
       EndOfText, Skip, Fail
  <2>. QED BY <2>1, <2>2, <2>3 DEF RemapInv, Remembered
<1>3. Halves'
  BY DEF RemapInv, Halves, MalformedText, SectionName, Key, Assignment, BareToken, String, Character, EndOfText
<1>4. StringsAreScalar'
  BY DEF RemapInv, StringsAreScalar, MalformedText, SectionName, Key, Assignment, BareToken, String, Character,
         EndOfText
<1>5. Closed'
  BY DEF RemapInv, Closed, MalformedText, SectionName, Key, Assignment, BareToken, String, Character, EndOfText,
         Skip, Fail
<1>. QED BY <1>1, <1>2, <1>3, <1>4, <1>5 DEF RemapInv

\* A value inside brackets is skipped until the last of them closes.
LEMMA BracketsKeep ==
  ASSUME RemapInv, OpenBracket \/ CloseBracket
  PROVE  RemapInv'
<1>1. UNCHANGED <<paths, recorded, keyed, pending, codePoints>> /\ scanning # "done"
  BY DEF OpenBracket, CloseBracket
<1>2. Scanned' /\ Halves' /\ StringsAreScalar'
  BY <1>1 DEF RemapInv, Scanned, Halves, StringsAreScalar
<1>3. given' \in {"none", "mappings", "error"} /\ (scanning' # "done" => given' = "none")
  BY <1>1 DEF RemapInv, Remembered, OpenBracket, CloseBracket, Skip, Fail
<1>4. Remembered'
  BY <1>1, <1>3 DEF RemapInv, Remembered
<1>5. Closed'
  BY DEF RemapInv, Closed, OpenBracket, CloseBracket, Skip, Fail
<1>. QED BY <1>2, <1>4, <1>5 DEF RemapInv

\* An escape is a scalar value, half of one that waits, or the end of the scan.
LEMMA EscapeKeeps ==
  ASSUME RemapInv, NEW value \in Escapes, Escape(value)
  PROVE  RemapInv'
<1>1. value \in Nat
  BY RemapAssumption
<1>2. Scanned' /\ Closed'
  BY DEF RemapInv, Scanned, Closed, Escape, Fail
<1>3. Remembered'
  BY DEF RemapInv, Remembered, Escape, Fail
<1>4. CASE Surrogate(value)
  BY <1>1, <1>2, <1>3, <1>4 DEF RemapInv, Halves, StringsAreScalar, Escape, Surrogate
<1>5. CASE ~Surrogate(value) /\ ~Lead(value) /\ Decodable(value)
  <2>1. /\ codePoints' = codePoints \cup {IF Trail(value) THEN Joined(pending, value) ELSE value}
        /\ pending' = 0
    BY <1>5 DEF Escape
  <2>2. PICK c : c = IF Trail(value) THEN Joined(pending, value) ELSE value
    OBVIOUS
  <2>3. c \in 0..Unicode /\ ~Lead(c) /\ ~Trail(c)
    <3>1. CASE Trail(value)
      <4>1. pending \in Nat /\ Lead(pending)
        BY <1>5, <3>1 DEF Decodable, RemapInv, Halves
      <4>. QED BY <1>1, <2>2, <3>1, <4>1, JoinedIsScalar
    <3>2. CASE ~Trail(value)
      BY <1>1, <1>5, <2>2, <3>2, UnicodeIsNat DEF Decodable
    <3>. QED BY <3>1, <3>2
  <2>. QED BY <1>2, <1>3, <2>1, <2>2, <2>3 DEF RemapInv, Halves, StringsAreScalar
<1>6. CASE ~Surrogate(value) /\ ~ (~Lead(value) /\ Decodable(value))
  BY <1>2, <1>3, <1>6 DEF RemapInv, Halves, StringsAreScalar, Escape
<1>. QED BY <1>4, <1>5, <1>6

\* A line that is kept is remembered, or contradicts an earlier one and ends the scan.
LEMMA AddPathKeeps ==
  ASSUME RemapInv, NEW v \in Features, NEW value \in Texts, AddPath(v, value),
         scanning # "done", keyed' = keyed,
         recorded' = recorded \cup {[variant |-> v, value |-> value]}
  PROVE  Scanned' /\ Remembered'
<1>. DEFINE same == {i \in DOMAIN paths : paths[i].variant = v}
<1>0. DOMAIN paths = 1..Len(paths) /\ Len(paths) \in Nat
  BY DEF RemapInv, Scanned
<1>1. CASE \E i \in same : paths[i].value # value
  <2>1. UNCHANGED paths /\ Fail
    BY <1>1 DEF AddPath
  <2>. QED BY <2>1 DEF RemapInv, Scanned, Remembered, Fail
<1>2. CASE ~ (\E i \in same : paths[i].value # value) /\ same # {}
  <2>1. UNCHANGED <<paths, given>> /\ scanning' = "line"
    BY <1>2 DEF AddPath
  <2>2. \E i \in 1..Len(paths) : paths[i].variant = v /\ paths[i].value = value
    BY <1>0, <1>2
  <2>. QED BY <2>1, <2>2 DEF RemapInv, Scanned, Remembered
<1>3. CASE ~ (\E i \in same : paths[i].value # value) /\ same = {} /\ Len(paths) >= MaxMappings
  <2>1. UNCHANGED paths /\ Fail
    BY <1>3 DEF AddPath
  <2>. QED BY <2>1 DEF RemapInv, Scanned, Remembered, Fail
<1>4. CASE ~ (\E i \in same : paths[i].value # value) /\ same = {} /\ ~ (Len(paths) >= MaxMappings)
  <2>1. paths' = Append(paths, [variant |-> v, value |-> value]) /\ UNCHANGED given /\ scanning' = "line"
    BY <1>4 DEF AddPath
  <2>2. /\ paths' \in Seq(PathType)
        /\ Len(paths') = Len(paths) + 1
        /\ \A i \in 1..Len(paths) : paths'[i] = paths[i]
        /\ paths'[Len(paths) + 1] = [variant |-> v, value |-> value]
    BY <2>1 DEF RemapInv, Scanned, PathType
  <2>3. \A i \in 1..Len(paths) : paths[i].variant # v
    BY <1>0, <1>4
  <2>4. Len(paths') <= MaxMappings
    BY <1>0, <1>4, <2>2, RemapAssumption
  <2>5. ASSUME NEW i \in 1..Len(paths'), NEW j \in 1..Len(paths'), paths'[i].variant = paths'[j].variant
        PROVE  i = j
    BY <1>0, <2>2, <2>3, <2>5 DEF RemapInv, Scanned
  <2>6. ASSUME NEW line \in recorded', given' # "error"
        PROVE  \E i \in 1..Len(paths') : paths'[i].variant = line.variant /\ paths'[i].value = line.value
    <3>1. CASE line \in recorded
      <4>1. PICK i \in 1..Len(paths) : paths[i].variant = line.variant /\ paths[i].value = line.value
        BY <2>1, <2>6, <3>1 DEF RemapInv, Remembered
      <4>. QED BY <1>0, <2>2, <4>1
    <3>2. CASE line = [variant |-> v, value |-> value]
      BY <1>0, <2>2, <3>2
    <3>. QED BY <2>6, <3>1, <3>2
  <2>. QED BY <2>1, <2>2, <2>4, <2>5, <2>6 DEF RemapInv, Scanned, Remembered
<1>. QED BY <1>1, <1>2, <1>3, <1>4

\* The closing quote ends a key, a value that is kept or skipped, or a string in a group.
LEMMA QuoteKeeps == RemapInv /\ Quote => RemapInv'
<1>. SUFFICES ASSUME RemapInv, Quote PROVE RemapInv'
  OBVIOUS
<1>1. scanning = "string" /\ codePoints' = {} /\ UNCHANGED <<brackets, pending, quoted>>
  BY DEF Quote
<1>2. Halves' /\ StringsAreScalar'
  BY <1>1 DEF RemapInv, Halves, StringsAreScalar
<1>3. Closed'
  BY <1>1 DEF RemapInv, Closed, Quote, Record, AddPath, Skip, Fail
<1>4. Scanned' /\ Remembered'
  <2>1. CASE \E value \in Texts : Record(value) /\ UNCHANGED keyed
    <3>1. PICK value \in Texts : Record(value) /\ UNCHANGED keyed
      BY <2>1
    <3>2. CASE UNCHANGED <<paths, recorded>>
      BY <1>1, <3>1, <3>2 DEF Record, AddPath, Fail, RemapInv, Scanned, Remembered
    <3>3. CASE /\ AddPath(keyed.variant, value)
               /\ recorded' = recorded \cup {[variant |-> keyed.variant, value |-> value]}
      <4>1. keyed.variant \in Features
        BY DEF RemapInv, Scanned
      <4>. QED BY <1>1, <3>1, <3>3, <4>1, AddPathKeeps
    <3>. QED BY <3>1, <3>2, <3>3 DEF Record
  <2>2. CASE UNCHANGED <<paths, recorded>> /\ keyed'.variant \in Features
             /\ given' \in {given, "error"} /\ (given' = "error" => scanning' = "done")
    BY <1>1, <2>2 DEF RemapInv, Scanned, Remembered
  <2>. QED BY <1>1, <2>1, <2>2 DEF Quote, Keys, Features, Skip, Fail, RemapInv, Scanned, Remembered
<1>. QED BY <1>2, <1>3, <1>4 DEF RemapInv

\* Every step of the scan keeps the invariant.
LEMMA RemapStep == RemapInv /\ [RemapNext]_remap => RemapInv'
<1>1. RemapInv /\ UNCHANGED remap => RemapInv'
  BY DEF RemapInv, Scanned, Remembered, Halves, StringsAreScalar, Closed, remap
<1>. QED BY <1>1, ScanningOnKeeps, BracketsKeep, EscapeKeeps, QuoteKeeps DEF RemapNext

\* The invariant says of the mappings what the property says.
LEMMA RemapInvIsSound == RemapInv => MetadataIsSound
<1>. SUFFICES ASSUME RemapInv PROVE MetadataIsSound
  OBVIOUS
<1>1. DOMAIN paths = 1..Len(paths) /\ Len(paths) \in Nat
  BY DEF RemapInv, Scanned
<1>2. DOMAIN Mappings = 1..Len(paths) /\ Len(Mappings) = Len(paths)
  BY <1>1 DEF Mappings
<1>3. \A i \in 1..Len(paths) :
        Mappings[i].variant = paths[i].variant /\ Mappings[i].compiled = Normalize(paths[i].value)
  BY <1>1 DEF Mappings
<1>4. PathsAgree
  BY <1>1, <1>2, <1>3 DEF PathsAgree, RemapInv, Scanned, Remembered
<1>5. GroupsAreClosed
  BY DEF GroupsAreClosed, RemapInv, Closed
<1>. QED BY <1>4, <1>5 DEF MetadataIsSound, RemapInv

(***************************************************************************)
(* MetadataIsSound: whatever a text repeats, nests or escapes, what        *)
(* read_import_remap accepts gives each feature one path, its strings hold *)
(* scalar values of Unicode, and no line starts inside a group.            *)
(***************************************************************************)
THEOREM MetadataIsAlwaysSound == RemapSpec => []MetadataIsSound
BY RemapInvInit, RemapStep, RemapInvIsSound, PTL DEF RemapSpec

-----------------------------------------------------------------------------
(***************************************************************************)
(* RsccView.  The decoder never takes a byte after its block nor makes one *)
(* more than it declares and is padded to; the place the view carries      *)
(* along is always the sum of the sizes before it; and a read under way    *)
(* stands inside the block that its position belongs to.                   *)
(***************************************************************************)
\* Block i begins at this byte, a product the provers need not look into.
Start(f, i) == i * f.blockSize
BlockOf(f, x) == x \div f.blockSize
Inside(f, x) == x % f.blockSize

Spent == physicalRead - unread = physical /\ decoded = OutputSize
WindowIsLast == decoded = windowStart + windowSize

DecoderSizes ==
  /\ physical \in Nat /\ logical \in Nat /\ unread \in Nat /\ physicalRead \in Nat /\ decoded \in Nat
  /\ windowStart \in Nat /\ windowSize \in Nat /\ content = windowStart
  /\ physicalRead <= physical /\ decoded <= OutputSize

\* FastLZ fills a whole window, and so the padding too, before it returns with part of a block.
PastPadding == decoded = 0 \/ decoded >= PaddedBytes

DecoderInv ==
  /\ DecoderSizes /\ WindowIsLast /\ fast \in BOOLEAN
  /\ complete => Spent
  /\ fast /\ ~complete => PastPadding

\* What the constructor found out.
Opened(f) ==
  f.blockSize > 0 /\ DataStart(f) <= DataEnd(f) /\ BlockPlace(f, Blocks(f)) = DataEnd(f)

Works == viewing \notin {"open", "failed"}

\* The table: where the walk over it is, and the block it gave a decoder.
Located ==
  Works =>
    /\ Opened(file)
    /\ nextIndex \in 0..Blocks(file) /\ nextOffset = BlockPlace(file, nextIndex)
    /\ cached = None \/ (/\ cached \in 0..(Blocks(file) - 1) /\ place = BlockPlace(file, cached)
                         /\ logical = LogicalBytes(file, cached))

\* The read under way: its block is that of its position.
Reads ==
  Works =>
    /\ sought \in Nat /\ left \in Nat /\ stop \in Nat
    /\ viewing # "idle" => sought + left <= file.total
    /\ viewing = "load" => index = BlockOf(file, sought)
    /\ viewing \in {"copy", "tail", "finish", "next"} => index = cached /\ cached # None
    /\ viewing = "copy" =>
         /\ index = BlockOf(file, sought) /\ InBlock = Inside(file, sought)
         /\ InBlock < stop /\ stop - InBlock <= left /\ windowStart <= InBlock /\ stop <= logical
    /\ viewing = "tail" => decoded = OutputSize

\* A block that was read to its end was finished, and nothing is read before the table is.
Finished == viewing \in {"next", "idle"} /\ cached # None /\ stop = logical => complete
Unread == viewing = "open" => nextIndex = 0 /\ cached = None /\ sought = 0 /\ left = 0 /\ stop = 0

PieceIsTheDecoders ==
  piece # <<>> =>
    LET i == BlockOf(file, piece.at)
    IN /\ Opened(file)
       /\ piece.place = BlockPlace(file, i)
       /\ piece.first = Inside(file, piece.at)
       /\ piece.first + piece.amount <= LogicalBytes(file, i)

RsccInv ==
  /\ file \in Containers
  /\ viewing \in {"open", "idle", "load", "copy", "tail", "finish", "next", "failed"}
  /\ DecoderInv /\ Located /\ Reads /\ Finished /\ Unread /\ PieceIsTheDecoders

-----------------------------------------------------------------------------
(* Division, of which the provers know little.                             *)

\* A position is a block's beginning and the rest.
LEMMA DivisionIs ==
  ASSUME NEW k \in Nat \ {0}, NEW x \in Nat
  PROVE  \E q, r \in Nat : q = x \div k /\ r = x % k /\ r < k /\ q * k \in Nat /\ x = q * k + r
<1>1. x % k \in 0..(k - 1) /\ x \div k \in Int /\ x = k * (x \div k) + (x % k)
  OBVIOUS
<1>2. PICK q, r : q = x \div k /\ r = x % k /\ q \in Int /\ r \in 0..(k - 1)
  BY <1>1
<1>3. x = k * q + r
  BY <1>1, <1>2
<1>4. q <= -1 => k * q <= -k
  BY <1>2
<1>5. PICK m : m = k * q /\ m \in Int
  BY <1>2
<1>6. ~ (q <= -1)
  BY <1>2, <1>3, <1>4, <1>5
<1>7. q \in Nat /\ q * k = m
  BY <1>2, <1>5, <1>6
<1>8. m \in Nat
  BY <1>2, <1>3, <1>5, <1>7
<1>9. q * k \in Nat /\ x = q * k + r /\ r \in Nat /\ r < k
  BY <1>2, <1>3, <1>5, <1>7, <1>8
<1>. QED BY ONLY <1>2, <1>7, <1>9

\* More of k is more.
LEMMA ProductsGrow ==
  ASSUME NEW k \in Nat, NEW a \in Nat, NEW b \in Nat, a <= b
  PROVE  a * k \in Nat /\ b * k \in Nat /\ a * k <= b * k
         /\ (a < b => a * k + k <= b * k)
<1>1. PICK d \in Nat : b = a + d
  <2>1. b - a \in Nat /\ b = a + (b - a)
    OBVIOUS
  <2>. QED BY <2>1
<1>2. b * k = a * k + d * k
  BY <1>1
<1>3. a * k \in Nat /\ d * k \in Nat /\ b * k \in Nat
  OBVIOUS
<1>4. a < b => d >= 1
  BY <1>1
<1>5. d >= 1 => d * k >= k
  <2>. SUFFICES ASSUME d >= 1 PROVE d * k >= k
    OBVIOUS
  <2>1. PICK e \in Nat : d = e + 1
    <3>1. d - 1 \in Nat /\ d = (d - 1) + 1
      OBVIOUS
    <3>. QED BY <3>1
  <2>2. d * k = e * k + k /\ e * k \in Nat
    BY <2>1
  <2>. QED BY <2>2
<1>6. PICK x, y, z : x = a * k /\ y = b * k /\ z = d * k
  OBVIOUS
<1>7. y = x + z /\ x \in Nat /\ y \in Nat /\ z \in Nat /\ (d >= 1 => z >= k)
  BY <1>2, <1>3, <1>5, <1>6
<1>. QED BY <1>4, <1>6, <1>7

\* No other block and rest make the same position.
LEMMA DivisionIsUnique ==
  ASSUME NEW k \in Nat \ {0}, NEW x \in Nat, NEW q \in Nat, NEW r \in Nat, r < k, x = q * k + r
  PROVE  x \div k = q /\ x % k = r
<1>1. PICK p, s \in Nat : p = x \div k /\ s = x % k /\ s < k /\ p * k \in Nat /\ x = p * k + s
  BY DivisionIs
<1>2. PICK u, v : u = p * k /\ v = q * k /\ u \in Nat /\ v \in Nat
  BY <1>1
<1>3. x = u + s /\ x = v + r
  BY <1>1, <1>2
<1>4. p < q => u + k <= v
  BY <1>1, <1>2, ProductsGrow
<1>5. q < p => v + k <= u
  BY <1>1, <1>2, ProductsGrow
<1>6. p = q
  BY <1>1, <1>2, <1>3, <1>4, <1>5
<1>7. u = v
  BY <1>2, <1>6
<1>8. s = r
  BY <1>1, <1>2, <1>3, <1>7
<1>. QED BY <1>1, <1>6, <1>8

\* A position further on is in no earlier block.
LEMMA DivisionGrows ==
  ASSUME NEW k \in Nat \ {0}, NEW x \in Nat, NEW y \in Nat, x <= y
  PROVE  x \div k <= y \div k
<1>1. PICK p, s \in Nat : p = x \div k /\ s = x % k /\ s < k /\ p * k \in Nat /\ x = p * k + s
  BY DivisionIs
<1>2. PICK q, r \in Nat : q = y \div k /\ r = y % k /\ r < k /\ q * k \in Nat /\ y = q * k + r
  BY DivisionIs
<1>3. PICK u, v : u = p * k /\ v = q * k /\ u \in Nat /\ v \in Nat
  BY <1>1, <1>2
<1>4. x = u + s /\ y = v + r
  BY <1>1, <1>2, <1>3
<1>5. q < p => v + k <= u
  BY <1>1, <1>2, <1>3, ProductsGrow
<1>6. ~ (q < p)
  BY <1>1, <1>2, <1>3, <1>4, <1>5
<1>. QED BY <1>1, <1>2, <1>6

-----------------------------------------------------------------------------
(* The container.                                                          *)

LEMMA ContainerFacts ==
  ASSUME NEW f \in Containers, f.blockSize > 0
  PROVE  /\ f.stored \in Nat /\ f.blockSize \in Nat /\ f.total \in Nat
         /\ Blocks(f) \in Nat \ {0} /\ Blocks(f) = BlockOf(f, f.total) + 1
         /\ Len(f.sizes) = Blocks(f) /\ \A i \in 1..Blocks(f) : f.sizes[i] \in Nat
         /\ DataStart(f) \in Nat /\ DataEnd(f) \in Int
<1>1. /\ f.stored \in Nat /\ f.blockSize \in Nat /\ f.total \in Nat /\ f.sizes \in Seq(Nat)
      /\ Len(f.sizes) = Blocks(f)
  BY ContainerAssumption
<1>2. f.total \div f.blockSize \in Nat
  <2>1. f.blockSize \in Nat \ {0}
    BY <1>1
  <2>. QED BY <1>1, <2>1, DivisionIs
<1>3. Blocks(f) \in Nat \ {0} /\ Blocks(f) = BlockOf(f, f.total) + 1
  BY <1>2 DEF Blocks, BlockOf
<1>4. \A i \in 1..Blocks(f) : f.sizes[i] \in Nat
  BY <1>1
<1>. QED BY <1>1, <1>3, <1>4 DEF DataStart, DataEnd, RsccHeaderBytes, EntryBytes, MagicBytes

\* A block begins where the one before it ends, and a run of blocks where the walk stands.
LEMMA PlacesGrow ==
  ASSUME NEW f \in Containers, f.blockSize > 0, NEW i \in Nat, i < Blocks(f)
  PROVE  /\ BlockPlace(f, 0) = DataStart(f)
         /\ BlockPlace(f, i) \in Nat
         /\ BlockPlace(f, i + 1) = BlockPlace(f, i) + f.sizes[i + 1]
<1>1. \A x \in 1..(i + 1) : f.sizes[x] \in Nat
  BY ContainerFacts
<1>2. SumFunctionOnSet(f.sizes, 1..(i + 1)) = SumFunctionOnSet(f.sizes, 1..i) + f.sizes[i + 1]
  BY <1>1, PrefixSumGrows
<1>3. SumFunctionOnSet(f.sizes, 1..0) = 0 /\ SumFunctionOnSet(f.sizes, 1..i) \in Nat
  BY <1>1, PrefixSum
<1>4. PICK a, b, c, s : /\ a = SumFunctionOnSet(f.sizes, 1..i) /\ b = SumFunctionOnSet(f.sizes, 1..(i + 1))
                        /\ c = f.sizes[i + 1] /\ s = DataStart(f)
                        /\ a \in Nat /\ c \in Nat /\ s \in Nat /\ b = a + c
  BY <1>1, <1>2, <1>3, ContainerFacts
<1>5. s + b = (s + a) + c /\ s + a \in Nat /\ s + 0 = s
  BY <1>4
<1>. QED BY <1>3, <1>4, <1>5 DEF BlockPlace, StoredBytes

LEMMA RunOfBlocks ==
  ASSUME NEW f \in Containers, f.blockSize > 0, NEW i \in Nat, NEW j \in Nat, i <= j, j < Blocks(f)
  PROVE  BlockPlace(f, i) + StoredBytes(f, i + 1, j) = BlockPlace(f, j)
<1>0. Blocks(f) \in Nat /\ i < Blocks(f)
  BY ContainerFacts
<1>. DEFINE PlaceIs(n) == BlockPlace(f, i) + StoredBytes(f, i + 1, n) = BlockPlace(f, n)
            Fails == {n \in Nat : i <= n /\ n <= j /\ ~PlaceIs(n)}
<1>1. SUFFICES ASSUME Fails # {} PROVE FALSE
  BY <1>1
<1>2. PICK n \in Fails : \A m \in Fails : n <= m
  <2>1. Fails \in SUBSET Nat
    OBVIOUS
  <2>. HIDE DEF Fails
  <2>. QED BY <1>1, <2>1, LeastElement
<1>3. n \in Nat /\ i <= n /\ n <= j /\ ~PlaceIs(n)
  OBVIOUS
<1>4. n # i
  <2>1. (i + 1)..i = {}
    OBVIOUS
  <2>2. StoredBytes(f, i + 1, i) = 0
    BY <2>1, SumOfNone DEF StoredBytes
  <2>3. BlockPlace(f, i) \in Nat
    BY <1>0, PlacesGrow
  <2>4. PlaceIs(i)
    BY <2>2, <2>3
  <2>. QED BY <1>3, <2>4
<1>5. PICK m \in Nat : n = m + 1 /\ i <= m /\ m < j
  <2>1. n - 1 \in Nat /\ n = (n - 1) + 1 /\ i <= n - 1 /\ n - 1 < j
    BY <1>3, <1>4
  <2>. QED BY <2>1
<1>6. PlaceIs(m)
  <2>1. ~ (n <= m)
    BY <1>5
  <2>2. m \notin Fails
    BY <1>2, <2>1
  <2>. QED BY <1>3, <1>5, <2>2
<1>7. StoredBytes(f, i + 1, n) = f.sizes[n] + StoredBytes(f, i + 1, m)
  <2>1. IsFiniteSet((i + 1)..m) /\ n \notin (i + 1)..m
    BY <1>5, FS_Interval
  <2>2. (i + 1)..n = ((i + 1)..m) \cup {n}
    BY <1>5
  <2>3. \A x \in ((i + 1)..m) \cup {n} : f.sizes[x] \in Nat
    <3>1. \A x \in ((i + 1)..m) \cup {n} : x \in 1..Blocks(f)
      BY <1>3, <1>5, ContainerFacts
    <3>. QED BY <3>1, ContainerFacts
  <2>. QED BY <2>1, <2>2, <2>3, SumWithOneMore DEF StoredBytes
<1>8. StoredBytes(f, i + 1, m) \in Nat
  <2>1. IsFiniteSet((i + 1)..m)
    BY <1>5, FS_Interval
  <2>2. \A x \in (i + 1)..m : f.sizes[x] \in Nat
    <3>1. \A x \in (i + 1)..m : x \in 1..Blocks(f)
      BY <1>3, <1>5, ContainerFacts
    <3>. QED BY <3>1, ContainerFacts
  <2>. QED BY <2>1, <2>2, SumIsNat DEF StoredBytes
<1>9. m < Blocks(f) /\ f.sizes[n] \in Nat
  BY <1>3, <1>5, ContainerFacts
<1>10. BlockPlace(f, n) = BlockPlace(f, m) + f.sizes[n] /\ BlockPlace(f, i) \in Nat
  BY <1>0, <1>5, <1>9, PlacesGrow
<1>11. PICK a, b, c, d, e : /\ a = BlockPlace(f, i) /\ b = StoredBytes(f, i + 1, m) /\ c = BlockPlace(f, m)
                            /\ d = f.sizes[n] /\ e = BlockPlace(f, n) /\ a \in Nat /\ b \in Nat /\ d \in Nat
                            /\ a + b = c /\ e = c + d
  BY <1>6, <1>8, <1>9, <1>10
<1>12. a + (d + b) = e
  BY <1>11
<1>13. PlaceIs(n)
  BY <1>7, <1>11, <1>12
<1>. QED BY <1>3, <1>13

\* What is in a block: its rest, and a full block in any but the last.
LEMMA BlockFacts ==
  ASSUME NEW f \in Containers, f.blockSize > 0, NEW x \in Nat, x <= f.total
  PROVE  /\ BlockOf(f, x) \in 0..(Blocks(f) - 1) /\ Inside(f, x) \in Nat
         /\ x - Start(f, BlockOf(f, x)) = Inside(f, x)
         /\ LogicalBytes(f, BlockOf(f, x)) \in Nat /\ LogicalBytes(f, BlockOf(f, x)) <= f.blockSize
         /\ x < f.total => Inside(f, x) < LogicalBytes(f, BlockOf(f, x))
         /\ Inside(f, x) <= LogicalBytes(f, BlockOf(f, x))
<1>1. f.blockSize \in Nat /\ f.total \in Nat /\ Blocks(f) = BlockOf(f, f.total) + 1
  BY ContainerFacts
<1>2. PICK k, n : k = f.blockSize /\ n = f.total /\ k \in Nat \ {0} /\ n \in Nat /\ x <= n
  BY <1>1
<1>3. PICK q, r \in Nat : q = x \div k /\ r = x % k /\ r < k /\ q * k \in Nat /\ x = q * k + r
  BY <1>2, DivisionIs
<1>4. PICK p, s \in Nat : p = n \div k /\ s = n % k /\ s < k /\ p * k \in Nat /\ n = p * k + s
  BY <1>2, DivisionIs
<1>5. q <= p
  BY <1>2, <1>3, <1>4, DivisionGrows
<1>6. BlockOf(f, x) = q /\ Inside(f, x) = r /\ Blocks(f) = p + 1
  BY <1>1, <1>2, <1>3, <1>4 DEF BlockOf, Inside
<1>7. LogicalBytes(f, q) = IF q = p THEN s ELSE k
  <2>1. (q + 1 = Blocks(f)) <=> (q = p)
    BY <1>6
  <2>2. f.total % f.blockSize = s
    BY <1>2, <1>4
  <2>. QED BY <1>2, <2>1, <2>2 DEF LogicalBytes
<1>8. LogicalBytes(f, q) \in Nat /\ LogicalBytes(f, q) <= k
  <2>1. PICK l : l = LogicalBytes(f, q) /\ l = IF q = p THEN s ELSE k
    BY <1>7
  <2>2. l \in Nat /\ l <= k
    <3>1. k \in Nat /\ s \in Nat /\ s <= k
      BY <1>2, <1>4
    <3>. QED BY ONLY <2>1, <3>1
  <2>. QED BY <2>1, <2>2
<1>9. r <= LogicalBytes(f, q) /\ (x < n => r < LogicalBytes(f, q))
  <2>1. PICK u, v : u = q * k /\ v = p * k /\ u \in Nat /\ v \in Nat /\ x = u + r /\ n = v + s
    BY <1>3, <1>4
  <2>2. q = p => u = v
    BY <2>1
  <2>3. PICK l : l = LogicalBytes(f, q) /\ l = IF q = p THEN s ELSE k
    BY <1>7
  <2>4. CASE q = p
    <3>1. l = s /\ u = v
      BY <2>2, <2>3, <2>4
    <3>2. x \in Nat /\ n \in Nat /\ x <= n /\ r \in Nat /\ s \in Nat
      BY <1>2, <1>3, <1>4
    <3>3. r <= l /\ (x < n => r < l)
      BY ONLY <2>1, <3>1, <3>2
    <3>. QED BY <2>3, <3>3
  <2>5. CASE q # p
    <3>1. l = k
      BY <2>3, <2>5
    <3>2. r <= l /\ r < l
      BY <1>2, <1>3, <3>1
    <3>. QED BY <2>3, <3>2
  <2>. QED BY <2>4, <2>5
<1>10. x - Start(f, q) = r
  BY <1>2, <1>3 DEF Start
<1>11. q \in 0..(Blocks(f) - 1)
  BY <1>5, <1>6
<1>. QED BY <1>2, <1>6, <1>8, <1>9, <1>10, <1>11

-----------------------------------------------------------------------------
(* The decoder.                                                            *)

\* What a block must produce is at least what the table declares.
LEMMA OutputSizeIs ==
  ASSUME logical \in Nat
  PROVE  /\ OutputSize \in Nat /\ logical <= OutputSize
         /\ ~fast => OutputSize = logical
         /\ OutputSize = logical \/ OutputSize = PaddedBytes
<1>1. PaddedBytes \in Nat
  BY BufferAssumption
<1>2. CASE fast /\ logical < PaddedBytes
  BY <1>1, <1>2 DEF OutputSize
<1>3. CASE ~ (fast /\ logical < PaddedBytes)
  <2>1. OutputSize = logical
    BY <1>3, Zenon DEF OutputSize
  <2>. QED BY <2>1
<1>. QED BY <1>2, <1>3

\* A decoder that starts, or starts again, has nothing behind it.
LEMMA FreshKeeps ==
  ASSUME NEW p \in Nat, NEW l \in Nat, NEW k \in BOOLEAN, Fresh(p, l, k)
  PROVE  DecoderInv'
<1>1. PaddedBytes \in Nat /\ logical' = l
  BY BufferAssumption DEF Fresh
<1>2. OutputSize' \in Nat
  BY <1>1 DEF OutputSize
<1>3. DecoderSizes' /\ WindowIsLast' /\ PastPadding'
  BY <1>2 DEF Fresh, DecoderSizes, WindowIsLast, PastPadding
<1>4. ~complete' /\ fast' = k
  BY DEF Fresh
<1>. QED BY <1>3, <1>4, Zenon DEF DecoderInv

\* What fill makes is exact when its sizes are tolerated.
LEMMA ProduceKeeps ==
  ASSUME DecoderInv, NEW n \in Nat, NEW a \in Nat, NEW m \in Nat, NEW ended,
         n <= physical - physicalRead, a <= unread + n, m <= OutputSize - decoded,
         Produce(n, a, m, ended),
         ended => Meets(n, a, m),
         fast /\ ~ended => decoded + m >= PaddedBytes
  PROVE  /\ DecoderInv' /\ windowStart' = windowStart + windowSize
         /\ windowSize' \in Nat /\ decoded' = decoded + windowSize' /\ OutputSize' = OutputSize
         /\ UNCHANGED <<physical, logical, fast>>
<1>1. DecoderSizes /\ WindowIsLast /\ fast \in BOOLEAN
  BY Zenon DEF DecoderInv
<1>2. /\ physicalRead' = physicalRead + n /\ unread' = unread + n - a
      /\ windowStart' = decoded /\ content' = decoded /\ windowSize' = m /\ decoded' = decoded + m
      /\ UNCHANGED <<physical, logical>>
  BY DEF Produce
<1>3. fast' = fast /\ complete' = ended
  BY Zenon DEF Produce
<1>4. OutputSize' = OutputSize /\ OutputSize \in Nat
  <2>1. OutputSize' = OutputSize
    BY <1>2, <1>3, Zenon DEF OutputSize
  <2>. QED BY <1>1, <2>1, OutputSizeIs DEF DecoderSizes
<1>5. DecoderSizes' /\ WindowIsLast'
  BY <1>1, <1>2, <1>4 DEF DecoderSizes, WindowIsLast
<1>6. complete' => Spent'
  <2>1. Meets(n, a, m) => Spent'
    BY <1>1, <1>2, <1>4 DEF Meets, DecoderSizes, Spent
  <2>. QED BY <1>3, <2>1, Zenon
<1>7. fast' /\ ~complete' => PastPadding'
  <2>1. decoded + m >= PaddedBytes => PastPadding'
    BY <1>2 DEF PastPadding
  <2>. QED BY <1>3, <2>1, Zenon
<1>8. windowStart' = windowStart + windowSize
  BY <1>1, <1>2 DEF WindowIsLast
<1>9. DecoderInv'
  BY <1>1, <1>3, <1>5, <1>6, <1>7, Zenon DEF DecoderInv
<1>10. windowSize' \in Nat /\ decoded' = decoded + windowSize'
  BY <1>2
<1>. QED BY <1>2, <1>3, <1>4, <1>8, <1>9, <1>10, Zenon

\* A turn of a library, and a call of fill_fastlz.
LEMMA FillKeeps ==
  ASSUME DecoderInv, ~complete, Fill
  PROVE  /\ DecoderInv' /\ windowStart' = windowStart + windowSize
         /\ windowSize' \in Nat /\ decoded' = decoded + windowSize' /\ OutputSize' = OutputSize
         /\ UNCHANGED <<physical, logical, fast>>
<1>1. DecoderSizes
  BY DEF DecoderInv
<1>2. OutputSize \in Nat /\ (~fast => OutputSize = logical)
  BY <1>1, OutputSizeIs DEF DecoderSizes
<1>3. CASE LibraryFill
  <2>1. PICK t \in Turns : Tolerated(t.taken, t.made, t.ended) /\ Produce(Refilled, t.taken, t.made, t.ended)
    BY <1>3 DEF LibraryFill
  <2>2. Refilled \in Nat /\ Refilled <= physical - physicalRead
    <3>1. physical - physicalRead \in Nat /\ InChunk \in Nat
      BY <1>1, BufferAssumption DEF DecoderSizes
    <3>2. /\ Min({physical - physicalRead, InChunk}) \in {physical - physicalRead, InChunk}
          /\ Min({physical - physicalRead, InChunk}) <= physical - physicalRead
      BY <3>1, MinOfTwo
    <3>. QED BY <3>1, <3>2 DEF Refilled
  <2>3. PICK n, a, m, ended : n = Refilled /\ a = t.taken /\ m = t.made /\ ended = t.ended
    OBVIOUS
  <2>4. n \in Nat /\ a \in Nat /\ m \in Nat /\ n <= physical - physicalRead /\ a <= unread + n
    <3>1. t.taken \in 0..(unread + n) /\ t.made \in 0..OutChunk
      BY <2>3 DEF Turns
    <3>. QED BY <1>1, <2>2, <2>3, <3>1, BufferAssumption DEF DecoderSizes
  <2>5. ~fast
    BY <1>3, Zenon DEF LibraryFill
  <2>6. m <= OutputSize - decoded
    <3>1. m <= logical - decoded
      BY <2>1, <2>3 DEF Tolerated
    <3>. QED BY <1>2, <2>5, <3>1
  <2>7. ended => Meets(n, a, m)
    BY <2>1, <2>3, Zenon DEF Tolerated
  <2>8. Produce(n, a, m, ended)
    BY <2>1, <2>3, Zenon
  <2>9. fast /\ ~ended => decoded + m >= PaddedBytes
    BY <2>5, Zenon
  <2>. QED BY <2>4, <2>6, <2>7, <2>8, <2>9, ProduceKeeps
<1>4. CASE FastFill
  <2>1. PICK n \in Supplies, m \in 0..OutChunk :
          \E taken \in 0..(unread + n) :
            /\ m <= OutputSize - decoded
            /\ m < OutChunk => Meets(n, taken, m)
            /\ Produce(n, taken, m, m < OutChunk)
    BY <1>4 DEF FastFill
  <2>2. PICK a \in 0..(unread + n) :
          /\ m <= OutputSize - decoded
          /\ m < OutChunk => Meets(n, a, m)
          /\ Produce(n, a, m, m < OutChunk)
    BY <2>1
  <2>3. n \in Nat /\ n <= physical - physicalRead /\ m \in Nat /\ a \in Nat /\ a <= unread + n
    <3>1. n \in 0..(physical - physicalRead)
      BY DEF Supplies
    <3>. QED BY <1>1, <3>1, BufferAssumption DEF DecoderSizes
  <2>4. ~ (m < OutChunk) => decoded + m >= PaddedBytes
    BY <1>1, BufferAssumption DEF DecoderSizes
  <2>5. fast /\ ~ (m < OutChunk) => decoded + m >= PaddedBytes
    BY <2>4, Zenon
  <2>. QED BY <2>2, <2>3, <2>5, ProduceKeeps
<1>. QED BY <1>3, <1>4, Zenon DEF Fill

\* What is thrown leaves the decoder, and so does any step that does not use it.
LEMMA DecoderKeeps ==
  ASSUME DecoderInv, UNCHANGED decoder
  PROVE  DecoderInv'
<1>1. complete' = complete /\ fast' = fast /\ logical' = logical
  BY DEF decoder
<1>2. OutputSize' = OutputSize
  BY <1>1, Zenon DEF OutputSize
<1>3. DecoderSizes' /\ WindowIsLast' /\ (Spent => Spent') /\ (PastPadding => PastPadding')
  BY <1>2 DEF DecoderInv, DecoderSizes, Spent, WindowIsLast, PastPadding, decoder
<1>. QED BY <1>1, <1>3, Zenon DEF DecoderInv

-----------------------------------------------------------------------------
(* The steps of the view.                                                  *)

\* A view that gave up promises nothing but what it returned before.
LEMMA AbandonedKeeps ==
  ASSUME RsccInv, viewing' = "failed", DecoderInv', UNCHANGED <<file, piece>>
  PROVE  RsccInv'
<1>1. PieceIsTheDecoders'
  BY DEF RsccInv, PieceIsTheDecoders, Opened
<1>2. Located' /\ Reads' /\ Finished' /\ Unread'
  BY DEF Located, Reads, Works, Finished, Unread
<1>. QED BY <1>1, <1>2 DEF RsccInv

\* A step that reads on where the table is leaves it located.
LEMMA LocatedKeeps ==
  ASSUME RsccInv, Works, UNCHANGED <<file, nextIndex, nextOffset, cached, place>>, logical' = logical
  PROVE  Located'
BY DEF RsccInv, Located, Works, Opened

\* What was returned is not taken back.
LEMMA PieceKeeps ==
  ASSUME RsccInv, UNCHANGED <<file, piece>>
  PROVE  PieceIsTheDecoders'
BY DEF RsccInv, PieceIsTheDecoders, Opened

\* What a view that works knows of its container.
LEMMA WorkingFacts ==
  ASSUME RsccInv, Works
  PROVE  /\ file \in Containers /\ file.blockSize > 0 /\ file.blockSize \in Nat /\ file.total \in Nat
         /\ Blocks(file) \in Nat \ {0}
BY ContainerFacts DEF RsccInv, Located, Opened

\* Before the container is opened nothing was read.
LEMMA RsccInvInit == RsccInit => RsccInv
<1>. SUFFICES ASSUME RsccInit PROVE RsccInv
  OBVIOUS
<1>1. DecoderInv
  <2>1. OutputSize \in Nat
    BY OutputSizeIs DEF RsccInit
  <2>2. DecoderSizes /\ WindowIsLast /\ PastPadding
    BY <2>1 DEF RsccInit, DecoderSizes, WindowIsLast, PastPadding
  <2>3. ~complete
    BY DEF RsccInit
  <2>4. fast \in BOOLEAN
    BY ContainerAssumption, Zenon DEF RsccInit
  <2>. QED BY <2>2, <2>3, <2>4, Zenon DEF DecoderInv
<1>2. Located /\ Reads /\ PieceIsTheDecoders /\ Unread
  BY DEF RsccInit, Located, Reads, Works, PieceIsTheDecoders, Unread
<1>3. Finished
  BY DEF RsccInit, Finished
<1>. QED BY <1>1, <1>2, <1>3 DEF RsccInit, RsccInv

\* The constructor accounts for every stored byte.
LEMMA OpenViewKeeps == RsccInv /\ OpenView => RsccInv'
<1>. SUFFICES ASSUME RsccInv, OpenView PROVE RsccInv'
  OBVIOUS
<1>1. /\ viewing = "open" /\ DecoderInv' /\ UNCHANGED <<file, piece>>
  BY DecoderKeeps DEF OpenView, RsccInv
<1>2. CASE Abandon
  BY <1>1, <1>2, AbandonedKeeps DEF Abandon
<1>3. CASE ~Abandon
  <2>1. /\ file.stored >= RsccHeaderBytes + MagicBytes /\ file.blockSize > 0
        /\ Blocks(file) <= (file.stored - RsccHeaderBytes - MagicBytes) \div EntryBytes
        /\ BlockPlace(file, Blocks(file)) = DataEnd(file)
        /\ viewing' = "idle" /\ nextOffset' = DataStart(file)
        /\ UNCHANGED <<file, nextIndex, cached, place, index, sought, left, stop, piece, decoder>>
    BY <1>3, Zenon DEF OpenView
  <2>2. /\ file \in Containers /\ file.stored \in Nat /\ Blocks(file) \in Nat \ {0}
        /\ BlockPlace(file, 0) = DataStart(file)
    <3>1. file \in Containers
      BY DEF RsccInv
    <3>2. file.stored \in Nat /\ Blocks(file) \in Nat \ {0}
      BY <2>1, <3>1, ContainerFacts
    <3>. QED BY <2>1, <3>1, <3>2, PlacesGrow
  <2>3. DataStart(file) <= DataEnd(file)
    <3>1. PICK b, z, y : b = Blocks(file) /\ z = file.stored /\ y = z - 20 /\ b \in Nat /\ z \in Nat /\ y \in Nat
                         /\ b <= y \div 4
      BY <2>1, <2>2 DEF RsccHeaderBytes, MagicBytes, EntryBytes
    <3>2. PICK four \in Nat \ {0} : four = 4
      OBVIOUS
    <3>a. PICK q, rest \in Nat : q = y \div four /\ rest = y % four /\ rest < four /\ q * four \in Nat /\ y = q * four + rest
      BY <3>1, DivisionIs
    <3>3. 16 + 4 * b <= z - 4
      <4>1. q * four = 4 * q /\ q = y \div 4
        BY <3>2, <3>a
      <4>. QED BY <3>1, <3>a, <4>1
    <3>. QED BY <3>1, <3>3 DEF DataStart, DataEnd, RsccHeaderBytes, MagicBytes, EntryBytes
  <2>4. nextIndex = 0 /\ cached = None /\ sought = 0 /\ left = 0 /\ stop = 0
    BY <1>1 DEF RsccInv, Unread
  <2>5. Located'
    BY <2>1, <2>2, <2>3, <2>4 DEF Located, Opened
  <2>6. Reads' /\ Finished' /\ Unread'
    BY <2>1, <2>4 DEF Reads, Finished, Unread
  <2>. QED BY <1>1, <2>1, <2>2, <2>5, <2>6, PieceKeeps DEF RsccInv
<1>. QED BY <1>2, <1>3

\* A read begins in the block of its first byte, the terminal check in the last block.
LEMMA StartKeeps == RsccInv /\ (StartRead \/ StartTerminal) => RsccInv'
<1>. SUFFICES ASSUME RsccInv, StartRead \/ StartTerminal PROVE RsccInv'
  OBVIOUS
<1>1. /\ viewing = "idle" /\ viewing' = "load"
      /\ UNCHANGED <<file, nextIndex, nextOffset, cached, place, stop, piece, decoder>>
  BY DEF StartRead, StartTerminal
<1>2. Works
  BY <1>1 DEF Works
<1>3. DecoderInv' /\ Located' /\ PieceIsTheDecoders'
  BY <1>1, <1>2, DecoderKeeps, LocatedKeeps, PieceKeeps DEF RsccInv, decoder
<1>4. file.total \in Nat /\ Blocks(file) = BlockOf(file, file.total) + 1 /\ BlockOf(file, file.total) \in Int
  BY <1>2, WorkingFacts, ContainerFacts, BlockFacts
<1>5. sought' \in Nat /\ left' \in Nat /\ sought' + left' <= file.total /\ index' = BlockOf(file, sought')
  <2>1. CASE StartRead
    <3>1. PICK req \in Requests : /\ req.at <= file.total /\ req.count <= file.total - req.at
                                  /\ sought' = req.at /\ left' = req.count /\ index' = req.at \div file.blockSize
      BY <2>1 DEF StartRead
    <3>2. PICK a, c, n : a = req.at /\ c = req.count /\ n = file.total /\ a \in Nat /\ c \in Nat /\ n \in Nat
      BY <1>4, ViewAssumption
    <3>3. a + c <= n
      BY <3>1, <3>2
    <3>. QED BY <3>1, <3>2, <3>3 DEF BlockOf
  <2>2. CASE StartTerminal
    BY <1>4, <2>2 DEF StartTerminal
  <2>. QED BY <2>1, <2>2
<1>6. stop \in Nat
  BY <1>2 DEF RsccInv, Reads
<1>7. Reads' /\ Finished' /\ Unread'
  BY <1>1, <1>5, <1>6 DEF Reads, Finished, Unread
<1>. QED BY <1>1, <1>3, <1>7 DEF RsccInv

\* The walk that starts again stands before the first block.
LEMMA LoadBehindKeeps == RsccInv /\ LoadBehind => RsccInv'
<1>. SUFFICES ASSUME RsccInv, LoadBehind PROVE RsccInv'
  OBVIOUS
<1>1. /\ viewing = "load" /\ nextIndex' = 0 /\ nextOffset' = DataStart(file)
      /\ UNCHANGED <<file, viewing, cached, place, index, sought, left, stop, piece, decoder>>
  BY DEF LoadBehind, Rewind
<1>2. Works
  BY <1>1 DEF Works
<1>3. DecoderInv' /\ PieceIsTheDecoders'
  BY <1>1, DecoderKeeps, PieceKeeps DEF RsccInv, decoder
<1>4. BlockPlace(file, 0) = DataStart(file) /\ 0 \in 0..Blocks(file)
  BY <1>2, WorkingFacts, PlacesGrow
<1>5. Located'
  BY <1>1, <1>2, <1>4 DEF RsccInv, Located, Works, Opened, decoder
<1>6. Reads' /\ Finished' /\ Unread'
  BY <1>1, <1>2 DEF RsccInv, Reads, Finished, Unread, Works
<1>. QED BY <1>1, <1>3, <1>5, <1>6 DEF RsccInv

\* The walk passes blocks one after the other, and the wanted one is given a
\* decoder at its place.
LEMMA LoadBatchKeeps == RsccInv /\ LoadBatch => RsccInv'
<1>. SUFFICES ASSUME RsccInv, LoadBatch PROVE RsccInv'
  OBVIOUS
<1>. DEFINE taken == Min({index - nextIndex + 1, Batch})
            last == nextIndex + taken - 1
            start == nextOffset + StoredBytes(file, nextIndex + 1, last)
            extent == file.sizes[last + 1]
<1>1. /\ viewing = "load" /\ index >= nextIndex
      /\ UNCHANGED <<file, index, sought, left, stop, piece>>
      /\ \/ Abandon /\ UNCHANGED <<nextIndex, nextOffset, cached, place, decoder>>
         \/ /\ nextIndex' = last + 1 /\ nextOffset' = start + extent /\ UNCHANGED viewing
            /\ IF last = index
               THEN cached' = index /\ place' = start /\ Fresh(extent, LogicalBytes(file, index), file.fast)
               ELSE UNCHANGED <<cached, place, decoder>>
  BY DEF LoadBatch
<1>2. Works
  BY <1>1 DEF Works
<1>3. /\ file \in Containers /\ file.blockSize > 0 /\ Blocks(file) \in Nat /\ file.total \in Nat
      /\ nextIndex \in 0..Blocks(file) /\ nextOffset = BlockPlace(file, nextIndex)
  BY <1>2, WorkingFacts DEF RsccInv, Located
<1>4. sought \in Nat /\ sought <= file.total /\ index = BlockOf(file, sought)
  BY <1>1, <1>2, <1>3 DEF RsccInv, Reads
<1>5. index \in 0..(Blocks(file) - 1) /\ LogicalBytes(file, index) \in Nat
  BY <1>3, <1>4, BlockFacts
<1>6. taken \in Nat /\ taken >= 1 /\ taken <= index - nextIndex + 1
  <2>1. PICK w : w = index - nextIndex + 1 /\ w \in Nat /\ w >= 1
    BY <1>1, <1>3, <1>5
  <2>2. Batch \in Nat /\ Batch >= 1
    BY ViewAssumption
  <2>a. w \in Int /\ Batch \in Int
    BY <2>1, <2>2
  <2>3. Min({w, Batch}) \in {w, Batch} /\ Min({w, Batch}) <= w
    BY <2>a, MinOfTwo, Zenon
  <2>4. PICK m : m = Min({w, Batch}) /\ m \in Nat /\ m >= 1 /\ m <= w
    BY <2>1, <2>2, <2>3
  <2>. QED BY <2>1, <2>4
<1>. HIDE DEF taken
<1>7. last \in Nat /\ nextIndex <= last /\ last <= index /\ last < Blocks(file) /\ nextIndex \in Nat
  BY <1>3, <1>5, <1>6
<1>. HIDE DEF last
<1>8. start = BlockPlace(file, last) /\ start + extent = BlockPlace(file, last + 1) /\ extent \in Nat
  <2>1. start = BlockPlace(file, last)
    BY <1>3, <1>7, RunOfBlocks
  <2>2. BlockPlace(file, last + 1) = BlockPlace(file, last) + extent
    BY <1>3, <1>7, PlacesGrow
  <2>3. last + 1 \in 1..Blocks(file)
    BY <1>3, <1>7
  <2>. QED BY <1>3, <2>1, <2>2, <2>3, ContainerFacts
<1>. HIDE DEF start, extent
<1>9. CASE Abandon /\ UNCHANGED <<nextIndex, nextOffset, cached, place, decoder>>
  <2>1. DecoderInv'
    BY <1>9, DecoderKeeps DEF RsccInv
  <2>. QED BY <1>1, <1>9, <2>1, AbandonedKeeps DEF Abandon
<1>10. CASE /\ nextIndex' = last + 1 /\ nextOffset' = start + extent /\ UNCHANGED viewing
            /\ IF last = index
               THEN cached' = index /\ place' = start /\ Fresh(extent, LogicalBytes(file, index), file.fast)
               ELSE UNCHANGED <<cached, place, decoder>>
  <2>1. DecoderInv'
    <3>1. file.fast \in BOOLEAN
      BY <1>3, ContainerAssumption, Zenon
    <3>. QED BY <1>5, <1>8, <1>10, <3>1, FreshKeeps, DecoderKeeps DEF RsccInv
  <2>2. cached' = None \/ (/\ cached' \in 0..(Blocks(file) - 1) /\ place' = BlockPlace(file, cached')
                           /\ logical' = LogicalBytes(file, cached'))
    <3>1. CASE last = index
      BY <1>5, <1>8, <1>10, <3>1 DEF Fresh
    <3>2. CASE last # index
      BY <1>2, <1>10, <3>2 DEF RsccInv, Located, decoder
    <3>. QED BY <3>1, <3>2
  <2>3. nextIndex' \in 0..Blocks(file) /\ nextOffset' = BlockPlace(file, nextIndex')
    BY <1>3, <1>7, <1>8, <1>10
  <2>4. Located'
    BY <1>1, <1>2, <2>2, <2>3 DEF RsccInv, Located, Opened
  <2>5. Reads' /\ Finished' /\ Unread'
    BY <1>1, <1>2, <1>10 DEF RsccInv, Reads, Finished, Unread, Works
  <2>. QED BY <1>1, <1>3, <1>10, <2>1, <2>4, <2>5, PieceKeeps DEF RsccInv
<1>. QED BY <1>1, <1>9, <1>10

\* block_stream_decoder::read keeps its decoder for a byte ahead, and starts it
\* again for a byte behind; what it is entered for is in its block.
LEMMA EnterBlockKeeps == RsccInv /\ EnterBlock => RsccInv'
<1>. SUFFICES ASSUME RsccInv, EnterBlock PROVE RsccInv'
  OBVIOUS
<1>. DEFINE within == sought % file.blockSize
            amount == Min({left, LogicalBytes(file, index) - within})
<1>1. /\ viewing = "load" /\ index = cached /\ stop' = within + amount
      /\ viewing' = IF left = 0 THEN "finish" ELSE "copy"
      /\ IF left > 0 /\ within < windowStart THEN Fresh(physical, logical, fast) ELSE UNCHANGED decoder
      /\ UNCHANGED <<file, nextIndex, nextOffset, cached, place, index, sought, left, piece>>
  BY DEF EnterBlock
<1>2. Works
  BY <1>1 DEF Works
<1>3. DecoderInv' /\ logical' = logical
  <2>1. physical \in Nat /\ logical \in Nat
    BY DEF RsccInv, DecoderInv, DecoderSizes
  <2>2. DecoderInv /\ fast \in BOOLEAN
    BY Zenon DEF RsccInv, DecoderInv
  <2>3. Fresh(physical, logical, fast) \/ UNCHANGED decoder
    BY <1>1, Zenon
  <2>4. DecoderInv'
    BY <2>1, <2>2, <2>3, FreshKeeps, DecoderKeeps, Zenon
  <2>5. logical' = logical
    BY <2>3 DEF Fresh, decoder
  <2>. QED BY <2>4, <2>5
<1>4. Located' /\ PieceIsTheDecoders'
  BY <1>1, <1>2, <1>3, LocatedKeeps, PieceKeeps
<1>5. /\ file \in Containers /\ file.blockSize > 0 /\ Blocks(file) \in Nat /\ file.total \in Nat
      /\ sought \in Nat /\ left \in Nat /\ sought + left <= file.total /\ index = BlockOf(file, sought)
  BY <1>1, <1>2, WorkingFacts DEF RsccInv, Reads
<1>6. sought <= file.total /\ (left > 0 => sought < file.total)
  BY <1>5
<1>7. /\ index \in 0..(Blocks(file) - 1) /\ within \in Nat /\ InBlock = within
      /\ LogicalBytes(file, index) \in Nat /\ within <= LogicalBytes(file, index)
      /\ (left > 0 => within < LogicalBytes(file, index))
  <2>1. Inside(file, sought) = within /\ InBlock = sought - Start(file, index)
    BY DEF Inside, InBlock, Start
  <2>. QED BY <1>5, <1>6, <2>1, BlockFacts
<1>8. cached # None /\ logical = LogicalBytes(file, index)
  <2>1. cached # None
    BY <1>1, <1>7 DEF None
  <2>. QED BY <1>1, <1>2, <2>1 DEF RsccInv, Located
<1>9. PICK w, l, c : w = within /\ l = logical /\ c = amount /\ w \in Nat /\ l \in Nat /\ c \in Nat
                     /\ c <= left /\ w + c <= l /\ (left > 0 => c > 0)
  <2>1. PICK w, l, d : w = within /\ l = logical /\ d = l - w /\ w \in Nat /\ l \in Nat /\ d \in Nat
                       /\ (left > 0 => d > 0)
    BY <1>7, <1>8
  <2>2. Min({left, d}) \in {left, d} /\ Min({left, d}) <= left /\ Min({left, d}) <= d
    <3>1. left \in Int /\ d \in Int
      BY <1>5, <2>1
    <3>. QED BY <3>1, MinOfTwo, Zenon
  <2>3. PICK c : c = Min({left, d}) /\ c \in Nat /\ c <= left /\ c <= d /\ (left > 0 => c > 0)
    BY <1>5, <2>1, <2>2
  <2>4. c = amount
    BY <1>8, <2>1, <2>3
  <2>5. w + c <= l
    BY <2>1, <2>3
  <2>. QED BY <2>1, <2>3, <2>4, <2>5
<1>. HIDE DEF within, amount
<1>10. left > 0 => windowStart' <= w
  <2>1. windowStart \in Nat
    BY DEF RsccInv, DecoderInv, DecoderSizes
  <2>2. ASSUME left > 0 PROVE windowStart' <= w
    <3>1. CASE within < windowStart
      BY <1>1, <1>9, <2>2, <3>1 DEF Fresh
    <3>2. CASE ~ (within < windowStart)
      BY <1>1, <1>9, <2>1, <3>2 DEF decoder
    <3>. QED BY <3>1, <3>2
  <2>. QED BY <2>2
<1>11. stop' = w + c /\ InBlock' = w /\ Inside(file, sought) = w
  BY <1>1, <1>7, <1>9 DEF InBlock, Inside, within
<1>12. stop' \in Nat /\ viewing' \in {"copy", "finish"}
  BY <1>1, <1>9, <1>11
<1>13. viewing' = "copy" => InBlock' < stop' /\ stop' - InBlock' <= left /\ windowStart' <= InBlock' /\ stop' <= logical'
  <2>1. ASSUME left > 0 PROVE w < w + c /\ w + c - w <= left /\ w + c <= l
    BY <1>5, <1>9, <2>1
  <2>2. viewing' = "copy" => left > 0
    BY <1>1, <1>5
  <2>. QED BY <1>3, <1>9, <1>10, <1>11, <2>1, <2>2
<1>14. Reads'
  <2>1. InBlock' = Inside(file', sought') /\ index' = BlockOf(file', sought')
    BY <1>1, <1>5, <1>11 DEF Inside, BlockOf
  <2>2. /\ sought' \in Nat /\ left' \in Nat /\ sought' + left' <= file'.total
        /\ index' = cached' /\ cached' # None /\ left' = left
    BY <1>1, <1>5, <1>8
  <2>. QED BY <1>12, <1>13, <2>1, <2>2 DEF Reads
<1>15. Finished' /\ Unread'
  BY <1>12 DEF Finished, Unread
<1>. QED BY <1>1, <1>3, <1>4, <1>5, <1>12, <1>14, <1>15 DEF RsccInv

\* A block that ended holds every byte a read may wait for.
LEMMA EndHolds ==
  ASSUME RsccInv, viewing = "copy"
  PROVE  /\ InBlock \in Nat /\ windowStart \in Nat /\ windowSize \in Nat
         /\ complete => Holds(InBlock)
<1>1. Works
  BY DEF Works
<1>2. /\ sought \in Nat /\ InBlock = Inside(file, sought) /\ sought + left <= file.total /\ left \in Nat
      /\ stop \in Nat /\ InBlock < stop /\ stop <= logical
  BY <1>1 DEF RsccInv, Reads
<1>3. file \in Containers /\ file.blockSize > 0 /\ file.total \in Nat
  BY <1>1, WorkingFacts
<1>4. sought <= file.total
  BY <1>2, <1>3
<1>5. InBlock \in Nat
  BY <1>2, <1>3, <1>4, BlockFacts
<1>6. DecoderSizes /\ WindowIsLast /\ (complete => Spent)
  BY Zenon DEF RsccInv, DecoderInv
<1>7. logical \in Nat /\ OutputSize \in Nat /\ logical <= OutputSize
  BY <1>6, OutputSizeIs DEF DecoderSizes
<1>8. Spent => Holds(InBlock)
  <2>. SUFFICES ASSUME Spent PROVE Holds(InBlock)
    OBVIOUS
  <2>1. decoded = OutputSize /\ decoded = windowStart + windowSize
    BY <1>6 DEF Spent, WindowIsLast
  <2>2. PICK x : x = InBlock /\ x \in Nat /\ x < stop
    BY <1>2, <1>5
  <2>3. x < windowStart + windowSize
    BY ONLY <1>2, <1>7, <2>1, <2>2
  <2>. QED BY <2>2, <2>3 DEF Holds
<1>9. complete => Holds(InBlock)
  BY <1>6, <1>8, Zenon
<1>. QED BY <1>5, <1>6, <1>9 DEF DecoderSizes

\* A turn of the decoder moves the window no further than the byte it is read
\* for; after the last byte of a block only its end can be made.
LEMMA DecodeBlockKeeps == RsccInv /\ DecodeBlock => RsccInv'
<1>. SUFFICES ASSUME RsccInv, DecodeBlock PROVE RsccInv'
  OBVIOUS
<1>1. /\ viewing \in {"copy", "tail", "finish"} /\ (viewing = "copy" => ~Holds(InBlock))
      /\ UNCHANGED <<file, nextIndex, nextOffset, cached, place, index, sought, left, stop, piece>>
  BY DEF DecodeBlock
<1>2. ~complete
  <2>1. (viewing = "copy" /\ ~Holds(InBlock)) \/ ~complete
    BY Zenon DEF DecodeBlock
  <2>2. viewing = "copy" /\ complete => Holds(InBlock)
    BY EndHolds, Zenon
  <2>. QED BY <2>1, <2>2, Zenon
<1>3. \/ /\ Fill
         /\ viewing' = IF viewing = "tail" /\ (complete' \/ windowSize' > 0) THEN "next" ELSE viewing
      \/ FillThrows /\ Abandon
  BY <1>2, Zenon DEF DecodeBlock
<1>4. Works /\ DecoderInv
  BY <1>1 DEF Works, RsccInv
<1>5. CASE FillThrows /\ Abandon
  <2>1. UNCHANGED decoder
    BY <1>5, Zenon DEF FillThrows
  <2>2. DecoderInv'
    BY <1>4, <2>1, DecoderKeeps, Zenon
  <2>. QED BY <1>1, <1>5, <2>2, AbandonedKeeps DEF Abandon
<1>6. CASE /\ Fill
           /\ viewing' = IF viewing = "tail" /\ (complete' \/ windowSize' > 0) THEN "next" ELSE viewing
  <2>1. /\ DecoderInv' /\ windowStart' = windowStart + windowSize
        /\ windowSize' \in Nat /\ decoded' = decoded + windowSize' /\ OutputSize' = OutputSize
        /\ logical' = logical
    BY <1>2, <1>4, <1>6, FillKeeps, Zenon
  <2>2. \/ viewing' = viewing
        \/ viewing = "tail" /\ viewing' = "next" /\ (complete' \/ windowSize' > 0)
    BY <1>6, Zenon
  <2>3. Located' /\ PieceIsTheDecoders'
    BY <1>1, <1>4, <2>1, LocatedKeeps, PieceKeeps
  <2>4. viewing = "copy" => windowStart' <= InBlock
    <3>. SUFFICES ASSUME viewing = "copy" PROVE windowStart' <= InBlock
      OBVIOUS
    <3>1. InBlock \in Nat /\ windowStart \in Nat /\ windowSize \in Nat
      BY EndHolds
    <3>2. PICK x : x = InBlock /\ x \in Nat
      BY <3>1
    <3>3. ~ (x < windowStart + windowSize)
      BY <1>1, <3>2 DEF Holds
    <3>. QED BY <2>1, <3>1, <3>2, <3>3
  <2>5. viewing = "tail" => windowSize' = 0 /\ decoded' = OutputSize'
    <3>. SUFFICES ASSUME viewing = "tail" PROVE windowSize' = 0 /\ decoded' = OutputSize'
      OBVIOUS
    <3>1. decoded = OutputSize /\ decoded \in Nat
      BY <1>4 DEF RsccInv, Reads, DecoderInv, DecoderSizes
    <3>2. decoded' <= OutputSize'
      BY <2>1 DEF DecoderInv, DecoderSizes
    <3>3. PICK o, x, y, w : o = OutputSize /\ x = decoded /\ y = decoded' /\ w = windowSize'
      OBVIOUS
    <3>4. x = o /\ x \in Nat /\ w \in Nat /\ y = x + w /\ y <= o
      BY <2>1, <3>1, <3>2, <3>3, Zenon
    <3>5. w = 0 /\ y = o
      BY <3>4
    <3>. QED BY <2>1, <3>3, <3>5, Zenon
  <2>6. Reads'
    <3>1. InBlock' = InBlock
      BY <1>1 DEF InBlock
    <3>2. viewing' \in {"copy", "tail", "finish", "next"} /\ (viewing' = "copy" => viewing = "copy")
          /\ (viewing' = "tail" => viewing = "tail")
      BY <1>1, <2>2
    <3>. QED BY <1>1, <1>4, <2>1, <2>4, <2>5, <3>1, <3>2 DEF RsccInv, Reads, Inside, BlockOf
  <2>7. Finished'
    <3>1. viewing' = "next" => complete'
      <4>1. ~ (windowSize' > 0) \/ viewing # "tail"
        BY <2>5
      <4>2. viewing # "next"
        BY <1>1
      <4>. QED BY <2>2, <4>1, <4>2, Zenon
    <3>2. viewing' # "idle"
      BY <1>1, <2>2
    <3>. QED BY <3>1, <3>2, Zenon DEF Finished
  <2>8. Unread' /\ viewing' \in {"copy", "tail", "finish", "next"}
    BY <1>1, <2>2 DEF Unread
  <2>. QED BY <1>1, <2>1, <2>3, <2>6, <2>7, <2>8 DEF RsccInv
<1>. QED BY <1>3, <1>5, <1>6

\* What is copied are the block's bytes, up to the end of the piece; what is
\* left of the piece is still in the block.
LEMMA CopyKeeps == RsccInv /\ Copy => RsccInv'
<1>. SUFFICES ASSUME RsccInv, Copy PROVE RsccInv'
  OBVIOUS
<1>. DEFINE within == InBlock - windowStart
            amount == Min({stop - InBlock, windowSize - within})
<1>1. /\ viewing = "copy" /\ Holds(InBlock)
      /\ piece' = [place |-> place, first |-> content + within, amount |-> amount, at |-> sought]
      /\ sought' = sought + amount /\ left' = left - amount
      /\ viewing' = IF InBlock + amount < stop THEN "copy" ELSE IF stop = logical THEN "tail" ELSE "next"
      /\ UNCHANGED <<file, nextIndex, nextOffset, cached, place, index, stop, decoder>>
  BY DEF Copy
<1>2. Works
  BY <1>1 DEF Works
<1>3. /\ DecoderInv' /\ UNCHANGED <<logical, windowStart, decoded>> /\ OutputSize' = OutputSize
  <2>1. UNCHANGED <<logical, fast>>
    BY <1>1 DEF decoder
  <2>2. OutputSize' = OutputSize
    BY <2>1, Zenon DEF OutputSize
  <2>. QED BY <1>1, <2>2, DecoderKeeps DEF RsccInv, decoder
<1>4. Located'
  BY <1>1, <1>2, <1>3, LocatedKeeps
<1>5. /\ file \in Containers /\ file.blockSize > 0 /\ file.blockSize \in Nat /\ file.total \in Nat
      /\ Opened(file)
  BY <1>2, WorkingFacts DEF RsccInv, Located
<1>6. /\ sought \in Nat /\ left \in Nat /\ stop \in Nat /\ sought + left <= file.total
      /\ index = cached /\ cached # None /\ index = BlockOf(file, sought) /\ InBlock = Inside(file, sought)
      /\ InBlock < stop /\ stop - InBlock <= left /\ windowStart <= InBlock /\ stop <= logical
  BY <1>1, <1>2 DEF RsccInv, Reads
<1>7. place = BlockPlace(file, index) /\ logical = LogicalBytes(file, index)
  BY <1>2, <1>6 DEF RsccInv, Located
<1>8. sought <= file.total
  BY <1>5, <1>6
<1>9. /\ index \in Nat /\ InBlock \in Nat /\ InBlock = sought - index * file.blockSize
      /\ LogicalBytes(file, index) \in Nat /\ LogicalBytes(file, index) <= file.blockSize
  <2>1. Blocks(file) \in Nat
    BY <1>2, WorkingFacts
  <2>. QED BY <1>5, <1>6, <1>8, <2>1, BlockFacts DEF InBlock
<1>10. PICK b, u : b = InBlock /\ u = index * file.blockSize /\ b \in Nat /\ u \in Nat /\ sought = u + b
  <2>1. index * file.blockSize \in Nat
    BY <1>5, <1>9
  <2>2. PICK b, u : b = InBlock /\ u = index * file.blockSize /\ b \in Nat /\ u \in Nat /\ b = sought - u
    BY <1>9, <2>1
  <2>3. sought = u + b
    BY <1>6, <2>2
  <2>. QED BY <2>2, <2>3
<1>11. windowStart \in Nat /\ windowSize \in Nat /\ content = windowStart
  BY DEF RsccInv, DecoderInv, DecoderSizes
<1>12. PICK c : c = amount /\ c \in Nat /\ c > 0 /\ b + c <= stop
  <2>1. PICK d, e : d = stop - InBlock /\ e = windowSize - within
    OBVIOUS
  <2>2. d = stop - b /\ e = windowSize - (b - windowStart)
    BY <1>10, <2>1
  <2>3. b < windowStart + windowSize
    BY <1>1, <1>10 DEF Holds
  <2>4. d \in Nat /\ e \in Nat /\ d > 0 /\ e > 0
    <3>1. stop \in Nat /\ b < stop
      BY <1>6, <1>10
    <3>. QED BY ONLY <1>10, <1>11, <2>2, <2>3, <3>1
  <2>5. Min({d, e}) \in {d, e} /\ Min({d, e}) <= d
    BY <2>4, MinOfTwo
  <2>6. PICK c : c = Min({d, e}) /\ c \in Nat /\ c > 0 /\ c <= d
    BY <2>4, <2>5
  <2>7. b + c <= stop
    <3>1. stop \in Nat /\ c \in Nat /\ b \in Nat /\ c <= d /\ d = stop - b
      BY <1>6, <1>10, <2>2, <2>6
    <3>. QED BY ONLY <3>1
  <2>. QED BY <2>1, <2>6, <2>7
<1>13. content + within = b
  BY <1>10, <1>11
<1>14. PICK p : p = piece' /\ p.place = place /\ p.first = b /\ p.amount = c /\ p.at = sought
  BY <1>1, <1>12, <1>13
<1>. HIDE DEF within, amount
<1>15. PieceIsTheDecoders'
  <2>1. BlockOf(file, p.at) = index /\ Inside(file, p.at) = b
    BY <1>6, <1>10, <1>14
  <2>2. p.first + p.amount <= LogicalBytes(file, index)
    <3>1. b + c <= logical
      BY <1>6, <1>7, <1>9, <1>10, <1>12
    <3>. QED BY <1>7, <1>14, <3>1
  <2>3. p.place = BlockPlace(file, BlockOf(file, p.at)) /\ p.first = Inside(file, p.at)
    BY <1>7, <1>14, <2>1
  <2>4. Opened(file') /\ file' = file
    BY <1>1, <1>5 DEF Opened
  <2>. QED BY <1>14, <2>1, <2>2, <2>3, <2>4 DEF PieceIsTheDecoders
<1>16. sought' = sought + c /\ left' = left - c /\ sought' \in Nat /\ left' \in Nat /\ sought' + left' <= file.total
  <2>1. sought' = sought + c /\ left' = left - c
    BY <1>1, <1>12
  <2>2. c <= left
    BY <1>6, <1>10, <1>12
  <2>. QED BY <1>5, <1>6, <1>12, <2>1, <2>2
<1>17. InBlock' = b + c
  <2>1. InBlock' = sought' - u
    BY <1>1, <1>10 DEF InBlock
  <2>2. PICK x, y : x = sought /\ y = sought' /\ x = u + b /\ y = x + c
    BY <1>10, <1>16
  <2>3. y - u = b + c
    <3>1. b \in Nat /\ u \in Nat /\ c \in Nat
      BY <1>10, <1>12
    <3>. QED BY ONLY <2>2, <3>1
  <2>. QED BY <2>1, <2>2, <2>3
<1>18. viewing' = "copy" => /\ index = BlockOf(file, sought') /\ InBlock' = Inside(file, sought')
                            /\ InBlock' < stop /\ stop - InBlock' <= left' /\ windowStart <= InBlock'
  <2>. SUFFICES ASSUME viewing' = "copy" PROVE /\ index = BlockOf(file, sought') /\ InBlock' = Inside(file, sought')
                            /\ InBlock' < stop /\ stop - InBlock' <= left' /\ windowStart <= InBlock'
    OBVIOUS
  <2>1. b + c < stop
    BY <1>1, <1>10, <1>12
  <2>2. PICK k, x, r : k = file.blockSize /\ x = sought' /\ r = b + c /\ k \in Nat \ {0} /\ x \in Nat /\ r \in Nat
    BY <1>5, <1>10, <1>12, <1>16
  <2>3. r < k
    BY <1>5, <1>6, <1>7, <1>9, <2>1, <2>2
  <2>4. x = index * k + r
    <3>1. x = (u + b) + c
      BY <1>10, <1>16, <2>2
    <3>2. b \in Nat /\ u \in Nat /\ c \in Nat
      BY <1>10, <1>12
    <3>3. x = u + (b + c)
      BY ONLY <3>1, <3>2
    <3>. QED BY <1>10, <2>2, <3>3
  <2>5. x \div k = index /\ x % k = r
    BY <1>9, <2>2, <2>3, <2>4, DivisionIsUnique
  <2>6. index = BlockOf(file, sought') /\ InBlock' = Inside(file, sought')
    BY <1>17, <2>2, <2>5 DEF BlockOf, Inside
  <2>7. b + c < stop /\ stop - (b + c) <= left - c /\ windowStart <= b + c
    BY <1>6, <1>10, <1>11, <1>12, <2>1
  <2>. QED BY <1>16, <1>17, <2>6, <2>7
<1>19. viewing' \in {"copy", "tail", "next"} /\ (viewing' = "next" => stop # logical)
  BY <1>1
<1>a. viewing' = "tail" => decoded = OutputSize
  <2>. SUFFICES ASSUME viewing' = "tail" PROVE decoded = OutputSize
    OBVIOUS
  <2>1. stop = logical /\ ~ (b + c < stop)
    BY <1>1, <1>10, <1>12
  <2>2. DecoderSizes /\ WindowIsLast /\ fast \in BOOLEAN /\ (complete => Spent) /\ (fast /\ ~complete => PastPadding)
    BY Zenon DEF RsccInv, DecoderInv
  <2>3. /\ OutputSize \in Nat /\ logical <= OutputSize
        /\ ~fast => OutputSize = logical
        /\ OutputSize = logical \/ OutputSize = PaddedBytes
    BY <2>2, OutputSizeIs DEF DecoderSizes
  <2>4. decoded \in Nat /\ logical \in Nat /\ decoded <= OutputSize /\ decoded > 0 /\ logical <= decoded
    <3>1. c <= windowSize - (b - windowStart)
      <4>1. PICK d, e : d = stop - InBlock /\ e = windowSize - (InBlock - windowStart)
        OBVIOUS
      <4>a. d = stop - b /\ e = windowSize - (b - windowStart) /\ stop \in Nat
        BY <1>6, <1>10, <4>1, Zenon
      <4>2. d \in Int /\ e \in Int /\ e = windowSize - (b - windowStart)
        BY <1>10, <1>11, <4>a
      <4>3. Min({d, e}) <= e
        BY <4>2, MinOfTwo
      <4>4. c = Min({d, e})
        BY <1>12, <4>1 DEF amount, within
      <4>. QED BY <4>2, <4>3, <4>4
    <3>2. decoded = windowStart + windowSize
      BY <2>2 DEF WindowIsLast
    <3>3. decoded \in Nat /\ logical \in Nat /\ decoded <= OutputSize
      BY <2>2 DEF DecoderSizes
    <3>4. b \in Nat /\ c \in Nat /\ c > 0
      BY <1>10, <1>12
    <3>. QED BY ONLY <1>11, <2>1, <3>1, <3>2, <3>3, <3>4
  <2>5. Spent => decoded = OutputSize
    BY DEF Spent
  <2>6. PastPadding => decoded = OutputSize
    BY <2>3, <2>4, BufferAssumption DEF PastPadding
  <2>7. ~fast => decoded = OutputSize
    <3>1. OutputSize = logical => decoded = OutputSize
      BY <2>4
    <3>. QED BY <2>3, <3>1, Zenon
  <2>. QED BY <2>2, <2>5, <2>6, <2>7, Zenon
<1>20. Reads'
  <2>1. viewing' = "copy" => index' = BlockOf(file', sought') /\ InBlock' = Inside(file', sought')
    BY <1>1, <1>18 DEF BlockOf, Inside
  <2>2. /\ index' = cached' /\ cached' # None /\ stop' = stop /\ stop \in Nat /\ logical' = logical /\ stop <= logical
        /\ windowStart' = windowStart /\ sought' + left' <= file'.total
    BY <1>1, <1>3, <1>6, <1>16
  <2>3. viewing' = "tail" => decoded' = OutputSize'
    BY <1>3, <1>a
  <2>. QED BY <1>16, <1>18, <1>19, <2>1, <2>2, <2>3 DEF Reads
<1>21. Finished' /\ Unread'
  BY <1>1, <1>3, <1>19 DEF Finished, Unread
<1>. QED BY <1>1, <1>3, <1>4, <1>5, <1>15, <1>19, <1>20, <1>21 DEF RsccInv

\* The read goes on in the block of its next byte; a block it leaves at the end was finished.
LEMMA NextBlockKeeps == RsccInv /\ NextBlock => RsccInv'
<1>. SUFFICES ASSUME RsccInv, NextBlock PROVE RsccInv'
  OBVIOUS
<1>1. /\ viewing \in {"next", "tail", "finish"} /\ viewing' \in {"load", "idle"}
      /\ IF left > 0 THEN index' = sought \div file.blockSize /\ viewing' = "load"
                     ELSE viewing' = "idle" /\ UNCHANGED index
      /\ UNCHANGED <<file, nextIndex, nextOffset, cached, place, sought, left, stop, piece, decoder>>
  BY DEF NextBlock
<1>2. viewing = "next" \/ complete
  BY Zenon DEF NextBlock
<1>3. Works
  BY <1>1 DEF Works
<1>4. DecoderInv' /\ logical' = logical
  BY <1>1, DecoderKeeps DEF RsccInv, decoder
<1>5. Located' /\ PieceIsTheDecoders'
  BY <1>1, <1>3, <1>4, LocatedKeeps, PieceKeeps
<1>6. Reads'
  BY <1>1, <1>3 DEF RsccInv, Reads, BlockOf
<1>7. Finished'
  <2>1. complete' = complete /\ stop' = stop /\ cached' = cached /\ viewing' # "next"
    BY <1>1 DEF decoder
  <2>2. viewing = "next" /\ cached # None /\ stop = logical => complete
    BY Zenon DEF RsccInv, Finished
  <2>. QED BY <1>2, <1>4, <2>1, <2>2, Zenon DEF Finished
<1>8. Unread'
  BY <1>1 DEF Unread
<1>. QED BY <1>1, <1>4, <1>5, <1>6, <1>7, <1>8 DEF RsccInv

\* Every step of the view keeps all of it.
LEMMA RsccStep == RsccInv /\ [RsccNext]_rsccVars => RsccInv'
<1>. SUFFICES ASSUME RsccInv, [RsccNext]_rsccVars PROVE RsccInv'
  OBVIOUS
<1>1. CASE RsccNext
  <2>1. CASE SourceFaults
    <3>1. DecoderInv'
      BY <2>1, DecoderKeeps DEF SourceFaults, RsccInv
    <3>. QED BY <2>1, <3>1, AbandonedKeeps DEF SourceFaults, Abandon
  <2>. QED BY <1>1, <2>1, OpenViewKeeps, LoadBehindKeeps, LoadBatchKeeps, EnterBlockKeeps, DecodeBlockKeeps,
              CopyKeeps, NextBlockKeeps, StartKeeps DEF RsccNext, Serve
<1>2. CASE UNCHANGED rsccVars
  <2>1. UNCHANGED <<file, viewing, nextIndex, nextOffset, cached, place, index, sought, left, stop, piece>> /\ UNCHANGED decoder
    BY <1>2 DEF rsccVars, rscc
  <2>2. DecoderInv' /\ PieceIsTheDecoders'
    BY <2>1, DecoderKeeps, PieceKeeps DEF RsccInv
  <2>4. logical' = logical /\ complete' = complete /\ fast' = fast
    BY <2>1 DEF decoder
  <2>a. OutputSize' = OutputSize
    BY <2>4, Zenon DEF OutputSize
  <2>3. Located' /\ Reads' /\ Unread'
    BY <2>1, <2>a DEF RsccInv, Located, Reads, Unread, Works, Opened, InBlock, decoder
  <2>5. Finished'
    BY <2>1, <2>4, Zenon DEF RsccInv, Finished
  <2>. QED BY <2>1, <2>2, <2>3, <2>5 DEF RsccInv
<1>. QED BY <1>1, <1>2

\* A located read over an accounted table is what decompress_rscc would read.
LEMMA RsccInvIsExact == RsccInv => ReadsAreExact
<1>. SUFFICES ASSUME RsccInv PROVE ReadsAreExact
  OBVIOUS
<1>1. ASSUME viewing \notin {"open", "failed"}, \A i \in DOMAIN file.sizes : file.sizes[i] <= MaxBlock
      PROVE  Accepted(file)
  <2>1. Works /\ file \in Containers /\ Opened(file)
    BY <1>1 DEF Works, RsccInv, Located
  <2>2. Len(file.sizes) = Blocks(file)
    BY <2>1, ContainerFacts DEF Opened
  <2>. QED BY <1>1, <2>1, <2>2 DEF Opened, Accepted, BlockPlace
<1>2. ViewIsTheDecoders
  BY <1>1 DEF RsccInv, PieceIsTheDecoders, BlockOf, Inside, ViewIsTheDecoders
<1>3. physicalRead <= physical /\ decoded <= OutputSize
  BY DEF RsccInv, DecoderInv, DecoderSizes
<1>4. complete => physicalRead - unread = physical /\ decoded = OutputSize
  BY Zenon DEF RsccInv, DecoderInv, Spent
<1>5. viewing = "idle" /\ cached # None /\ stop = logical => complete
  BY Zenon DEF RsccInv, Finished
<1>6. viewing = "copy" /\ ~Holds(InBlock) => ~complete
  BY EndHolds, Zenon
<1>7. BlockIsExact
  BY <1>3, <1>4, <1>5, <1>6, Zenon DEF BlockIsExact
<1>. QED BY <1>2, <1>7 DEF ReadsAreExact

\* Whatever was read before, in whatever order and however the codec and the
\* source behave, the view of an RSCC container returns the bytes
\* decompress_rscc would have put at the position asked for.
THEOREM ReadsAreAlwaysExact == RsccSpec => []ReadsAreExact
<1>1. RsccSpec => []RsccInv
  BY RsccInvInit, RsccStep, PTL DEF RsccSpec
<1>. QED BY <1>1, RsccInvIsExact, PTL

-----------------------------------------------------------------------------
(***************************************************************************)
(* PckDirectory: whatever numbers a file holds, no extent the session is   *)
(* given leaves what it belongs to, and an index is the whole directory,   *)
(* for every width of a word and every limit.                              *)
(*                                                                         *)
(* A sum that is compared is either exact or Word, and no file is that     *)
(* long, so a sum that passes a comparison is exact; and the unsigned      *)
(* difference of a body before the pack is longer than the pack.           *)
(***************************************************************************)
Extents == [offset : Nat, size : Nat]

EntryType ==
  [body : Extents, logical : Nat, mode : {"plain", "encrypted", "removal", "sealed"}, names : Nat]

TypeOK ==
  /\ fileSize \in Nat /\ 2 * fileSize < Word
  /\ pack \in Extents
  /\ base \in Nat /\ count \in Nat /\ cursor \in Nat /\ limit \in Nat
  /\ entries \in Seq(EntryType)

\* Where everything lies: the bodies in the file, and the reader's range too.
BodiesPlaced ==
  /\ Within(pack, 0, fileSize)
  /\ cursor <= limit /\ limit <= fileSize
  /\ \A i \in DOMAIN entries :
       /\ Within(entries[i].body, 0, fileSize)
       /\ entries[i].mode = "sealed" =>
            /\ Within(entries[i].body, pack.offset, PackEnd)
            /\ entries[i].logical <= entries[i].body.size - 40

\* What the reader knows once it is past the header, and past the entries.
OpenedReader == secret => (evidence => key = "right") /\ evidence = (limit # 0)
IndexWhole == Len(entries) = count /\ (secret => cursor = limit)

Progressed ==
  /\ pc # "done" => result # "index"
  /\ pc \in {"standalone", "section", "footer", "header", "secret directory", "directory"} => entries = <<>>
  /\ pc \in {"directory", "entries", "members"} \/ result = "index" => OpenedReader
  /\ pc = "members" \/ result = "index" => IndexWhole

DirectoryInv == TypeOK /\ BodiesPlaced /\ Progressed

-----------------------------------------------------------------------------
\* A quotient's remainder is the only number that is one.
LEMMA RemainderIsUnique ==
  ASSUME NEW w \in Nat \ {0}, NEW d \in Int, d \in (-w)..(w - 1)
  PROVE  d % w = IF d >= 0 THEN d ELSE d + w
<1> DEFINE r == d % w
           q == d \div w
<1>1. r \in 0..(w - 1) /\ q \in Int /\ d = w * q + r
  OBVIOUS
<1>2. q >= 1 => w * q >= w
  BY <1>1
<1>3. q <= -2 => w * q <= -(2 * w)
  <2>1. ASSUME q <= -2 PROVE w * q <= w * (-2)
    BY <1>1, <2>1
  <2>2. w * (-2) = -(2 * w)
    OBVIOUS
  <2> QED
    BY <2>1, <2>2
<1>4. q = -1 => w * q = -w
  BY <1>1
<1>5. q = 0 => w * q = 0
  BY <1>1
<1>6. q >= 1 \/ q <= -2 \/ q = -1 \/ q = 0
  BY <1>1
<1> DEFINE m == w * q
<1>7. m \in Int /\ d = m + r
  BY <1>1
<1> HIDE DEF q, r, m
<1>8. q >= 1 => m >= w
  BY <1>2 DEF m
<1>9. q <= -2 => m <= -(2 * w)
  BY <1>3 DEF m
<1>10. (q = -1 => m = -w) /\ (q = 0 => m = 0)
  BY <1>4, <1>5 DEF m
<1>11. r = IF d >= 0 THEN d ELSE d + w
  BY <1>1, <1>6, <1>7, <1>8, <1>9, <1>10
<1> QED
  BY <1>11 DEF r

\* A checked sum is exact or Word.
LEMMA SumsAreExact ==
  ASSUME NEW a \in Nat, NEW b \in Nat
  PROVE  /\ CheckedAdd(a, b) \in Nat
         /\ CheckedAdd(a, b) < Word => CheckedAdd(a, b) = a + b
BY DirectoryAssumption DEF CheckedAdd

\* The padded payload holds what it announces.
LEMMA PaddingCovers ==
  ASSUME NEW n \in Nat
  PROVE  16 * ((n + 15) \div 16) \in Nat /\ n <= 16 * ((n + 15) \div 16)
OBVIOUS

\* An envelope is a part of its window that has room for what it announces.
LEMMA EnvelopeFits ==
  ASSUME NEW window \in [offset : Nat, size : Int], NEW plain \in Nat, NEW bound,
         fileSize \in Nat, Envelope(window, plain, bound) # Nowhere
  PROVE  LET e == Envelope(window, plain, bound)
         IN /\ e \in Extents /\ e.offset = window.offset
            /\ e.size <= window.size /\ plain <= e.size - 40
            /\ window.offset + window.size <= fileSize
<1> DEFINE padded == 16 * ((plain + 15) \div 16)
<1>1. padded \in Nat /\ plain <= padded
  BY PaddingCovers
<1>2. /\ Envelope(window, plain, bound) = Extent(window.offset, 40 + padded)
      /\ ~(window.size > fileSize - window.offset) /\ ~(padded > window.size - 40)
  BY DEF Envelope
<1> HIDE DEF padded
<1> QED
  BY <1>1, <1>2 DEF Extent, Extents

-----------------------------------------------------------------------------
\* The reader starts with nothing.
LEMMA InitHolds == Init => DirectoryInv
<1> SUFFICES ASSUME Init PROVE DirectoryInv
  OBVIOUS
<1>1. fileSize \in Nat /\ 2 * fileSize < Word
  BY DirectoryAssumption DEF Init
<1>2. TypeOK
  BY <1>1 DEF Init, TypeOK, Nowhere, Extent, Extents
<1>3. BodiesPlaced
  BY <1>1 DEF Init, BodiesPlaced, Nowhere, Extent, Within
<1>4. Progressed
  BY DEF Init, Progressed
<1> QED
  BY <1>2, <1>3, <1>4 DEF DirectoryInv

\* A search that names a range of the file, or none, keeps the invariant.
LEMMA LocatingKeeps ==
  ASSUME DirectoryInv, pc \in {"standalone", "section", "footer"}, UNCHANGED <<fileSize, key, Reading>>,
         pack' \in Extents, Within(pack', 0, fileSize),
         pc' \in {"section", "footer", "header", "done"}, result' # "index"
  PROVE  DirectoryInv'
<1>1. entries' = <<>> /\ entries = <<>>
  BY DEF DirectoryInv, Progressed, Reading
<1>2. TypeOK'
  BY DEF DirectoryInv, TypeOK, Reading
<1>3. BodiesPlaced'
  BY <1>1 DEF DirectoryInv, BodiesPlaced, Reading, Within
<1>4. Progressed'
  BY <1>1 DEF Progressed
<1> QED
  BY <1>2, <1>3, <1>4 DEF DirectoryInv

\* A standalone pack is the whole file.
LEMMA StandaloneKeeps == DirectoryInv /\ Standalone => DirectoryInv'
<1> SUFFICES ASSUME DirectoryInv, Standalone PROVE DirectoryInv'
  OBVIOUS
<1>1. result # "index" /\ result' = result /\ pc' \in {"header", "section"}
  BY DEF Standalone, Locate, DirectoryInv, Progressed
<1>2. pack' \in Extents /\ Within(pack', 0, fileSize)
  BY DEF Standalone, Locate, DirectoryInv, TypeOK, BodiesPlaced, Extent, Extents, Within
<1> QED
  BY <1>1, <1>2, LocatingKeeps DEF Standalone

\* A section's pack lies in the bytes of the section, and those in the file.
LEMMA EmbeddedKeeps ==
  ASSUME DirectoryInv, NEW raw \in Nat, NEW extent \in Nat, Embedded(raw, extent), pc = "section",
         UNCHANGED <<fileSize, key, Reading>>
  PROVE  DirectoryInv'
<1>1. result # "index" /\ pack \in Extents /\ Within(pack, 0, fileSize) /\ fileSize \in Nat
  BY DEF DirectoryInv, Progressed, TypeOK, BodiesPlaced
<1>2. CASE UNCHANGED pack /\ pc' \in {"done", "footer"} /\ result' \in {Error, result}
  BY <1>1, <1>2, LocatingKeeps DEF Error
<1>3. CASE /\ raw + extent <= fileSize
           /\ \E shift \in Shifts : raw + shift + 4 <= raw + extent /\ Locate(Extent(raw + shift, extent - shift))
  <2>1. PICK shift \in Shifts : raw + shift + 4 <= raw + extent /\ Locate(Extent(raw + shift, extent - shift))
    BY <1>3
  <2>2. shift \in Nat
    BY DirectoryAssumption
  <2>3. pack' \in Extents /\ Within(pack', 0, fileSize)
    BY <1>1, <1>3, <2>1, <2>2 DEF Locate, Extent, Extents, Within
  <2> QED
    BY <1>1, <2>1, <2>3, LocatingKeeps DEF Locate
<1> QED
  BY <1>2, <1>3 DEF Embedded, Stop

\* Every outcome of the walk over the section table.
LEMMA SectionKeeps == DirectoryInv /\ Section => DirectoryInv'
<1> SUFFICES ASSUME DirectoryInv, Section PROVE DirectoryInv'
  OBVIOUS
<1>1. result # "index" /\ pack \in Extents /\ Within(pack, 0, fileSize)
  BY DEF DirectoryInv, Progressed, TypeOK, BodiesPlaced, Section
<1>2. pc = "section" /\ UNCHANGED <<fileSize, key, Reading>>
  BY DEF Section
<1>3. CASE UNCHANGED pack /\ pc' \in {"done", "footer"} /\ result' \in {Error, result}
  BY <1>1, <1>2, <1>3, LocatingKeeps DEF Error
<1>4. CASE \E raw \in Numbers \ {0}, extent \in Numbers : Embedded(raw, extent)
  <2>1. PICK raw \in Numbers \ {0}, extent \in Numbers : Embedded(raw, extent)
    BY <1>4
  <2>2. raw \in Nat /\ extent \in Nat
    BY DirectoryAssumption
  <2> QED
    BY <1>2, <2>1, <2>2, EmbeddedKeeps
<1> QED
  BY <1>3, <1>4 DEF Section, Stop

\* The footer points back into the file or is refused.
LEMMA FooterKeeps == DirectoryInv /\ Footer => DirectoryInv'
<1> SUFFICES ASSUME DirectoryInv, Footer PROVE DirectoryInv'
  OBVIOUS
<1>1. result # "index" /\ pack \in Extents /\ Within(pack, 0, fileSize) /\ fileSize \in Nat
  BY DEF DirectoryInv, Progressed, TypeOK, BodiesPlaced, Footer
<1>2. pc = "footer" /\ UNCHANGED <<fileSize, key, Reading>>
  BY DEF Footer
<1>3. CASE UNCHANGED pack /\ pc' = "done" /\ result' \in {Error, "no pack"}
  BY <1>1, <1>2, <1>3, LocatingKeeps DEF Error
<1>4. CASE \E extent \in Numbers : /\ ~(fileSize < 12 \/ extent < 4 \/ extent > fileSize - 12)
                                 /\ Locate(Extent(fileSize - 12 - extent, extent))
  <2>1. PICK extent \in Numbers : /\ ~(fileSize < 12 \/ extent < 4 \/ extent > fileSize - 12)
                                /\ Locate(Extent(fileSize - 12 - extent, extent))
    BY <1>4
  <2>2. extent \in Nat
    BY DirectoryAssumption
  <2>3. pack' \in Extents /\ Within(pack', 0, fileSize)
    BY <1>1, <2>1, <2>2 DEF Locate, Extent, Extents, Within
  <2> QED
    BY <1>1, <1>2, <2>1, <2>3, LocatingKeeps DEF Locate
<1> QED
  BY <1>3, <1>4 DEF Footer, Stop

-----------------------------------------------------------------------------
\* A step that gives up keeps everything it found.
LEMMA StoppingKeeps ==
  ASSUME DirectoryInv, pc # "done", pc' = "done", result' # "index",
         count' \in Nat, UNCHANGED <<fileSize, pack, base, cursor, limit, entries>>
  PROVE  DirectoryInv'
<1>1. TypeOK' /\ BodiesPlaced'
  BY DEF DirectoryInv, TypeOK, BodiesPlaced, Within, PackEnd
<1>2. Progressed'
  BY DEF Progressed
<1> QED
  BY <1>1, <1>2 DEF DirectoryInv

\* The header leaves the reader between the count and the end of the pack.
LEMMA HeaderKeeps == DirectoryInv /\ Header => DirectoryInv'
<1> SUFFICES ASSUME DirectoryInv, Header PROVE DirectoryInv'
  OBVIOUS
<1>1. /\ pc = "header" /\ count' \in Counts
      /\ UNCHANGED <<fileSize, pack, key, evidence, budget, entries>>
  BY DEF Header
<1>2. count' \in Nat
  BY <1>1, DirectoryAssumption
<1>3. PICK v \in Versions, flagged \in BOOLEAN, relative \in BOOLEAN, unsupported \in BOOLEAN,
           storedBase \in Numbers, storedDirectory \in Numbers :
        LET start     == pack.offset
            fileBase  == IF v <= 1 THEN 0
                         ELSE IF v >= 3 \/ relative THEN CheckedAdd(start, storedBase) ELSE storedBase
            directory == IF v >= 3 THEN CheckedAdd(start, storedDirectory) ELSE start + HeaderBytes(v)
        IN /\ v < 2 => ~flagged /\ ~relative /\ ~unsupported /\ storedBase = 0
           /\ v < 3 => storedDirectory = 0
           /\ IF \/ HeaderBytes(v) > pack.size \/ v > 4 \/ unsupported
                 \/ ~Fits(fileBase) \/ ~Fits(directory) \/ directory > PackEnd \/ PackEnd - directory < 4
              THEN Stop(Error) /\ UNCHANGED <<version, base, secret, cursor, limit>>
              ELSE /\ version' = v /\ base' = fileBase /\ secret' = flagged
                   /\ cursor' = directory + 4 /\ limit' = PackEnd
                   /\ pc' = IF flagged THEN "secret directory" ELSE "directory"
                   /\ UNCHANGED result
  BY Zenon DEF Header
<1>4. CASE Stop(Error) /\ UNCHANGED <<version, base, secret, cursor, limit>>
  BY <1>1, <1>2, <1>4, StoppingKeeps DEF Stop, Error
<1>5. CASE ~(Stop(Error) /\ UNCHANGED <<version, base, secret, cursor, limit>>)
  <2>1. LET fileBase  == IF v <= 1 THEN 0
                         ELSE IF v >= 3 \/ relative THEN CheckedAdd(pack.offset, storedBase) ELSE storedBase
            directory == IF v >= 3 THEN CheckedAdd(pack.offset, storedDirectory)
                         ELSE pack.offset + HeaderBytes(v)
        IN /\ ~(directory > PackEnd) /\ ~(PackEnd - directory < 4)
           /\ base' = fileBase /\ secret' = flagged
           /\ cursor' = directory + 4 /\ limit' = PackEnd
           /\ pc' = IF flagged THEN "secret directory" ELSE "directory"
           /\ UNCHANGED result
    BY <1>3, <1>5
  <2> DEFINE directory == IF v >= 3 THEN CheckedAdd(pack.offset, storedDirectory)
                          ELSE pack.offset + HeaderBytes(v)
  <2>2. /\ pack.offset \in Nat /\ pack.size \in Nat /\ fileSize \in Nat
        /\ pack.offset + pack.size <= fileSize
    BY DEF DirectoryInv, TypeOK, BodiesPlaced, Within, Extents
  <2>3. storedBase \in Nat /\ storedDirectory \in Nat /\ HeaderBytes(v) \in Nat
    BY DirectoryAssumption DEF HeaderBytes
  <2>a. CheckedAdd(pack.offset, storedBase) \in Nat /\ CheckedAdd(pack.offset, storedDirectory) \in Nat
    BY <2>2, <2>3, SumsAreExact
  <2>b. pack.offset + HeaderBytes(v) \in Nat
    BY <2>2, <2>3
  <2>c. /\ base' \in {0, CheckedAdd(pack.offset, storedBase), storedBase}
        /\ directory \in {CheckedAdd(pack.offset, storedDirectory), pack.offset + HeaderBytes(v)}
    BY <2>1
  <2>4. base' \in Nat /\ directory \in Nat
    BY <2>3, <2>a, <2>b, <2>c
  <2>d. ~(directory > PackEnd) /\ ~(PackEnd - directory < 4)
    BY <2>1
  <2>e. PackEnd \in Nat /\ PackEnd <= fileSize
    BY <2>2 DEF PackEnd
  <2>5. directory + 4 <= PackEnd /\ PackEnd <= fileSize /\ PackEnd \in Nat
    <3> HIDE DEF directory
    <3> QED
      BY <2>4, <2>d, <2>e
  <2>6. cursor' = directory + 4 /\ limit' = PackEnd
    BY <2>1
  <2> HIDE DEF directory
  <2>7. cursor' \in Nat /\ limit' \in Nat /\ cursor' <= limit' /\ limit' <= fileSize
    BY <2>4, <2>5, <2>6
  <2>8. TypeOK'
    BY <1>1, <1>2, <2>4, <2>7 DEF DirectoryInv, TypeOK
  <2>9. entries = <<>> /\ result # "index"
    BY <1>1 DEF DirectoryInv, Progressed
  <2>10. BodiesPlaced'
    BY <1>1, <2>7, <2>9 DEF DirectoryInv, BodiesPlaced, Within
  <2>11. result' # "index" /\ pc' \in {"secret directory", "directory"} /\ (pc' = "directory" => secret' = FALSE)
    BY <2>1, <2>9
  <2>12. Progressed'
    BY <1>1, <2>9, <2>11 DEF Progressed, OpenedReader
  <2> QED
    BY <2>8, <2>10, <2>12 DEF DirectoryInv
<1> QED
  BY <1>4, <1>5

\* An encrypted directory is read from its plaintext, which is no longer than
\* its envelope.
LEMMA SecretDirectoryKeeps == DirectoryInv /\ SecretDirectory => DirectoryInv'
<1> SUFFICES ASSUME DirectoryInv, SecretDirectory PROVE DirectoryInv'
  OBVIOUS
<1>1. /\ pc = "secret directory"
      /\ UNCHANGED <<fileSize, pack, version, base, count, secret, key, entries>>
  BY DEF SecretDirectory
<1>2. CASE /\ \/ Stop(Error) \/ Stop("key required") \/ Stop("key mismatch")
           /\ UNCHANGED <<evidence, cursor, limit, budget>>
  <2>1. pc' = "done" /\ result' # "index"
    BY <1>2 DEF Stop, Error
  <2>2. count' \in Nat
    BY <1>1 DEF DirectoryInv, TypeOK
  <2> QED
    BY <1>1, <1>2, <2>1, <2>2, StoppingKeeps
<1>3. CASE \E plain \in Numbers :
             /\ Envelope(Extent(cursor, PackEnd - cursor), plain, MaxIndexBytes) # Nowhere
             /\ ~(key # "right" /\ plain # 0)
             /\ evidence' = (plain # 0) /\ cursor' = 0 /\ limit' = plain
             /\ pc' = "directory" /\ UNCHANGED result
  <2>1. PICK plain \in Numbers :
             /\ Envelope(Extent(cursor, PackEnd - cursor), plain, MaxIndexBytes) # Nowhere
             /\ ~(key # "right" /\ plain # 0)
             /\ evidence' = (plain # 0) /\ cursor' = 0 /\ limit' = plain
             /\ pc' = "directory" /\ UNCHANGED result
    BY <1>3
  <2>2. plain \in Nat
    BY DirectoryAssumption
  <2>3. /\ pack.offset \in Nat /\ pack.size \in Nat /\ fileSize \in Nat /\ cursor \in Nat
        /\ Extent(cursor, PackEnd - cursor) \in [offset : Nat, size : Int]
        /\ Extent(cursor, PackEnd - cursor).offset = cursor
        /\ Extent(cursor, PackEnd - cursor).size = PackEnd - cursor
        /\ PackEnd - cursor \in Int
    BY DEF DirectoryInv, TypeOK, Extents, Extent, PackEnd
  <2>4. plain <= fileSize
    <3> DEFINE w == Extent(cursor, PackEnd - cursor)
               e == Envelope(w, plain, MaxIndexBytes)
    <3>1. e \in Extents /\ e.size <= w.size /\ plain <= e.size - 40 /\ w.offset + w.size <= fileSize
      BY <2>1, <2>2, <2>3, EnvelopeFits
    <3>2. e.size \in Nat /\ w.size \in Int /\ w.offset \in Nat
      BY <2>3, <3>1 DEF Extents
    <3> HIDE DEF w, e
    <3> QED
      BY <2>2, <2>3, <3>1, <3>2
  <2>5. TypeOK'
    BY <1>1, <2>1, <2>2 DEF DirectoryInv, TypeOK
  <2>6. entries = <<>> /\ result # "index"
    BY <1>1 DEF DirectoryInv, Progressed
  <2>7. BodiesPlaced'
    <3>a. cursor' = 0 /\ limit' = plain /\ fileSize' = fileSize
      BY <1>1, <2>1
    <3>1. cursor' <= limit' /\ limit' <= fileSize'
      BY <2>2, <2>4, <3>a
    <3>2. Within(pack, 0, fileSize)' /\ entries' = <<>>
      BY <1>1, <2>6 DEF DirectoryInv, BodiesPlaced, Within
    <3> QED
      BY <3>1, <3>2 DEF BodiesPlaced
  <2>8. Progressed'
    BY <1>1, <2>1, <2>6 DEF Progressed, OpenedReader
  <2> QED
    BY <2>5, <2>7, <2>8 DEF DirectoryInv
<1> QED
  BY <1>2, <1>3 DEF SecretDirectory

\* Nothing moves before the entries.
LEMMA DirectoryKeeps == DirectoryInv /\ Directory => DirectoryInv'
<1> SUFFICES ASSUME DirectoryInv, Directory PROVE DirectoryInv'
  OBVIOUS
<1>1. /\ pc = "directory"
      /\ UNCHANGED <<fileSize, pack, version, base, count, secret, key, evidence, cursor, limit, entries>>
      /\ \/ pc' = "done" /\ result' = Error
         \/ pc' = "entries" /\ result' = result
  BY DEF Directory, Stop
<1>2. TypeOK' /\ BodiesPlaced'
  BY <1>1 DEF DirectoryInv, TypeOK, BodiesPlaced, Within, PackEnd
<1>3. Progressed'
  BY <1>1 DEF DirectoryInv, Progressed, OpenedReader, Error
<1> QED
  BY <1>2, <1>3 DEF DirectoryInv

-----------------------------------------------------------------------------
\* An entry that is accepted lies in the file, and was read inside the limit.
LEMMA ReadEntryKeeps == DirectoryInv /\ ReadEntry => DirectoryInv'
<1> SUFFICES ASSUME DirectoryInv, ReadEntry PROVE DirectoryInv'
  OBVIOUS
<1>1. /\ pc = "entries"
      /\ UNCHANGED <<fileSize, pack, version, base, count, secret, key, evidence, limit>>
  BY DEF ReadEntry
<1>2. CASE Stop(Error) /\ UNCHANGED <<budget, cursor, entries>>
  <2>1. pc' = "done" /\ result' # "index" /\ count' \in Nat
    BY <1>1, <1>2 DEF Stop, Error, DirectoryInv, TypeOK
  <2> QED
    BY <1>1, <1>2, <2>1, StoppingKeeps
<1>3. CASE \E name \in RawNames, storedOffset \in Numbers, extent \in Numbers, mode \in Modes :
             LET end    == cursor + MinimumEntryBytes - 1 + name.stored
                 offset == CheckedAdd(base, storedOffset)
             IN /\ ~(end > limit) /\ mode # "unknown"
                /\ Fits(offset) /\ ~(CheckedAdd(offset, extent) > fileSize)
                /\ cursor' = end
                /\ entries' = Append(entries, [body |-> Extent(offset, extent), logical |-> extent,
                                               mode |-> mode, names |-> name.stored + name.logical])
                /\ UNCHANGED <<pc, result>>
  <2>1. PICK name \in RawNames, storedOffset \in Numbers, extent \in Numbers, mode \in Modes :
             LET end    == cursor + MinimumEntryBytes - 1 + name.stored
                 offset == CheckedAdd(base, storedOffset)
             IN /\ ~(end > limit) /\ mode # "unknown"
                /\ Fits(offset) /\ ~(CheckedAdd(offset, extent) > fileSize)
                /\ cursor' = end
                /\ entries' = Append(entries, [body |-> Extent(offset, extent), logical |-> extent,
                                               mode |-> mode, names |-> name.stored + name.logical])
                /\ UNCHANGED <<pc, result>>
    BY <1>3
  <2> DEFINE offset == CheckedAdd(base, storedOffset)
             e == [body |-> Extent(offset, extent), logical |-> extent,
                   mode |-> mode, names |-> name.stored + name.logical]
  <2>2. /\ storedOffset \in Nat /\ extent \in Nat /\ name.stored \in Nat /\ name.logical \in Nat
        /\ base \in Nat /\ fileSize \in Nat /\ fileSize < Word /\ cursor \in Nat /\ limit \in Nat
        /\ MinimumEntryBytes \in Nat \ {0} /\ Word \in Nat /\ entries \in Seq(EntryType)
    BY DirectoryAssumption DEF DirectoryInv, TypeOK, MinimumEntryBytes
  <2>3. offset \in Nat
    BY <2>2, SumsAreExact
  <2>4. ~(CheckedAdd(offset, extent) > fileSize) /\ entries' = Append(entries, e)
    BY <2>1
  <2> HIDE DEF offset
  <2>5. offset + extent <= fileSize
    <3> DEFINE total == CheckedAdd(offset, extent)
    <3>1. total \in Nat /\ (total < Word => total = offset + extent)
      BY <2>2, <2>3, SumsAreExact
    <3>2. ~(total > fileSize)
      BY <2>4
    <3> HIDE DEF total
    <3> QED
      BY <2>2, <3>1, <3>2
  <2>6. /\ e \in EntryType /\ Within(e.body, 0, fileSize) /\ e.mode # "sealed"
    <3>1. mode \in {"plain", "encrypted", "removal"}
      BY <2>1 DEF Modes
    <3>2. name.stored + name.logical \in Nat
      BY <2>2
    <3>3. Extent(offset, extent) \in Extents
      BY <2>2, <2>3 DEF Extents, Extent
    <3>4. e \in EntryType /\ e.mode # "sealed"
      BY <2>2, <3>1, <3>2, <3>3 DEF EntryType
    <3>5. e.body.offset = offset /\ e.body.size = extent
      BY DEF Extent
    <3>6. offset >= 0 /\ 0 >= 0
      BY <2>3
    <3>. QED BY <2>5, <3>4, <3>5, <3>6 DEF Within
  <2> HIDE DEF e
  <2>7. cursor' \in Nat /\ cursor' <= limit
    BY <2>1, <2>2
  <2>8. /\ entries' \in Seq(EntryType) /\ DOMAIN entries' = 1..(Len(entries) + 1) /\ Len(entries) \in Nat
        /\ \A i \in 1..Len(entries) : entries'[i] = entries[i]
        /\ entries'[Len(entries) + 1] = e /\ DOMAIN entries = 1..Len(entries)
    BY <2>2, <2>4, <2>6
  <2>9. TypeOK'
    BY <1>1, <2>7, <2>8 DEF DirectoryInv, TypeOK
  <2>10. BodiesPlaced'
    <3>1. cursor' <= limit' /\ limit' <= fileSize' /\ Within(pack, 0, fileSize)'
      BY <1>1, <2>7 DEF DirectoryInv, BodiesPlaced, Within
    <3>2. ASSUME NEW i \in DOMAIN entries'
          PROVE  /\ Within(entries'[i].body, 0, fileSize')
                 /\ entries'[i].mode = "sealed" =>
                      /\ Within(entries'[i].body, pack'.offset, PackEnd')
                      /\ entries'[i].logical <= entries'[i].body.size - 40
      <4>1. CASE i \in DOMAIN entries
        BY <1>1, <2>8, <4>1 DEF DirectoryInv, BodiesPlaced, PackEnd, Within
      <4>2. CASE i = Len(entries) + 1
        BY <1>1, <2>6, <2>8, <4>2
      <4> QED
        BY <2>8, <4>1, <4>2
    <3> QED
      BY <3>1, <3>2 DEF BodiesPlaced, Within
  <2>11. Progressed'
    BY <1>1, <2>1 DEF DirectoryInv, Progressed, OpenedReader
  <2> QED
    BY <2>9, <2>10, <2>11 DEF DirectoryInv
<1> QED
  BY <1>2, <1>3 DEF ReadEntry

\* The entries end with all that were announced and, encrypted, with no byte left.
LEMMA EntriesEndKeeps == DirectoryInv /\ EntriesEnd => DirectoryInv'
<1> SUFFICES ASSUME DirectoryInv, EntriesEnd PROVE DirectoryInv'
  OBVIOUS
<1>1. /\ pc = "entries" /\ Len(entries) = count
      /\ UNCHANGED <<fileSize, pack, version, base, count, secret, key, evidence, cursor, limit, entries>>
      /\ \/ pc' = "done" /\ result' = Error
         \/ ~(secret /\ cursor # limit) /\ pc' = "members" /\ result' = result
  BY DEF EntriesEnd, Stop
<1>2. TypeOK' /\ BodiesPlaced'
  BY <1>1 DEF DirectoryInv, TypeOK, BodiesPlaced, Within, PackEnd
<1>3. Progressed'
  BY <1>1 DEF DirectoryInv, Progressed, OpenedReader, IndexWhole, Error
<1> QED
  BY <1>2, <1>3 DEF DirectoryInv

\* A body before the pack is refused, and the envelope of another is in the pack.
LEMMA ResolveMemberKeeps == DirectoryInv /\ ResolveMember => DirectoryInv'
<1> SUFFICES ASSUME DirectoryInv, ResolveMember PROVE DirectoryInv'
  OBVIOUS
<1>1. /\ pc = "members"
      /\ UNCHANGED <<fileSize, pack, version, base, count, secret, key, evidence, cursor, limit, budget>>
  BY DEF ResolveMember
<1>2. CASE Stop(Error) /\ UNCHANGED entries
  <2>1. pc' = "done" /\ result' # "index" /\ count' \in Nat
    BY <1>1, <1>2 DEF Stop, Error, DirectoryInv, TypeOK
  <2> QED
    BY <1>1, <1>2, <2>1, StoppingKeeps
<1>3. CASE \E i \in Unresolved, plain \in Numbers :
             LET relative == (entries[i].body.offset - pack.offset) % Word
                 envelope == Envelope(Extent(entries[i].body.offset, pack.size - relative), plain, Word)
             IN /\ ~(relative > pack.size) /\ envelope # Nowhere /\ plain = entries[i].logical
                /\ entries' = [entries EXCEPT ![i].body = envelope, ![i].mode = "sealed"]
                /\ UNCHANGED <<pc, result>>
  <2>1. PICK i \in Unresolved, plain \in Numbers :
             LET relative == (entries[i].body.offset - pack.offset) % Word
                 envelope == Envelope(Extent(entries[i].body.offset, pack.size - relative), plain, Word)
             IN /\ ~(relative > pack.size) /\ envelope # Nowhere /\ plain = entries[i].logical
                /\ entries' = [entries EXCEPT ![i].body = envelope, ![i].mode = "sealed"]
                /\ UNCHANGED <<pc, result>>
    BY <1>3
  <2> DEFINE start == entries[i].body.offset
             relative == (start - pack.offset) % Word
             window == Extent(start, pack.size - relative)
             e == Envelope(window, plain, Word)
             sealed == [entries[i] EXCEPT !.body = e, !.mode = "sealed"]
  <2>2. /\ i \in DOMAIN entries /\ entries \in Seq(EntryType) /\ entries[i] \in EntryType
        /\ plain \in Nat /\ fileSize \in Nat /\ 2 * fileSize < Word /\ Word \in Nat
        /\ pack.offset \in Nat /\ pack.size \in Nat /\ pack.offset + pack.size <= fileSize
    BY DirectoryAssumption DEF DirectoryInv, TypeOK, BodiesPlaced, Within, Unresolved, Extents
  <2>3. start \in Nat /\ start <= fileSize
    <3>1. entries[i].body \in Extents /\ Within(entries[i].body, 0, fileSize)
      BY <2>2 DEF EntryType, DirectoryInv, BodiesPlaced
    <3> QED
      BY <2>2, <3>1 DEF Extents, Within
  <2>4. e # Nowhere /\ plain = entries[i].logical /\ ~(relative > pack.size) /\ UNCHANGED <<pc, result>>
    BY <2>1
  <2>5. entries' = [entries EXCEPT ![i] = sealed]
    BY <2>1, <2>2
  <2> HIDE DEF start
  <2> DEFINE first == pack.offset
             length == pack.size
             d == start - first
  <2>a. first \in Nat /\ length \in Nat /\ first + length <= fileSize
    BY <2>2
  <2>b. relative = d % Word /\ ~(relative > length)
    BY <2>4
  <2> HIDE DEF relative, first, length
  <2>c. d \in Int /\ d \in (-Word)..(Word - 1) /\ Word \in Nat \ {0}
    BY <2>2, <2>3, <2>a
  <2>6. relative = IF d >= 0 THEN d ELSE d + Word
    <3> HIDE DEF d
    <3> QED
      BY <2>b, <2>c, RemainderIsUnique
  <2>d. start >= first /\ relative = start - first /\ relative \in Nat
    BY <2>2, <2>3, <2>a, <2>b, <2>6
  <2>7. start >= pack.offset /\ relative = start - pack.offset /\ relative \in Nat
    BY <2>d DEF first
  <2> HIDE DEF d
  <2>8. /\ window \in [offset : Nat, size : Int] /\ window.offset = start /\ window.size = pack.size - relative
    BY <2>2, <2>3, <2>7 DEF Extent
  <2> HIDE DEF window
  <2>9. /\ e \in Extents /\ e.offset = start /\ e.size <= pack.size - relative /\ plain <= e.size - 40
    BY <2>2, <2>4, <2>8, EnvelopeFits
  <2> HIDE DEF e
  <2>10. Within(e, 0, fileSize) /\ Within(e, pack.offset, PackEnd)
    <3> DEFINE kept == e.size
    <3>1. kept \in Nat /\ kept <= length - relative /\ e.offset = start
      BY <2>9 DEF Extents, length
    <3> HIDE DEF kept
    <3>2. start >= 0 /\ start + kept <= fileSize /\ start >= first /\ start + kept <= first + length
      BY <2>2, <2>3, <2>a, <2>d, <3>1
    <3> QED
      BY <3>1, <3>2 DEF Within, PackEnd, first, length, kept
  <2>11. /\ sealed \in EntryType /\ sealed.body = e /\ sealed.mode = "sealed" /\ sealed.logical = plain
    BY <2>2, <2>4, <2>9 DEF EntryType
  <2> HIDE DEF sealed
  <2>12. /\ entries' \in Seq(EntryType) /\ DOMAIN entries' = DOMAIN entries /\ Len(entries') = Len(entries)
         /\ \A j \in DOMAIN entries : entries'[j] = IF j = i THEN sealed ELSE entries[j]
    BY <2>2, <2>5, <2>11
  <2>13. TypeOK'
    BY <1>1, <2>12 DEF DirectoryInv, TypeOK
  <2>14. BodiesPlaced'
    <3>1. cursor' <= limit' /\ limit' <= fileSize' /\ Within(pack, 0, fileSize)'
      BY <1>1 DEF DirectoryInv, BodiesPlaced, Within
    <3>2. ASSUME NEW j \in DOMAIN entries'
          PROVE  /\ Within(entries'[j].body, 0, fileSize')
                 /\ entries'[j].mode = "sealed" =>
                      /\ Within(entries'[j].body, pack'.offset, PackEnd')
                      /\ entries'[j].logical <= entries'[j].body.size - 40
      <4>1. CASE j = i
        BY <1>1, <2>9, <2>10, <2>11, <2>12, <4>1 DEF PackEnd
      <4>2. CASE j # i
        BY <1>1, <2>12, <4>2 DEF DirectoryInv, BodiesPlaced, PackEnd
      <4> QED
        BY <4>1, <4>2
    <3> QED
      BY <3>1, <3>2 DEF BodiesPlaced, Within
  <2>15. Progressed'
    BY <1>1, <2>4, <2>12 DEF DirectoryInv, Progressed, OpenedReader, IndexWhole
  <2> QED
    BY <2>13, <2>14, <2>15 DEF DirectoryInv
<1> QED
  BY <1>2, <1>3 DEF ResolveMember

\* The index is handed over as it is.
LEMMA IndexReadKeeps == DirectoryInv /\ IndexRead => DirectoryInv'
<1> SUFFICES ASSUME DirectoryInv, IndexRead PROVE DirectoryInv'
  OBVIOUS
<1>1. /\ pc = "members" /\ pc' = "done"
      /\ UNCHANGED <<fileSize, pack, version, base, count, secret, key, evidence, cursor, limit, budget, entries>>
  BY DEF IndexRead, Stop
<1>2. TypeOK' /\ BodiesPlaced'
  BY <1>1 DEF DirectoryInv, TypeOK, BodiesPlaced, Within, PackEnd
<1>3. Progressed'
  BY <1>1 DEF DirectoryInv, Progressed, OpenedReader, IndexWhole
<1> QED
  BY <1>2, <1>3 DEF DirectoryInv

-----------------------------------------------------------------------------
\* The inductive invariant of the reader holds in every reachable state.
THEOREM DirectoryInvariance == Spec => []DirectoryInv
<1>1. DirectoryInv /\ [Next]_vars => DirectoryInv'
  <2> SUFFICES ASSUME DirectoryInv, [Next]_vars PROVE DirectoryInv'
    OBVIOUS
  <2>1. CASE UNCHANGED vars
    BY <2>1 DEF vars, DirectoryInv, TypeOK, BodiesPlaced, Within, PackEnd, Progressed, OpenedReader, IndexWhole
  <2> QED
    BY <2>1, StandaloneKeeps, SectionKeeps, FooterKeeps, HeaderKeeps, SecretDirectoryKeeps,
       DirectoryKeeps, ReadEntryKeeps, EntriesEndKeeps, ResolveMemberKeeps, IndexReadKeeps DEF Next
<1> QED
  BY <1>1, InitHolds, PTL DEF Spec

\* No extent read_pack hands over leaves the file or the pack, however the
\* numbers of the file were chosen, and an index is the whole directory.
THEOREM DirectoriesAreSound == Spec => []DirectoryIsSound
<1>1. ASSUME DirectoryInv PROVE ExtentsAreInside
  BY <1>1 DEF DirectoryInv, BodiesPlaced, ExtentsAreInside, Within
<1>2. ASSUME DirectoryInv PROVE IndexIsWhole
  BY <1>2 DEF DirectoryInv, BodiesPlaced, Progressed, OpenedReader, IndexWhole, IndexIsWhole
<1> QED
  BY <1>1, <1>2, DirectoryInvariance, PTL DEF DirectoryIsSound

-----------------------------------------------------------------------------
(***************************************************************************)
(* The budget: what it holds is charged before it is kept, and a charge    *)
(* that passes is exact.                                                   *)
(***************************************************************************)
Names(es) == [i \in DOMAIN es |-> es[i].names]
Held(es) == SumFunctionOnSet(Names(es), 1..Len(es))

\* What the entries announced cost, a product the provers need not look into.
Cost(n) == n * EntryCost

BudgetInv ==
  /\ budget \in Nat
  /\ pc \in {"entries", "members"} => budget <= MaxIndexBytes /\ budget >= Cost(count) + Held(entries)

\* The cost of so many entries is a number.
LEMMA CostIsNat == \A n \in Nat : Cost(n) \in Nat
BY DirectoryAssumption DEF Cost

\* A charge that fits is the sum, within the limit.
LEMMA ChargesAreExact ==
  ASSUME NEW a \in Nat, NEW b \in Nat, Fits(Charged(a, b))
  PROVE  Charged(a, b) = a + b /\ Charged(a, b) <= MaxIndexBytes /\ Charged(a, b) \in Nat
<1>1. PICK total : total = CheckedAdd(a, b) /\ total \in Nat /\ (total < Word => total = a + b)
  BY SumsAreExact
<1>2. PICK m : m = MaxIndexBytes /\ m \in Nat /\ m < Word /\ Word \in Nat
  BY DirectoryAssumption
<1>3. PICK c : c = Charged(a, b) /\ c < Word
  BY DEF Fits
<1>4. c = IF total > m THEN Word ELSE total
  BY <1>1, <1>2, <1>3 DEF Charged
<1>5. c = total /\ total <= m
  BY <1>1, <1>2, <1>3, <1>4
<1>. QED BY <1>1, <1>2, <1>3, <1>5

\* No entries hold no names.
LEMMA NothingIsHeld == Held(<<>>) = 0
<1>1. 0 \in Nat /\ Len(<<>>) = 0
  OBVIOUS
<1>. QED BY <1>1, PrefixSum DEF Held

\* The names of entries take so many bytes.
LEMMA HeldIsNat ==
  ASSUME NEW es \in Seq(EntryType)
  PROVE  Held(es) \in Nat
<1>1. ASSUME NEW i \in 1..Len(es) PROVE Names(es)[i] \in Nat
  <2>1. es[i] \in EntryType /\ i \in DOMAIN es
    OBVIOUS
  <2>. QED BY <2>1 DEF Names, EntryType
<1>2. Len(es) \in Nat
  OBVIOUS
<1>. QED BY <1>1, <1>2, PrefixSum DEF Held

\* One more entry holds the bytes of its names.
LEMMA HeldGrows ==
  ASSUME NEW es \in Seq(EntryType), NEW e \in EntryType
  PROVE  Held(Append(es, e)) = Held(es) + e.names
<1>1. PICK n : n = Len(es) /\ n \in Nat
  OBVIOUS
<1>a. /\ Append(es, e) \in Seq(EntryType) /\ Len(Append(es, e)) = n + 1 /\ Append(es, e)[n + 1] = e
      /\ \A i \in 1..n : Append(es, e)[i] = es[i]
  BY <1>1
<1>2. PICK fs : /\ fs = Append(es, e) /\ fs \in Seq(EntryType) /\ Len(fs) = n + 1 /\ fs[n + 1] = e
                /\ \A i \in 1..n : fs[i] = es[i]
  BY <1>a
<1>3. ASSUME NEW i \in 1..(n + 1) PROVE Names(fs)[i] = fs[i].names /\ Names(fs)[i] \in Nat
  <2>1. fs[i] \in EntryType /\ i \in DOMAIN fs
    BY <1>1, <1>2
  <2>. QED BY <2>1 DEF Names, EntryType
<1>4. ASSUME NEW i \in 1..n PROVE Names(fs)[i] = Names(es)[i]
  <2>1. i \in DOMAIN es /\ i \in 1..(n + 1) /\ fs[i] = es[i]
    BY <1>1, <1>2
  <2>. QED BY <1>3, <2>1 DEF Names
<1>5. SumFunctionOnSet(Names(fs), 1..(n + 1)) = SumFunctionOnSet(Names(fs), 1..n) + Names(fs)[n + 1]
  BY <1>1, <1>3, PrefixSumGrows
<1>6. SumFunctionOnSet(Names(fs), 1..n) = SumFunctionOnSet(Names(es), 1..n)
  BY <1>1, <1>4, PrefixSumOfSame
<1>7. Names(fs)[n + 1] = e.names
  BY <1>1, <1>2, <1>3
<1>. QED BY <1>1, <1>2, <1>5, <1>6, <1>7 DEF Held

\* Entries that changed all but their names hold as much.
LEMMA HeldOfSame ==
  ASSUME NEW es \in Seq(EntryType), NEW fs \in Seq(EntryType), Len(fs) = Len(es),
         \A i \in 1..Len(es) : fs[i].names = es[i].names
  PROVE  Held(fs) = Held(es)
<1>1. Len(es) \in Nat /\ \A i \in 1..Len(es) : Names(fs)[i] = Names(es)[i]
  BY DEF Names
<1>. QED BY <1>1, PrefixSumOfSame DEF Held

\* Nothing is paid before the directory.
LEMMA UnpaidKeeps ==
  ASSUME BudgetInv, UNCHANGED budget, pc' \notin {"entries", "members"}
  PROVE  BudgetInv'
BY DEF BudgetInv

\* The workspace of an encrypted directory is a part of its envelope.
LEMMA WorkspaceIsPaid ==
  ASSUME DirectoryInv, BudgetInv, SecretDirectory
  PROVE  BudgetInv'
<1>1. pc' \notin {"entries", "members"}
  BY DEF SecretDirectory, Stop
<1>2. CASE UNCHANGED budget
  BY <1>1, <1>2, UnpaidKeeps
<1>3. CASE ~UNCHANGED budget
  <2>1. PICK plain \in Numbers :
          LET envelope == Envelope(Extent(cursor, PackEnd - cursor), plain, MaxIndexBytes)
          IN envelope # Nowhere /\ budget' = Min({envelope.size - 40, Chunk})
    BY <1>3 DEF SecretDirectory
  <2>2. PICK w, e : /\ w = Extent(cursor, PackEnd - cursor) /\ e = Envelope(w, plain, MaxIndexBytes)
                    /\ e # Nowhere /\ budget' = Min({e.size - 40, Chunk})
    BY <2>1
  <2>3. w \in [offset : Nat, size : Int] /\ fileSize \in Nat /\ plain \in Nat
    BY <2>2, DirectoryAssumption DEF DirectoryInv, TypeOK, Extents, Extent, PackEnd
  <2>4. e.size \in Nat /\ plain <= e.size - 40
    BY <2>2, <2>3, EnvelopeFits DEF Extents
  <2>5. e.size - 40 \in Nat /\ Chunk \in Nat
    BY <2>3, <2>4, DirectoryAssumption
  <2>6. {e.size - 40, Chunk} \in SUBSET Nat /\ {e.size - 40, Chunk} # {}
    BY <2>5
  <2>7. Min({e.size - 40, Chunk}) \in {e.size - 40, Chunk}
    BY <2>6, LeastIndex
  <2>8. budget' \in Nat
    BY <2>2, <2>5, <2>7
  <2>. QED BY <1>1, <2>8 DEF BudgetInv
<1>. QED BY <1>2, <1>3

\* The directory pays for every entry it announces, before the first.
LEMMA EntriesArePaid ==
  ASSUME DirectoryInv, BudgetInv, Directory
  PROVE  BudgetInv'
<1>1. pc = "directory" /\ UNCHANGED <<count, entries>>
  BY DEF Directory
<1>2. CASE Stop(Error) /\ UNCHANGED budget
  BY <1>2, UnpaidKeeps DEF Stop
<1>3. CASE Fits(Charged(budget, Cost(count))) /\ budget' = Charged(budget, Cost(count))
  <2>1. budget \in Nat /\ count \in Nat /\ Cost(count) \in Nat /\ entries = <<>>
    BY <1>1, CostIsNat DEF BudgetInv, DirectoryInv, TypeOK, Progressed
  <2>2. PICK b, c, d, m : /\ b = budget /\ c = Cost(count) /\ d = budget' /\ m = MaxIndexBytes
                          /\ b \in Nat /\ c \in Nat
    BY <2>1
  <2>3. d = b + c /\ d <= m /\ d \in Nat
    BY <1>3, <2>2, ChargesAreExact
  <2>4. d >= c + 0
    BY ONLY <2>2, <2>3
  <2>. QED BY <1>1, <2>1, <2>2, <2>3, <2>4, NothingIsHeld DEF BudgetInv
<1>. QED BY <1>2, <1>3 DEF Directory, Cost

\* A name is paid for as stored and as kept, before its entry is.
LEMMA NamesArePaid ==
  ASSUME DirectoryInv, BudgetInv, ReadEntry
  PROVE  BudgetInv'
<1>1. pc = "entries" /\ UNCHANGED count /\ entries \in Seq(EntryType)
  BY DEF ReadEntry, DirectoryInv, TypeOK
<1>2. CASE Stop(Error) /\ UNCHANGED budget
  BY <1>2, UnpaidKeeps DEF Stop
<1>3. CASE \E name \in RawNames, storedOffset \in Numbers, extent \in Numbers, mode \in Modes :
             LET paid == Charged(Charged(budget, name.stored), name.logical)
             IN /\ Fits(paid) /\ budget' = paid
                /\ entries' = Append(entries, [body |-> Extent(CheckedAdd(base, storedOffset), extent),
                                               logical |-> extent, mode |-> mode,
                                               names |-> name.stored + name.logical])
                /\ mode # "unknown"
  <2>1. PICK name \in RawNames, storedOffset \in Numbers, extent \in Numbers, mode \in Modes :
             LET paid == Charged(Charged(budget, name.stored), name.logical)
             IN /\ Fits(paid) /\ budget' = paid
                /\ entries' = Append(entries, [body |-> Extent(CheckedAdd(base, storedOffset), extent),
                                               logical |-> extent, mode |-> mode,
                                               names |-> name.stored + name.logical])
                /\ mode # "unknown"
    BY <1>3
  <2>2. PICK e : e = [body |-> Extent(CheckedAdd(base, storedOffset), extent), logical |-> extent, mode |-> mode,
                      names |-> name.stored + name.logical]
    OBVIOUS
  <2>3. /\ storedOffset \in Nat /\ extent \in Nat /\ name.stored \in Nat /\ name.logical \in Nat /\ base \in Nat
        /\ budget \in Nat /\ Cost(count) \in Nat /\ count \in Nat
    <3>1. storedOffset \in Nat /\ extent \in Nat /\ name.stored \in Nat /\ name.logical \in Nat
      BY DirectoryAssumption
    <3>2. base \in Nat /\ budget \in Nat /\ count \in Nat
      BY DEF DirectoryInv, TypeOK, BudgetInv
    <3>. QED BY <3>1, <3>2, CostIsNat
  <2>a. CheckedAdd(base, storedOffset) \in Nat
    BY <2>3, SumsAreExact
  <2>b. Extent(CheckedAdd(base, storedOffset), extent) \in Extents
    BY <2>3, <2>a DEF Extents, Extent
  <2>4. e \in EntryType /\ e.names = name.stored + name.logical
    BY <2>1, <2>2, <2>3, <2>b DEF EntryType, Modes
  <2>5. Held(entries') = Held(entries) + e.names
    BY <1>1, <2>1, <2>2, <2>4, HeldGrows
  <2>6. PICK once, twice : once = Charged(budget, name.stored) /\ twice = Charged(once, name.logical)
                           /\ Fits(twice) /\ budget' = twice
    BY <2>1
  <2>7. once \in Nat /\ Fits(once)
    <3>1. PICK total : total = CheckedAdd(budget, name.stored) /\ total \in Nat
      BY <2>3, SumsAreExact
    <3>2. once = IF total > MaxIndexBytes THEN Word ELSE total
      BY <2>6, <3>1 DEF Charged
    <3>3. Word \in Nat /\ MaxIndexBytes \in Nat /\ MaxIndexBytes < Word
      BY DirectoryAssumption
    <3>4. once \in Nat
      BY <3>1, <3>2, <3>3
    <3>5. ASSUME once = Word PROVE FALSE
      <4>1. CheckedAdd(Word, name.logical) = Word
        BY <2>3, <3>3 DEF CheckedAdd
      <4>2. twice = Word
        BY <2>6, <3>3, <3>5, <4>1 DEF Charged
      <4>. QED BY <2>6, <3>3, <4>2 DEF Fits
    <3>. QED BY <3>1, <3>2, <3>3, <3>4, <3>5 DEF Fits
  <2>8. once = budget + name.stored
    BY <2>3, <2>6, <2>7, ChargesAreExact
  <2>9. twice = once + name.logical /\ twice <= MaxIndexBytes /\ twice \in Nat
    BY <2>3, <2>6, <2>7, ChargesAreExact
  <2>10. PICK h, c : h = Held(entries) /\ c = Cost(count) /\ h \in Nat /\ c \in Nat /\ budget >= c + h
    BY <1>1, <2>3, HeldIsNat DEF BudgetInv
  <2>11. twice >= c + (h + (name.stored + name.logical))
    BY <2>3, <2>8, <2>9, <2>10
  <2>. QED BY <1>1, <2>4, <2>5, <2>6, <2>9, <2>10, <2>11 DEF BudgetInv
<1>. QED BY <1>2, <1>3 DEF ReadEntry

\* Opening the envelopes of the entries renames none.
LEMMA MembersArePaid ==
  ASSUME DirectoryInv, BudgetInv, ResolveMember
  PROVE  BudgetInv'
<1>1. pc = "members" /\ UNCHANGED <<count, budget>> /\ entries \in Seq(EntryType)
  BY DEF ResolveMember, DirectoryInv, TypeOK
<1>2. CASE Stop(Error)
  BY <1>1, <1>2, UnpaidKeeps DEF Stop
<1>3. CASE ~Stop(Error)
  <2>1. PICK i \in Unresolved :
          \E envelope : /\ entries' = [entries EXCEPT ![i].body = envelope, ![i].mode = "sealed"]
                        /\ UNCHANGED <<pc, result>>
    BY <1>3 DEF ResolveMember
  <2>2. entries' \in Seq(EntryType)
    BY ResolveMemberKeeps DEF DirectoryInv, TypeOK
  <2>3. Len(entries') = Len(entries) /\ \A k \in 1..Len(entries) : entries'[k].names = entries[k].names
    BY <1>1, <2>1
  <2>4. Held(entries') = Held(entries)
    BY <1>1, <2>2, <2>3, HeldOfSame
  <2>. QED BY <1>1, <2>1, <2>4 DEF BudgetInv
<1>. QED BY <1>2, <1>3

\* Every step keeps the budget ahead of what is held.
LEMMA BudgetKeeps == DirectoryInv /\ BudgetInv /\ [Next]_vars => BudgetInv'
<1>. SUFFICES ASSUME DirectoryInv, BudgetInv, [Next]_vars PROVE BudgetInv'
  OBVIOUS
<1>1. CASE UNCHANGED vars
  BY <1>1 DEF vars, BudgetInv
<1>2. CASE Standalone \/ Section \/ Footer \/ Header
  <2>1. UNCHANGED budget
    BY <1>2 DEF Standalone, Section, Footer, Header, Reading
  <2>2. pc' \notin {"entries", "members"}
    <3>1. CASE Standalone
      BY <3>1 DEF Standalone, Locate
    <3>2. CASE Section
      BY <3>2 DEF Section, Embedded, Locate, Stop
    <3>3. CASE Footer
      BY <3>3 DEF Footer, Locate, Stop
    <3>4. CASE Header
      <4>1. PICK v \in Versions, flagged \in BOOLEAN, relative \in BOOLEAN, unsupported \in BOOLEAN,
                 storedBase \in Numbers, storedDirectory \in Numbers :
              LET start     == pack.offset
                  fileBase  == IF v <= 1 THEN 0
                               ELSE IF v >= 3 \/ relative THEN CheckedAdd(start, storedBase) ELSE storedBase
                  directory == IF v >= 3 THEN CheckedAdd(start, storedDirectory) ELSE start + HeaderBytes(v)
              IN /\ v < 2 => ~flagged /\ ~relative /\ ~unsupported /\ storedBase = 0
                 /\ v < 3 => storedDirectory = 0
                 /\ IF \/ HeaderBytes(v) > pack.size \/ v > 4 \/ unsupported
                       \/ ~Fits(fileBase) \/ ~Fits(directory) \/ directory > PackEnd \/ PackEnd - directory < 4
                    THEN Stop(Error) /\ UNCHANGED <<version, base, secret, cursor, limit>>
                    ELSE /\ version' = v /\ base' = fileBase /\ secret' = flagged
                         /\ cursor' = directory + 4 /\ limit' = PackEnd
                         /\ pc' = IF flagged THEN "secret directory" ELSE "directory"
                         /\ UNCHANGED result
        BY <3>4, Zenon DEF Header
      <4>2. Stop(Error) \/ pc' = IF flagged THEN "secret directory" ELSE "directory"
        BY <4>1
      <4>. QED BY <4>2 DEF Stop
    <3>. QED BY <1>2, <3>1, <3>2, <3>3, <3>4
  <2>. QED BY <2>1, <2>2, UnpaidKeeps
<1>3. CASE EntriesEnd \/ IndexRead
  BY <1>3 DEF EntriesEnd, IndexRead, Stop, BudgetInv
<1>. QED BY <1>1, <1>2, <1>3, WorkspaceIsPaid, EntriesArePaid, NamesArePaid, MembersArePaid DEF Next

(***************************************************************************)
(* BudgetCoversIndex: at every point of the read, what the reader holds or *)
(* has made room for is paid, within the metadata budget, whatever counts  *)
(* and lengths the file announces.                                         *)
(***************************************************************************)
THEOREM BudgetAlwaysCovers == Spec => []BudgetCoversIndex
<1>1. Init => BudgetInv
  BY DEF Init, BudgetInv
<1>2. ASSUME DirectoryInv, BudgetInv PROVE BudgetCoversIndex
  <2>1. DOMAIN entries = 1..Len(entries)
    BY <1>2 DEF DirectoryInv, TypeOK
  <2>. QED BY <1>2, <2>1 DEF BudgetInv, BudgetCoversIndex, Cost, Held, Names
<1>. QED BY <1>1, <1>2, BudgetKeeps, DirectoryInvariance, PTL DEF Spec

-----------------------------------------------------------------------------
(***************************************************************************)
(* PickleVm.  Every value of the machine belongs to a set that holds the   *)
(* children of its members and whose members carry exact depths: an opcode *)
(* adds to it the one value it builds.  The set is what the proof is by    *)
(* induction on, since what a value holds has no bound.                    *)
(***************************************************************************)
\* What a value built by the code looks like: its depth is one more than that
\* of its deepest child, and a value that is no container has no child.
ExactDepth(v) ==
  /\ v = [type |-> v.type, depth |-> v.depth, text |-> v.text, items |-> v.items]
  /\ v.depth \in 0..MaxDepth
  /\ IsContainer(v) => /\ v.depth >= 1
                       /\ \A c \in Children(v) : c.depth + 1 <= v.depth
                       /\ v.depth = 1 \/ \E c \in Children(v) : c.depth + 1 = v.depth
  /\ ~IsContainer(v) => v.depth = 0 /\ Children(v) = {}

FitsIn(U, v) == ExactDepth(v) /\ Children(v) \subseteq U
ClosedUnder(U) == \A v \in U : FitsIn(U, v)
HeldIn(U) == stack \in Seq(U) /\ marks \in Seq(Nat) /\ memo \in [MemoIds -> U] /\ pickled.value \in U
PickleInv == \E U : ClosedUnder(U) /\ HeldIn(U)

LEMMA DepthsAreNumbers == MaxDepth \in Nat /\ 1 \in 1..MaxDepth /\ Scalars \cap {"unset", "list", "tuple", "dict"} = {}
BY PickleAssumption

\* A closed set stays closed with a value whose children it holds.
LEMMA ClosedGrows ==
  ASSUME NEW U, ClosedUnder(U), NEW v, FitsIn(U, v)
  PROVE  ClosedUnder(U \union {v})
<1>. SUFFICES ASSUME NEW u \in U \union {v} PROVE FitsIn(U \union {v}, u)
  BY DEF ClosedUnder
<1>1. FitsIn(U, u)
  BY DEF ClosedUnder
<1>. QED BY <1>1 DEF FitsIn

LEMMA DepthInClosed ==
  ASSUME NEW U, ClosedUnder(U), NEW v \in U
  PROVE  v.depth \in 0..MaxDepth /\ v.depth \in Nat /\ v.depth <= MaxDepth
<1>1. v.depth \in 0..MaxDepth
  BY DEF ClosedUnder, FitsIn, ExactDepth
<1>. QED BY <1>1, DepthsAreNumbers

\* The children of a value that is not a container, and of one.
LEMMA ScalarFits ==
  ASSUME NEW U, NEW type, type \notin {"list", "tuple", "dict"}, NEW text
  PROVE  FitsIn(U, Scalar(type, text))
<1>. DEFINE v == Scalar(type, text)
<1>1. v.type = type /\ v.depth = 0 /\ v.text = text /\ v.items = {}
  BY DEF Scalar
<1>2. v = [type |-> v.type, depth |-> v.depth, text |-> v.text, items |-> v.items]
  BY DEF Scalar
<1>3. Children(v) = {} /\ ~IsContainer(v)
  BY <1>1 DEF Children, IsContainer
<1>4. v.depth \in 0..MaxDepth
  BY <1>1, DepthsAreNumbers
<1>5. FitsIn(U, v)
  <2>. HIDE DEF v
  <2>. QED BY <1>1, <1>2, <1>3, <1>4 DEF FitsIn, ExactDepth
<1>. QED BY <1>5

LEMMA UnsetFits == ASSUME NEW U PROVE FitsIn(U, Unset)
<1>1. Unset = Scalar("unset", "")
  BY DEF Unset, Scalar
<1>. QED BY <1>1, ScalarFits

\* container_depth is the least depth above that of every child.
LEMMA DepthOfItems ==
  ASSUME NEW items, \A item \in items : item.child.depth \in Nat /\ ~TooDeep(item.child)
  PROVE  /\ ContainerDepth(items) \in 1..MaxDepth
         /\ \A item \in items : item.child.depth + 1 <= ContainerDepth(items)
         /\ ContainerDepth(items) = 1 \/ \E item \in items : item.child.depth + 1 = ContainerDepth(items)
<1>. DEFINE S == {1} \union {item.child.depth + 1 : item \in items}
<1>1. S \in SUBSET (1..MaxDepth) /\ S # {}
  <2>1. ASSUME NEW item \in items PROVE item.child.depth + 1 \in 1..MaxDepth
    <3>1. item.child.depth \in Nat /\ ~ (item.child.depth >= MaxDepth) /\ MaxDepth \in Nat
      BY DepthsAreNumbers DEF TooDeep
    <3>. QED BY ONLY <3>1
  <2>. QED BY <2>1, DepthsAreNumbers
<1>2. ContainerDepth(items) = Max(S)
  BY DEF ContainerDepth
<1>3. \A item \in items : item.child.depth + 1 \in S
  OBVIOUS
<1>4. Max(S) \in S /\ \A x \in S : x <= Max(S)
  <2>. HIDE DEF S
  <2>. QED BY <1>1, DepthsAreNumbers, GreatestIndex
<1>5. Max(S) = 1 \/ \E item \in items : item.child.depth + 1 = Max(S)
  BY <1>4
<1>. HIDE DEF S
<1>. QED BY <1>1, <1>2, <1>3, <1>4, <1>5

\* A list, tuple or dictionary of values that may be nested.
LEMMA ContainerFits ==
  ASSUME NEW U, ClosedUnder(U), NEW type \in {"list", "tuple", "dict"}, NEW items,
         \A item \in items : item.child \in U /\ ~TooDeep(item.child)
  PROVE  FitsIn(U, Container(type, items))
<1>. DEFINE v == Container(type, items)
<1>1. v.type = type /\ v.depth = ContainerDepth(items) /\ v.items = items
  BY DEF Container
<1>2. v = [type |-> v.type, depth |-> v.depth, text |-> v.text, items |-> v.items]
  BY DEF Container
<1>3. IsContainer(v)
  BY <1>1 DEF IsContainer
<1>4. Children(v) = {item.child : item \in items}
  BY <1>1 DEF Children
<1>. HIDE DEF v
<1>5. /\ v.depth \in 1..MaxDepth
      /\ \A item \in items : item.child.depth + 1 <= v.depth
      /\ v.depth = 1 \/ \E item \in items : item.child.depth + 1 = v.depth
  BY <1>1, DepthInClosed, DepthOfItems
<1>6. v.depth \in 0..MaxDepth /\ v.depth >= 1
  BY <1>5, DepthsAreNumbers
<1>7. \A c \in Children(v) : c.depth + 1 <= v.depth
  BY <1>4, <1>5
<1>8. v.depth = 1 \/ \E c \in Children(v) : c.depth + 1 = v.depth
  BY <1>4, <1>5
<1>9. Children(v) \subseteq U
  BY <1>4
<1>10. FitsIn(U, v)
  BY <1>2, <1>3, <1>6, <1>7, <1>8, <1>9 DEF FitsIn, ExactDepth
<1>. QED BY <1>10 DEF v

\* The greater of two depths.
LEMMA MaxOfTwo ==
  ASSUME NEW N \in Nat, NEW a \in 1..N, NEW b \in 1..N
  PROVE  Max({a, b}) \in {a, b} /\ a <= Max({a, b}) /\ b <= Max({a, b})
<1>1. {a, b} \in SUBSET (1..N) /\ {a, b} # {}
  OBVIOUS
<1>. QED BY <1>1, GreatestIndex

\* A list to which values are appended.
LEMMA AppendFits ==
  ASSUME NEW U, ClosedUnder(U), NEW target, FitsIn(U, target), target.type = "list", NEW children,
         \A i \in DOMAIN children : children[i] \in U /\ ~TooDeep(children[i])
  PROVE  FitsIn(U, AppendTo(target, children))
<1>. DEFINE new == Unkeyed(children)
            v == AppendTo(target, children)
<1>0. \A item \in new : item.child \in U /\ ~TooDeep(item.child)
  <2>1. ASSUME NEW i \in DOMAIN children
        PROVE  [key |-> "", child |-> children[i]].child \in U /\ ~TooDeep([key |-> "", child |-> children[i]].child)
    OBVIOUS
  <2>. QED BY <2>1 DEF Unkeyed
<1>1. PICK d : d = ContainerDepth(new)
  OBVIOUS
<1>2. PICK n : n = new
  OBVIOUS
<1>3. /\ target = [type |-> target.type, depth |-> target.depth, text |-> target.text, items |-> target.items]
      /\ target.depth \in 0..MaxDepth /\ IsContainer(target)
      /\ Children(target) \subseteq U
  BY DEF FitsIn, ExactDepth, IsContainer
<1>4. /\ target.depth >= 1
      /\ \A c \in Children(target) : c.depth + 1 <= target.depth
      /\ target.depth = 1 \/ \E c \in Children(target) : c.depth + 1 = target.depth
  BY <1>3 DEF FitsIn, ExactDepth
<1>5. PICK e : e = Max({target.depth, d})
  OBVIOUS
<1>6. v = [type |-> target.type, depth |-> e, text |-> target.text, items |-> target.items \union n]
  <2>1. v = [target EXCEPT !.items = @ \union n, !.depth = Max({@, d})]
    BY <1>1, <1>2 DEF AppendTo
  <2>2. target.depth = [target EXCEPT !.items = @ \union n].depth
    BY <1>3
  <2>. QED BY <1>3, <1>5, <2>1
<1>. HIDE DEF v, new
<1>7. /\ d \in 1..MaxDepth
      /\ \A item \in n : item.child.depth + 1 <= d
      /\ d = 1 \/ \E item \in n : item.child.depth + 1 = d
  BY <1>0, <1>1, <1>2, DepthInClosed, DepthOfItems
<1>8. target.depth \in 1..MaxDepth
  BY <1>3, <1>4, DepthsAreNumbers
<1>9. e \in {target.depth, d} /\ target.depth <= e /\ d <= e
  BY <1>5, <1>7, <1>8, DepthsAreNumbers, MaxOfTwo
<1>10. /\ v.type = "list" /\ v.depth = e /\ v.items = target.items \union n
       /\ v = [type |-> v.type, depth |-> v.depth, text |-> v.text, items |-> v.items]
  BY <1>6
<1>11. IsContainer(v) /\ Children(v) = Children(target) \union {item.child : item \in n}
  BY <1>10 DEF IsContainer, Children
<1>12. e \in 0..MaxDepth /\ e >= 1
  BY <1>7, <1>8, <1>9, DepthsAreNumbers
<1>13. \A c \in Children(target) : c.depth \in Nat
  BY <1>3, DepthInClosed
<1>14. \A item \in n : item.child.depth \in Nat
  BY <1>0, <1>2, DepthInClosed
<1>15. ASSUME NEW c \in Children(v) PROVE c.depth + 1 <= e
  <2>1. CASE c \in Children(target)
    <3>1. c.depth \in Nat /\ c.depth + 1 <= target.depth /\ target.depth <= e
      BY <2>1, <1>4, <1>9, <1>13
    <3>2. target.depth \in Nat /\ e \in Nat
      BY <1>8, <1>12, DepthsAreNumbers
    <3>. QED BY ONLY <3>1, <3>2
  <2>2. CASE c \notin Children(target)
    <3>1. PICK item \in n : c = item.child
      BY <2>2, <1>11
    <3>2. c.depth \in Nat /\ c.depth + 1 <= d /\ d <= e
      BY <3>1, <1>7, <1>9, <1>14
    <3>3. d \in Nat /\ e \in Nat
      BY <1>7, <1>12, DepthsAreNumbers
    <3>. QED BY ONLY <3>2, <3>3
  <2>. QED BY <2>1, <2>2
<1>16. e = 1 \/ \E c \in Children(v) : c.depth + 1 = e
  <2>1. CASE e = target.depth
    BY <2>1, <1>4, <1>11
  <2>2. CASE e = d
    BY <2>2, <1>7, <1>11
  <2>. QED BY <2>1, <2>2, <1>9
<1>17. Children(v) \subseteq U
  BY <1>0, <1>2, <1>3, <1>11
<1>18. FitsIn(U, v)
  BY <1>10, <1>11, <1>12, <1>15, <1>16, <1>17 DEF FitsIn, ExactDepth
<1>. QED BY <1>18 DEF v

\* A dictionary of which one key is set.
LEMMA SetFits ==
  ASSUME NEW U, ClosedUnder(U), NEW target, FitsIn(U, target), target.type = "dict",
         NEW name, NEW child \in U, ~TooDeep(child)
  PROVE  FitsIn(U, Set(target, name, child)) /\ Set(target, name, child).type = "dict"
<1>1. PICK n : n = Assign(target.items, name, child)
  OBVIOUS
<1>. DEFINE recompute == /\ child.depth + 1 < target.depth
                        /\ \E item \in target.items : item.key = name /\ item.child.depth + 1 = target.depth
<1>2. PICK e : e = IF recompute THEN ContainerDepth(n) ELSE Max({target.depth, child.depth + 1})
  OBVIOUS
<1>3. /\ target = [type |-> target.type, depth |-> target.depth, text |-> target.text, items |-> target.items]
      /\ target.depth \in 0..MaxDepth /\ IsContainer(target)
      /\ Children(target) \subseteq U
  BY DEF FitsIn, ExactDepth, IsContainer
<1>4. /\ target.depth >= 1
      /\ \A c \in Children(target) : c.depth + 1 <= target.depth
      /\ target.depth = 1 \/ \E c \in Children(target) : c.depth + 1 = target.depth
  BY <1>3 DEF FitsIn, ExactDepth
<1>5. PICK v : v = Set(target, name, child)
  OBVIOUS
<1>6. v = [type |-> "dict", depth |-> e, text |-> target.text, items |-> n]
  <2>1. v = [target EXCEPT !.items = n,
                           !.depth = IF recompute THEN ContainerDepth(n) ELSE Max({@, child.depth + 1})]
    BY <1>1, <1>5 DEF Set
  <2>2. target.depth = [target EXCEPT !.items = n].depth
    BY <1>3
  <2>3. v = [target EXCEPT !.items = n, !.depth = e]
    <3>. HIDE DEF recompute
    <3>. QED BY <1>2, <2>1, <2>2
  <2>. QED BY <1>3, <2>3
<1>7. target.depth \in 1..MaxDepth
  BY <1>3, <1>4, DepthsAreNumbers
<1>8. child.depth \in Nat /\ child.depth + 1 \in 1..MaxDepth
  <2>1. child.depth \in Nat /\ MaxDepth \in Nat
    BY DepthInClosed, DepthsAreNumbers
  <2>2. ~ (child.depth >= MaxDepth)
    BY DEF TooDeep
  <2>. QED BY ONLY <2>1, <2>2
<1>9. n = {item \in target.items : item.key # name} \union {[key |-> name, child |-> child]}
  BY <1>1 DEF Assign
<1>10. ASSUME NEW item \in n
       PROVE  /\ item.child \in U /\ item.child.depth \in Nat
              /\ item.child = child \/ item.child \in Children(target)
  <2>1. CASE item = [key |-> name, child |-> child]
    BY <2>1, <1>8
  <2>2. CASE item \in target.items
    <3>1. item.child \in Children(target)
      BY <2>2 DEF Children
    <3>2. item.child \in U
      BY <3>1, <1>3
    <3>. QED BY <2>2, <3>1, <3>2, DepthInClosed
  <2>. QED BY <1>9, <2>1, <2>2
<1>11. /\ v.type = "dict" /\ v.depth = e /\ v.items = n
       /\ v = [type |-> v.type, depth |-> v.depth, text |-> v.text, items |-> v.items]
       /\ IsContainer(v) /\ Children(v) = {item.child : item \in n}
  BY <1>6 DEF IsContainer, Children
<1>12. PICK new \in n : new.child = child
  <2>1. [key |-> name, child |-> child] \in n
    BY <1>9
  <2>2. [key |-> name, child |-> child].child = child
    OBVIOUS
  <2>. QED BY <2>1, <2>2
<1>13. /\ e \in 1..MaxDepth
       /\ \A item \in n : item.child.depth + 1 <= e
       /\ e = 1 \/ \E item \in n : item.child.depth + 1 = e
  <2>1. CASE recompute
    <3>1. e = ContainerDepth(n)
      BY <2>1, <1>2
    <3>2. ASSUME NEW item \in n PROVE item.child.depth \in Nat /\ ~TooDeep(item.child)
      <4>1. item.child.depth \in Nat
        BY <1>10
      <4>2. CASE item.child = child
        BY <4>1, <4>2
      <4>3. CASE item.child \in Children(target)
        <5>1. item.child.depth + 1 <= target.depth /\ target.depth <= MaxDepth
          BY <4>3, <1>4, <1>7, DepthsAreNumbers
        <5>2. target.depth \in Nat /\ MaxDepth \in Nat
          BY <1>7, DepthsAreNumbers
        <5>3. ~ (item.child.depth >= MaxDepth)
          BY ONLY <4>1, <5>1, <5>2
        <5>. QED BY <4>1, <5>3 DEF TooDeep
      <4>. QED BY <1>10, <4>2, <4>3
    <3>. HIDE DEF recompute
    <3>. QED BY <3>1, <3>2, DepthOfItems
  <2>2. CASE ~recompute
    <3>1. e = Max({target.depth, child.depth + 1})
      BY <2>2, <1>2
    <3>2. e \in {target.depth, child.depth + 1} /\ target.depth <= e /\ child.depth + 1 <= e
      BY <3>1, <1>7, <1>8, DepthsAreNumbers, MaxOfTwo
    <3>3. e \in 1..MaxDepth
      BY <3>2, <1>7, <1>8
    <3>4. ASSUME NEW item \in n PROVE item.child.depth + 1 <= e
      <4>1. CASE item.child = child
        BY <4>1, <3>2
      <4>2. CASE item.child \in Children(target)
        <5>1. item.child.depth \in Nat /\ item.child.depth + 1 <= target.depth /\ target.depth <= e
          BY <4>2, <1>4, <1>10, <3>2
        <5>2. target.depth \in Nat /\ e \in Nat
          BY <1>7, <3>3, DepthsAreNumbers
        <5>. QED BY ONLY <5>1, <5>2
      <4>. QED BY <1>10, <4>1, <4>2
    <3>5. CASE e = child.depth + 1
      BY <3>5, <3>3, <3>4, <1>12
    <3>6. CASE e # child.depth + 1
      <4>1. e = target.depth /\ child.depth + 1 < target.depth
        <5>1. e = target.depth /\ child.depth + 1 <= e
          BY <3>6, <3>2
        <5>2. e \in Nat
          BY <3>3, DepthsAreNumbers
        <5>. QED BY ONLY <5>1, <5>2, <3>6, <1>8
      <4>2. ~ \E item \in target.items : item.key = name /\ item.child.depth + 1 = target.depth
        BY <4>1, <2>2
      <4>3. ASSUME NEW c \in Children(target), c.depth + 1 = target.depth
            PROVE  \E item \in n : item.child.depth + 1 = e
        <5>1. PICK item \in target.items : item.child = c
          BY DEF Children
        <5>2. item.key # name
          BY <4>2, <4>3, <5>1
        <5>3. item \in n
          BY <5>2, <1>9
        <5>. QED BY <5>1, <5>3, <4>1, <4>3
      <4>. QED BY <4>1, <4>3, <3>3, <3>4, <1>4
    <3>. QED BY <3>5, <3>6
  <2>. QED BY <2>1, <2>2
<1>14. e \in 0..MaxDepth /\ e >= 1
  BY <1>13, DepthsAreNumbers
<1>15. Children(v) \subseteq U
  BY <1>10, <1>11
<1>16. (\A c \in Children(v) : c.depth + 1 <= e) /\ (e = 1 \/ \E c \in Children(v) : c.depth + 1 = e)
  BY <1>11, <1>13
<1>17. FitsIn(U, v)
  <2>. HIDE DEF recompute
  <2>. QED BY <1>11, <1>14, <1>15, <1>16 DEF FitsIn, ExactDepth
<1>. QED BY <1>5, <1>11, <1>17

-----------------------------------------------------------------------------
(***************************************************************************)
(* SETITEMS sets its pairs one by one: the dictionary after each of them.  *)
(***************************************************************************)
PairStep(h, target, items, n) ==
  IF n = 0 THEN target
  ELSE IF n % 2 = 1 THEN h[n - 1] ELSE Set(h[n - 1], items[n - 1].text, items[n])
PairsSet(h, target, items) == h = [n \in 0..Len(items) |-> PairStep(h, target, items, n)]

LEMMA PairsAreChosen ==
  ASSUME NEW target, NEW items
  PROVE  SetPairs(target, items) = (CHOOSE h : PairsSet(h, target, items))[Len(items)]
BY DEF SetPairs, PairsSet, PairStep

\* There is such a sequence of dictionaries, of every length.
LEMMA PairsExist ==
  ASSUME NEW target, NEW items, Len(items) \in Nat
  PROVE  \E h : PairsSet(h, target, items)
<1>. DEFINE UpTo(h, k) == \A n \in 0..k : h[n] = PairStep(h, target, items, n)
            Bad == {k \in Nat : ~ \E h : UpTo(h, k)}
<1>1. Bad = {}
  <2>. SUFFICES ASSUME Bad # {} PROVE FALSE
    OBVIOUS
  <2>1. PICK k \in Bad : \A m \in Bad : k <= m
    <3>1. Bad \in SUBSET Nat
      OBVIOUS
    <3>. HIDE DEF Bad
    <3>. QED BY <3>1, LeastElement
  <2>2. k \in Nat /\ ~ \E h : UpTo(h, k)
    OBVIOUS
  <2>3. CASE k = 0
    <3>. DEFINE h == [n \in 0..0 |-> target]
    <3>1. ASSUME NEW n \in 0..0 PROVE h[n] = PairStep(h, target, items, n)
      BY DEF PairStep
    <3>. QED BY <3>1, <2>2, <2>3
  <2>4. CASE k # 0
    <3>1. k - 1 \in Nat /\ k - 1 \notin Bad
      <4>1. k - 1 \in Nat /\ ~ (k <= k - 1)
        BY <2>2, <2>4
      <4>. HIDE DEF Bad
      <4>. QED BY <4>1, <2>1
    <3>2. PICK h : UpTo(h, k - 1)
      BY <3>1
    <3>. DEFINE g == [n \in 0..k |-> PairStep(h, target, items, n)]
    <3>3. ASSUME NEW n \in 0..k PROVE g[n] = PairStep(g, target, items, n)
      <4>1. g[n] = PairStep(h, target, items, n)
        OBVIOUS
      <4>2. CASE n = 0
        BY <4>1, <4>2 DEF PairStep
      <4>3. CASE n # 0
        <5>1. n - 1 \in 0..k /\ n - 1 \in 0..(k - 1)
          BY <2>2, <4>3
        <5>2. g[n - 1] = PairStep(h, target, items, n - 1) /\ h[n - 1] = PairStep(h, target, items, n - 1)
          BY <5>1, <3>2
        <5>3. g[n - 1] = h[n - 1]
          BY <5>2
        <5>. HIDE DEF g
        <5>. QED BY <4>1, <4>3, <5>3 DEF PairStep
      <4>. QED BY <4>2, <4>3
    <3>4. UpTo(g, k)
      BY <3>3
    <3>. QED BY <3>4, <2>2
  <2>. QED BY <2>3, <2>4
<1>2. Len(items) \notin Bad
  BY <1>1
<1>3. PICK h : UpTo(h, Len(items))
  BY <1>2
<1>. DEFINE g == [n \in 0..Len(items) |-> PairStep(h, target, items, n)]
<1>4. ASSUME NEW n \in 0..Len(items) PROVE PairStep(g, target, items, n) = PairStep(h, target, items, n)
  <2>1. CASE n = 0
    BY <2>1 DEF PairStep
  <2>2. CASE n # 0
    <3>1. n - 1 \in 0..Len(items)
      BY <2>2
    <3>2. g[n - 1] = PairStep(h, target, items, n - 1) /\ h[n - 1] = PairStep(h, target, items, n - 1)
      BY <3>1, <1>3
    <3>3. g[n - 1] = h[n - 1]
      BY <3>2
    <3>. HIDE DEF g
    <3>. QED BY <2>2, <3>3 DEF PairStep
  <2>. QED BY <2>1, <2>2
<1>5. g = [n \in 0..Len(items) |-> PairStep(g, target, items, n)]
  BY <1>4
<1>. QED BY <1>5 DEF PairsSet

\* An even number is no odd one, and the number before it is.
LEMMA EvenOrOdd ==
  ASSUME NEW n \in Nat
  PROVE  n % 2 = 1 \/ n % 2 = 0
OBVIOUS

\* Every pair of a checked sequence leaves a dictionary.
LEMMA SetPairsFits ==
  ASSUME NEW U, ClosedUnder(U), NEW target, FitsIn(U, target), target.type = "dict",
         NEW items \in Seq(U), \A i \in ValueAt(items) : ~TooDeep(items[i])
  PROVE  FitsIn(U, SetPairs(target, items))
<1>. DEFINE N == Len(items)
<1>0. N \in Nat /\ DOMAIN items = 1..N
  BY LenProperties
<1>1. PICK h : PairsSet(h, target, items) /\ h = CHOOSE g : PairsSet(g, target, items)
  BY <1>0, PairsExist
<1>2. SetPairs(target, items) = h[N]
  BY <1>1, PairsAreChosen
<1>3. ASSUME NEW n \in 0..N PROVE h[n] = PairStep(h, target, items, n)
  BY <1>1 DEF PairsSet
<1>. DEFINE Good(n) == FitsIn(U, h[n]) /\ h[n].type = "dict"
            Bad == {n \in 0..N : ~Good(n)}
<1>4. Bad = {}
  <2>. SUFFICES ASSUME Bad # {} PROVE FALSE
    OBVIOUS
  <2>1. PICK n \in Bad : \A m \in Bad : n <= m
    <3>1. Bad \in SUBSET Nat
      BY <1>0
    <3>. HIDE DEF Bad
    <3>. QED BY <3>1, LeastElement
  <2>2. n \in 0..N /\ n \in Nat /\ ~Good(n)
    BY <1>0
  <2>3. n # 0
    <3>1. h[0] = target
      BY <1>0, <1>3 DEF PairStep
    <3>. QED BY <3>1, <2>2
  <2>4. n - 1 \in 0..N /\ n \in 1..N /\ ~ (n <= n - 1)
    BY <1>0, <2>2, <2>3
  <2>5. Good(n - 1)
    BY <2>1, <2>4
  <2>6. h[n] = IF n % 2 = 1 THEN h[n - 1] ELSE Set(h[n - 1], items[n - 1].text, items[n])
    BY <1>3, <2>2, <2>3 DEF PairStep
  <2>7. CASE n % 2 = 1
    <3>1. h[n] = h[n - 1]
      BY <2>6, <2>7
    <3>. QED BY <3>1, <2>2, <2>5
  <2>8. CASE n % 2 = 0
    <3>1. h[n] = Set(h[n - 1], items[n - 1].text, items[n])
      BY <2>6, <2>8
    <3>2. n \in ValueAt(items)
      BY <1>0, <2>4, <2>8 DEF ValueAt
    <3>3. items[n] \in U
      BY <1>0, <2>4, ElementOfSeq
    <3>4. ~TooDeep(items[n])
      BY <3>2
    <3>5. FitsIn(U, h[n - 1]) /\ h[n - 1].type = "dict"
      BY <2>5
    <3>6. PICK a, b, c : a = h[n - 1] /\ b = items[n - 1].text /\ c = items[n]
      OBVIOUS
    <3>7. FitsIn(U, Set(a, b, c)) /\ Set(a, b, c).type = "dict"
      BY <3>3, <3>4, <3>5, <3>6, SetFits
    <3>. QED BY <3>1, <3>6, <3>7, <2>2
  <2>. QED BY <2>2, <2>7, <2>8, EvenOrOdd
<1>5. N \in 0..N
  BY <1>0
<1>6. Good(N)
  BY <1>4, <1>5
<1>. QED BY <1>2, <1>6

-----------------------------------------------------------------------------
(***************************************************************************)
(* The levels of a value.                                                  *)
(***************************************************************************)
LevelStep(h, v, n) == IF n = 0 THEN {v} ELSE UNION {Children(u) : u \in h[n - 1]}
LevelsOf(h, v) == h = [n \in 0..MaxDepth |-> LevelStep(h, v, n)]

LEMMA LevelsAreChosen ==
  ASSUME NEW v
  PROVE  Descendants(v) = CHOOSE h : LevelsOf(h, v)
BY DEF Descendants, LevelsOf, LevelStep

\* There is such a sequence of levels.
LEMMA LevelsExist ==
  ASSUME NEW v
  PROVE  \E h : LevelsOf(h, v)
<1>. DEFINE UpTo(h, k) == \A n \in 0..k : h[n] = LevelStep(h, v, n)
            Bad == {k \in Nat : ~ \E h : UpTo(h, k)}
<1>0. MaxDepth \in Nat
  BY DepthsAreNumbers
<1>1. Bad = {}
  <2>. SUFFICES ASSUME Bad # {} PROVE FALSE
    OBVIOUS
  <2>1. PICK k \in Bad : \A m \in Bad : k <= m
    <3>1. Bad \in SUBSET Nat
      OBVIOUS
    <3>. HIDE DEF Bad
    <3>. QED BY <3>1, LeastElement
  <2>2. k \in Nat /\ ~ \E h : UpTo(h, k)
    OBVIOUS
  <2>3. CASE k = 0
    <3>. DEFINE h == [n \in 0..0 |-> {v}]
    <3>1. ASSUME NEW n \in 0..0 PROVE h[n] = LevelStep(h, v, n)
      BY DEF LevelStep
    <3>. QED BY <3>1, <2>2, <2>3
  <2>4. CASE k # 0
    <3>1. k - 1 \in Nat /\ k - 1 \notin Bad
      <4>1. k - 1 \in Nat /\ ~ (k <= k - 1)
        BY <2>2, <2>4
      <4>. HIDE DEF Bad
      <4>. QED BY <4>1, <2>1
    <3>2. PICK h : UpTo(h, k - 1)
      BY <3>1
    <3>. DEFINE g == [n \in 0..k |-> LevelStep(h, v, n)]
    <3>3. ASSUME NEW n \in 0..k PROVE g[n] = LevelStep(g, v, n)
      <4>1. g[n] = LevelStep(h, v, n)
        OBVIOUS
      <4>2. CASE n = 0
        BY <4>1, <4>2 DEF LevelStep
      <4>3. CASE n # 0
        <5>1. n - 1 \in 0..k /\ n - 1 \in 0..(k - 1)
          BY <2>2, <4>3
        <5>2. g[n - 1] = LevelStep(h, v, n - 1) /\ h[n - 1] = LevelStep(h, v, n - 1)
          BY <5>1, <3>2
        <5>3. g[n - 1] = h[n - 1]
          BY <5>2
        <5>. HIDE DEF g
        <5>. QED BY <4>1, <4>3, <5>3 DEF LevelStep
      <4>. QED BY <4>2, <4>3
    <3>4. UpTo(g, k)
      BY <3>3
    <3>. QED BY <3>4, <2>2
  <2>. QED BY <2>3, <2>4
<1>2. MaxDepth \notin Bad
  BY <1>0, <1>1
<1>3. PICK h : UpTo(h, MaxDepth)
  BY <1>0, <1>2
<1>. DEFINE g == [n \in 0..MaxDepth |-> LevelStep(h, v, n)]
<1>4. ASSUME NEW n \in 0..MaxDepth PROVE LevelStep(g, v, n) = LevelStep(h, v, n)
  <2>1. CASE n = 0
    BY <2>1 DEF LevelStep
  <2>2. CASE n # 0
    <3>1. n - 1 \in 0..MaxDepth
      BY <1>0, <2>2
    <3>2. g[n - 1] = LevelStep(h, v, n - 1) /\ h[n - 1] = LevelStep(h, v, n - 1)
      BY <3>1, <1>3
    <3>3. g[n - 1] = h[n - 1]
      BY <3>2
    <3>. HIDE DEF g
    <3>. QED BY <2>2, <3>3 DEF LevelStep
  <2>. QED BY <2>1, <2>2
<1>5. g = [n \in 0..MaxDepth |-> LevelStep(g, v, n)]
  BY <1>4
<1>. QED BY <1>5 DEF LevelsOf

\* The first level is the value, and the next one the children of the last.
LEMMA LevelByLevel ==
  ASSUME NEW v, NEW n \in 0..MaxDepth
  PROVE  /\ n = 0 => Descendants(v)[n] = {v}
         /\ n # 0 => Descendants(v)[n] = UNION {Children(u) : u \in Descendants(v)[n - 1]}
<1>1. PICK h : h = Descendants(v)
  OBVIOUS
<1>2. LevelsOf(h, v)
  BY <1>1, LevelsAreChosen, LevelsExist
<1>3. h[n] = LevelStep(h, v, n)
  BY <1>2 DEF LevelsOf
<1>. QED BY <1>1, <1>3 DEF LevelStep

\* Each level of an exact value is one less deep, down to the last container.
LEMMA LevelsOfDepth ==
  ASSUME NEW U, ClosedUnder(U), NEW v \in U, NEW n \in 0..MaxDepth
  PROVE  /\ Descendants(v)[n] \subseteq U
         /\ \A u \in Descendants(v)[n] : u.depth + n <= v.depth
         /\ n < v.depth => \E u \in Descendants(v)[n] : u.depth + n = v.depth
<1>. DEFINE h == Descendants(v)
            Good(m) == /\ h[m] \subseteq U
                       /\ \A u \in h[m] : u.depth + m <= v.depth
                       /\ m < v.depth => \E u \in h[m] : u.depth + m = v.depth
            Bad == {m \in 0..MaxDepth : ~Good(m)}
<1>0. MaxDepth \in Nat /\ v.depth \in Nat
  BY DepthsAreNumbers, DepthInClosed
<1>1. \A m \in 0..MaxDepth :
        /\ m = 0 => h[m] = {v}
        /\ m # 0 => h[m] = UNION {Children(u) : u \in h[m - 1]}
  BY LevelByLevel
<1>. HIDE DEF h
<1>2. Bad = {}
  <2>. SUFFICES ASSUME Bad # {} PROVE FALSE
    OBVIOUS
  <2>1. PICK m \in Bad : \A k \in Bad : m <= k
    <3>1. Bad \in SUBSET Nat
      BY <1>0
    <3>. HIDE DEF Bad
    <3>. QED BY <3>1, LeastElement
  <2>2. m \in 0..MaxDepth /\ m \in Nat /\ ~Good(m)
    BY <1>0
  <2>3. m # 0
    <3>1. SUFFICES ASSUME m = 0 PROVE FALSE
      OBVIOUS
    <3>2. h[m] = {v}
      BY <1>1, <2>2, <3>1
    <3>3. h[m] \subseteq U
      BY <3>2
    <3>4. v.depth + m = v.depth
      BY <1>0, <3>1
    <3>5. \A u \in h[m] : u.depth + m <= v.depth
      BY <3>2, <3>4, <1>0
    <3>6. \E u \in h[m] : u.depth + m = v.depth
      BY <3>2, <3>4
    <3>. QED BY <3>3, <3>5, <3>6, <2>2
  <2>4. m - 1 \in 0..MaxDepth /\ ~ (m <= m - 1)
    BY <1>0, <2>2, <2>3
  <2>5. Good(m - 1)
    BY <2>1, <2>4
  <2>6. h[m] = UNION {Children(u) : u \in h[m - 1]}
    BY <1>1, <2>2, <2>3
  <2>7. ASSUME NEW u \in h[m]
        PROVE  u \in U /\ u.depth + m <= v.depth
    <3>1. PICK w \in h[m - 1] : u \in Children(w)
      BY <2>6
    <3>2. w \in U /\ w.depth + (m - 1) <= v.depth
      BY <2>5
    <3>3. FitsIn(U, w)
      BY <3>2 DEF ClosedUnder
    <3>4. u \in U /\ u.depth + 1 <= w.depth
      BY <3>1, <3>3 DEF FitsIn, ExactDepth
    <3>5. u.depth \in Nat /\ w.depth \in Nat
      BY <3>2, <3>4, DepthInClosed
    <3>6. u.depth + m <= v.depth
      BY ONLY <1>0, <2>2, <3>2, <3>4, <3>5
    <3>. QED BY <3>4, <3>6
  <2>8. ASSUME m < v.depth
        PROVE  \E u \in h[m] : u.depth + m = v.depth
    <3>1. m - 1 < v.depth
      BY <1>0, <2>2, <2>8
    <3>2. PICK w \in h[m - 1] : w.depth + (m - 1) = v.depth
      BY <2>5, <3>1
    <3>3. w \in U
      BY <2>5
    <3>4. FitsIn(U, w) /\ w.depth \in Nat
      BY <3>3, DepthInClosed DEF ClosedUnder
    <3>5. w.depth # 0 /\ w.depth # 1
      BY ONLY <1>0, <2>2, <2>8, <3>2, <3>4
    <3>6. PICK u \in Children(w) : u.depth + 1 = w.depth
      BY <3>4, <3>5 DEF FitsIn, ExactDepth
    <3>7. u \in U /\ u \in h[m]
      BY <3>4, <3>6, <2>6 DEF FitsIn
    <3>8. u.depth \in Nat
      BY <3>7, DepthInClosed
    <3>9. u.depth + m = v.depth
      BY ONLY <1>0, <2>2, <3>2, <3>4, <3>6, <3>8
    <3>. QED BY <3>7, <3>9
  <2>. QED BY <2>2, <2>7, <2>8
<1>3. Good(n)
  BY <1>2
<1>. QED BY <1>3 DEF h

\* The depth a value of a closed set carries is the number of its levels that
\* hold a container.
LEMMA NestingIsDepth ==
  ASSUME NEW U, ClosedUnder(U), NEW v \in U
  PROVE  v.depth = Nesting(v) /\ v.depth <= MaxDepth
<1>. DEFINE Full == {n \in 0..MaxDepth : \E u \in Descendants(v)[n] : IsContainer(u)}
<1>1. MaxDepth \in Nat /\ v.depth \in Nat /\ v.depth <= MaxDepth
  BY DepthsAreNumbers, DepthInClosed
<1>2. ASSUME NEW n \in 0..MaxDepth, NEW u \in Descendants(v)[n], IsContainer(u)
      PROVE  n < v.depth
  <2>1. u \in U /\ u.depth + n <= v.depth
    BY LevelsOfDepth
  <2>2. u.depth >= 1 /\ u.depth \in Nat
    BY <1>2, <2>1, DepthInClosed DEF ClosedUnder, FitsIn, ExactDepth
  <2>. QED BY <1>1, <2>1, <2>2
<1>3. ASSUME NEW n \in 0..MaxDepth, n < v.depth
      PROVE  \E u \in Descendants(v)[n] : IsContainer(u)
  <2>1. PICK u \in Descendants(v)[n] : u.depth + n = v.depth
    BY <1>3, LevelsOfDepth
  <2>2. u \in U
    BY LevelsOfDepth
  <2>3. FitsIn(U, u) /\ u.depth \in Nat
    BY <2>2, DepthInClosed DEF ClosedUnder
  <2>4. u.depth # 0
    <3>1. n \in Nat
      BY <1>1
    <3>. QED BY ONLY <3>1, <1>1, <1>3, <2>1, <2>3
  <2>5. IsContainer(u)
    BY <2>3, <2>4 DEF FitsIn, ExactDepth
  <2>. QED BY <2>5
<1>4. Full = 0..(v.depth - 1)
  <2>1. \A n \in Full : n \in 0..(v.depth - 1)
    BY <1>1, <1>2
  <2>2. ASSUME NEW n \in 0..(v.depth - 1) PROVE n \in Full
    <3>1. n \in 0..MaxDepth /\ n < v.depth
      BY <1>1
    <3>. QED BY <3>1, <1>3
  <2>. HIDE DEF Full
  <2>. QED BY <2>1, <2>2
<1>5. 0 \in Int /\ v.depth - 1 \in Int /\ Cardinality(0..(v.depth - 1)) = v.depth
  <2>1. 0 \in Int /\ v.depth - 1 \in Int
    BY <1>1
  <2>2. Cardinality(0..(v.depth - 1)) = IF 0 > v.depth - 1 THEN 0 ELSE (v.depth - 1) - 0 + 1
    BY <2>1, FS_Interval
  <2>. QED BY <2>1, <2>2, <1>1
<1>. QED BY <1>1, <1>4, <1>5 DEF Nesting

-----------------------------------------------------------------------------
(***************************************************************************)
(* The opcodes.  Each pushes a value whose children some closed set holds. *)
(***************************************************************************)

\* The start, and the stretches of the stack the opcodes cut.
LEMMA InitIsHeld == PickleInit => PickleInv
<1>. SUFFICES ASSUME PickleInit PROVE PickleInv
  OBVIOUS
<1>1. ClosedUnder({Unset})
  BY UnsetFits DEF ClosedUnder
<1>2. <<>> \in Seq({Unset}) /\ <<>> \in Seq(Nat)
  OBVIOUS
<1>3. HeldIn({Unset})
  BY <1>2 DEF PickleInit, HeldIn
<1>. QED BY <1>1, <1>3 DEF PickleInv

\* A prefix of a sequence, and its end.
LEMMA PrefixIsTyped ==
  ASSUME NEW S, NEW s \in Seq(S), NEW n \in 0..Len(s)
  PROVE  SubSeq(s, 1, n) \in Seq(S) /\ Len(SubSeq(s, 1, n)) = n
<1>1. Len(s) \in Nat
  BY LenProperties
<1>2. \A i \in 1..n : s[i] \in S
  BY <1>1, ElementOfSeq
<1>3. n \in Int /\ 1 \in Int
  BY <1>1
<1>4. /\ SubSeq(s, 1, n) \in Seq(S)
      /\ Len(SubSeq(s, 1, n)) = IF 1 <= n THEN n - 1 + 1 ELSE 0
  BY <1>2, <1>3, SubSeqProperties
<1>. QED BY <1>1, <1>4

LEMMA SuffixIsTyped ==
  ASSUME NEW S, NEW s \in Seq(S), NEW n \in 0..Len(s)
  PROVE  SubSeq(s, n + 1, Len(s)) \in Seq(S)
<1>1. Len(s) \in Nat
  BY LenProperties
<1>2. \A i \in (n + 1)..Len(s) : s[i] \in S
  BY <1>1, ElementOfSeq
<1>3. n + 1 \in Int /\ Len(s) \in Int
  BY <1>1
<1>. QED BY <1>2, <1>3, SubSeqProperties

LEMMA LastIsTyped ==
  ASSUME NEW S, NEW s \in Seq(S), s # <<>>
  PROVE  Last(s) \in S /\ Front(s) \in Seq(S) /\ Len(s) \in Nat /\ Len(s) >= 1
<1>1. Len(s) \in Nat /\ Len(s) >= 1
  BY EmptySeq
<1>2. Len(s) \in 1..Len(s) /\ Len(s) - 1 \in 0..Len(s)
  BY <1>1
<1>3. Last(s) \in S
  BY <1>2, ElementOfSeq DEF Last
<1>4. Front(s) \in Seq(S)
  BY <1>2, PrefixIsTyped DEF Front
<1>. QED BY <1>1, <1>3, <1>4

\* What is left when n values are taken off the stack.
LEMMA BelowIsHeld ==
  ASSUME NEW U, HeldIn(U), NEW n \in Nat, Len(stack) >= n
  PROVE  Below(n) \in Seq(U) /\ Len(Below(n)) = Len(stack) - n
<1>1. stack \in Seq(U) /\ Len(stack) \in Nat
  BY LenProperties DEF HeldIn
<1>2. Len(stack) - n \in 0..Len(stack)
  BY <1>1
<1>. QED BY <1>1, <1>2, PrefixIsTyped DEF Below

\* The value under the n topmost ones.
LEMMA LastBelow ==
  ASSUME NEW U, HeldIn(U), NEW n \in Nat, Len(stack) >= n + 1
  PROVE  Last(Below(n)) \in U
<1>1. stack \in Seq(U) /\ Len(stack) \in Nat
  BY LenProperties DEF HeldIn
<1>2. Below(n) \in Seq(U) /\ Len(Below(n)) = Len(stack) - n
  BY <1>1, BelowIsHeld
<1>3. Below(n) # <<>>
  <2>1. Len(Below(n)) # 0
    BY <1>1, <1>2
  <2>. QED BY <2>1, EmptySeq
<1>. QED BY <1>2, <1>3, LastIsTyped

\* What a mark parts.
LEMMA MarkParts ==
  ASSUME NEW U, HeldIn(U), MarkOk
  PROVE  Marked \in Seq(U) /\ UnderMark \in Seq(U) /\ Front(marks) \in Seq(Nat)
<1>1. stack \in Seq(U) /\ marks \in Seq(Nat) /\ marks # <<>> /\ Last(marks) <= Len(stack)
  BY DEF HeldIn, MarkOk
<1>2. Last(marks) \in Nat /\ Front(marks) \in Seq(Nat) /\ Len(stack) \in Nat
  BY <1>1, LastIsTyped, LenProperties
<1>3. Last(marks) \in 0..Len(stack)
  BY <1>1, <1>2
<1>4. Marked \in Seq(U)
  BY <1>1, <1>3, SuffixIsTyped DEF Marked
<1>5. UnderMark \in Seq(U)
  BY <1>1, <1>3, PrefixIsTyped DEF UnderMark
<1>. QED BY <1>2, <1>4, <1>5

\* A push leaves the values held by the closed set and the pushed one.
LEMMA PushKeeps ==
  ASSUME NEW U, ClosedUnder(U), HeldIn(U), NEW v, FitsIn(U, v), NEW s \in Seq(U), stack' = Append(s, v),
         marks' \in Seq(Nat), memo' = memo, pickled' = pickled
  PROVE  PickleInv'
<1>. DEFINE W == U \union {v}
<1>1. ClosedUnder(W)
  BY ClosedGrows
<1>2. s \in Seq(W) /\ v \in W
  BY SeqMonotonic
<1>3. stack' \in Seq(W)
  BY <1>2, AppendProperties
<1>4. memo' \in [MemoIds -> W] /\ pickled'.value \in W
  BY DEF HeldIn
<1>. HIDE DEF W
<1>. QED BY <1>1, <1>3, <1>4 DEF PickleInv, HeldIn, ClosedUnder, FitsIn, ExactDepth, IsContainer, Children

\* A throw leaves nothing but unset memo entries.
LEMMA ThrowKeeps ==
  ASSUME Throw
  PROVE  PickleInv'
<1>1. ClosedUnder({Unset})
  BY UnsetFits DEF ClosedUnder
<1>2. <<>> \in Seq({Unset}) /\ <<>> \in Seq(Nat)
  OBVIOUS
<1>3. stack' = <<>> /\ marks' = <<>> /\ memo' \in [MemoIds -> {Unset}] /\ pickled'.value \in {Unset}
  BY DEF Throw
<1>. QED BY <1>1, <1>2, <1>3 DEF PickleInv, HeldIn, ClosedUnder, FitsIn, ExactDepth, IsContainer, Children

LEMMA MarkKeeps ==
  ASSUME NEW U, ClosedUnder(U), HeldIn(U), Mark
  PROVE  PickleInv'
<1>1. stack \in Seq(U) /\ marks \in Seq(Nat) /\ Len(stack) \in Nat
  BY LenProperties DEF HeldIn
<1>2. Append(marks, Len(stack)) \in Seq(Nat)
  BY <1>1, AppendProperties
<1>3. stack' \in Seq(U) /\ marks' \in Seq(Nat) /\ memo' \in [MemoIds -> U] /\ pickled'.value \in U
  BY <1>1, <1>2 DEF Mark, HeldIn
<1>. QED BY <1>3 DEF PickleInv, HeldIn, ClosedUnder, FitsIn, ExactDepth, IsContainer, Children

\* A value with no children yet.
LEMMA PushesKeep ==
  ASSUME NEW U, ClosedUnder(U), HeldIn(U), PushScalar \/ PushText \/ PushEmpty
  PROVE  PickleInv'
<1>1. stack \in Seq(U) /\ marks \in Seq(Nat)
  BY DEF HeldIn
<1>2. marks' = marks /\ memo' = memo /\ pickled' = pickled
  BY DEF PushScalar, PushText, PushEmpty
<1>3. CASE PushScalar
  <2>1. PICK type \in Scalars : stack' = Append(stack, Scalar(type, ""))
    BY <1>3 DEF PushScalar, Push, Becomes
  <2>2. type \notin {"list", "tuple", "dict"}
    BY DepthsAreNumbers
  <2>3. FitsIn(U, Scalar(type, ""))
    BY <2>2, ScalarFits
  <2>. QED BY <1>1, <1>2, <2>1, <2>3, PushKeeps
<1>4. CASE PushText
  <2>1. PICK text \in Strings : stack' = Append(stack, Scalar("string", text))
    BY <1>4 DEF PushText, Push, Becomes
  <2>2. FitsIn(U, Scalar("string", text))
    BY ScalarFits
  <2>. QED BY <1>1, <1>2, <2>1, <2>2, PushKeeps
<1>5. CASE PushEmpty
  <2>1. PICK type \in {"list", "tuple", "dict"} : stack' = Append(stack, Container(type, {}))
    BY <1>5 DEF PushEmpty, Push, Becomes
  <2>2. FitsIn(U, Container(type, {}))
    BY ContainerFits
  <2>. QED BY <1>1, <1>2, <2>1, <2>2, PushKeeps
<1>. QED BY <1>3, <1>4, <1>5

LEMMA AppendOneKeeps ==
  ASSUME NEW U, ClosedUnder(U), HeldIn(U), AppendOne
  PROVE  PickleInv'
<1>1. CASE Throw
  BY <1>1, ThrowKeeps
<1>2. CASE ~Throw
  <2>1. /\ ~ (Len(stack) < 2) /\ ~TooDeep(Top) /\ Last(Below(1)).type = "list"
        /\ stack' = Append(Below(2), AppendTo(Last(Below(1)), <<Top>>))
        /\ marks' = marks /\ memo' = memo /\ pickled' = pickled
    BY <1>2 DEF AppendOne, Becomes
  <2>2. stack \in Seq(U) /\ marks \in Seq(Nat) /\ Len(stack) \in Nat
    BY LenProperties DEF HeldIn
  <2>3. Len(stack) >= 2 /\ stack # <<>>
    BY <2>1, <2>2
  <2>4. Top \in U
    BY <2>2, <2>3, LastIsTyped DEF Top
  <2>5. Last(Below(1)) \in U
    BY <2>2, <2>3, LastBelow
  <2>6. Below(2) \in Seq(U)
    BY <2>3, BelowIsHeld
  <2>7. FitsIn(U, Last(Below(1)))
    BY <2>5 DEF ClosedUnder
  <2>8. PICK target, child : target = Last(Below(1)) /\ child = Top
    OBVIOUS
  <2>9. \A i \in DOMAIN <<child>> : <<child>>[i] \in U /\ ~TooDeep(<<child>>[i])
    BY <2>1, <2>4, <2>8
  <2>10. FitsIn(U, AppendTo(target, <<child>>))
    BY <2>1, <2>7, <2>8, <2>9, AppendFits
  <2>. QED BY <2>1, <2>2, <2>6, <2>8, <2>10, PushKeeps
<1>. QED BY <1>1, <1>2

\* The values a mark parts are those of a sequence of the closed set.
LEMMA MarkedIsHeld ==
  ASSUME NEW U, HeldIn(U), MarkOk
  PROVE  \A i \in DOMAIN Marked : Marked[i] \in U
<1>1. Marked \in Seq(U)
  BY MarkParts
<1>2. PICK s : s = Marked
  OBVIOUS
<1>3. DOMAIN s = 1..Len(s) /\ s \in Seq(U)
  BY <1>1, <1>2, LenProperties
<1>4. \A i \in DOMAIN s : s[i] \in U
  BY <1>3, ElementOfSeq
<1>. QED BY <1>2, <1>4

LEMMA AppendsKeeps ==
  ASSUME NEW U, ClosedUnder(U), HeldIn(U), Appends
  PROVE  PickleInv'
<1>1. CASE Throw
  BY <1>1, ThrowKeeps
<1>2. CASE ~Throw
  <2>1. /\ MarkOk /\ UnderMark # <<>> /\ Last(UnderMark).type = "list"
        /\ \A i \in DOMAIN Marked : ~TooDeep(Marked[i])
        /\ stack' = Append(Front(UnderMark), AppendTo(Last(UnderMark), Marked))
        /\ marks' = Front(marks) /\ memo' = memo /\ pickled' = pickled
    BY <1>2 DEF Appends, Becomes
  <2>2. UnderMark \in Seq(U) /\ marks' \in Seq(Nat) /\ \A i \in DOMAIN Marked : Marked[i] \in U
    BY <2>1, MarkParts, MarkedIsHeld
  <2>3. Last(UnderMark) \in U /\ Front(UnderMark) \in Seq(U)
    BY <2>1, <2>2, LastIsTyped
  <2>4. FitsIn(U, Last(UnderMark))
    BY <2>3 DEF ClosedUnder
  <2>5. FitsIn(U, AppendTo(Last(UnderMark), Marked))
    BY <2>1, <2>2, <2>4, AppendFits
  <2>. QED BY <2>1, <2>2, <2>3, <2>5, PushKeeps
<1>. QED BY <1>1, <1>2

\* The children of a list or a tuple made of a sequence.
LEMMA UnkeyedFits ==
  ASSUME NEW U, ClosedUnder(U), NEW type \in {"list", "tuple"}, NEW s,
         \A i \in DOMAIN s : s[i] \in U /\ ~TooDeep(s[i])
  PROVE  FitsIn(U, Container(type, Unkeyed(s)))
<1>1. ASSUME NEW i \in DOMAIN s
      PROVE  [key |-> "", child |-> s[i]].child \in U /\ ~TooDeep([key |-> "", child |-> s[i]].child)
  OBVIOUS
<1>2. \A item \in Unkeyed(s) : item.child \in U /\ ~TooDeep(item.child)
  BY <1>1 DEF Unkeyed
<1>. QED BY <1>2, ContainerFits

LEMMA MakeMarkedKeeps ==
  ASSUME NEW U, ClosedUnder(U), HeldIn(U), MakeMarked
  PROVE  PickleInv'
<1>1. CASE Throw
  BY <1>1, ThrowKeeps
<1>2. CASE ~Throw
  <2>1. /\ MarkOk /\ \A i \in DOMAIN Marked : ~TooDeep(Marked[i])
        /\ marks' = Front(marks) /\ memo' = memo /\ pickled' = pickled
    BY <1>2 DEF MakeMarked
  <2>2. PICK type \in {"list", "tuple"} : stack' = Append(UnderMark, Container(type, Unkeyed(Marked)))
    BY <1>2 DEF MakeMarked, Becomes
  <2>3. UnderMark \in Seq(U) /\ marks' \in Seq(Nat) /\ \A i \in DOMAIN Marked : Marked[i] \in U
    BY <2>1, MarkParts, MarkedIsHeld
  <2>4. FitsIn(U, Container(type, Unkeyed(Marked)))
    BY <2>1, <2>3, UnkeyedFits
  <2>. QED BY <2>1, <2>2, <2>3, <2>4, PushKeeps
<1>. QED BY <1>1, <1>2

LEMMA MakeTupleKeeps ==
  ASSUME NEW U, ClosedUnder(U), HeldIn(U), MakeTuple
  PROVE  PickleInv'
<1>1. CASE Throw
  BY <1>1, ThrowKeeps
<1>2. CASE ~Throw
  <2>1. PICK n \in 1..3 :
          LET items == SubSeq(stack, Len(stack) - n + 1, Len(stack))
          IN /\ ~ (Len(stack) < n) /\ \A i \in DOMAIN items : ~TooDeep(items[i])
             /\ stack' = Append(Below(n), Container("tuple", Unkeyed(items)))
             /\ marks' = marks /\ memo' = memo /\ pickled' = pickled
    BY <1>2 DEF MakeTuple, Becomes
  <2>2. stack \in Seq(U) /\ marks \in Seq(Nat) /\ Len(stack) \in Nat
    BY LenProperties DEF HeldIn
  <2>3. n \in Nat /\ Len(stack) >= n
    BY <2>1, <2>2
  <2>4. Below(n) \in Seq(U)
    BY <2>3, BelowIsHeld
  <2>5. PICK items : items = SubSeq(stack, Len(stack) - n + 1, Len(stack))
    OBVIOUS
  <2>6. Len(stack) - n \in 0..Len(stack)
    BY <2>2, <2>3
  <2>7. items \in Seq(U)
    BY <2>2, <2>5, <2>6, SuffixIsTyped
  <2>8. \A i \in DOMAIN items : items[i] \in U
    BY <2>7, ElementOfSeq, LenProperties
  <2>9. FitsIn(U, Container("tuple", Unkeyed(items)))
    BY <2>1, <2>5, <2>8, UnkeyedFits
  <2>. QED BY <2>1, <2>2, <2>4, <2>5, <2>9, PushKeeps
<1>. QED BY <1>1, <1>2

LEMMA MakeDictKeeps ==
  ASSUME NEW U, ClosedUnder(U), HeldIn(U), MakeDict
  PROVE  PickleInv'
<1>1. CASE Throw
  BY <1>1, ThrowKeeps
<1>2. CASE ~Throw
  <2>1. /\ MarkOk /\ \A item \in LastPairs(Marked) : ~TooDeep(item.child)
        /\ stack' = Append(UnderMark, Container("dict", LastPairs(Marked)))
        /\ marks' = Front(marks) /\ memo' = memo /\ pickled' = pickled
    BY <1>2 DEF MakeDict, Becomes
  <2>2. UnderMark \in Seq(U) /\ marks' \in Seq(Nat) /\ \A i \in DOMAIN Marked : Marked[i] \in U
    BY <2>1, MarkParts, MarkedIsHeld
  <2>3. PICK s : s = Marked
    OBVIOUS
  <2>4. ASSUME NEW item \in LastPairs(s) PROVE item.child \in U
    <3>1. PICK i \in ValueAt(s) : item = [key |-> s[i - 1].text, child |-> s[i]]
      BY DEF LastPairs
    <3>2. item.child = s[i] /\ i \in DOMAIN s
      BY <3>1 DEF ValueAt
    <3>. QED BY <2>2, <2>3, <3>2
  <2>5. FitsIn(U, Container("dict", LastPairs(s)))
    BY <2>1, <2>3, <2>4, ContainerFits
  <2>. QED BY <2>1, <2>2, <2>3, <2>5, PushKeeps
<1>. QED BY <1>1, <1>2

LEMMA SetItemKeeps ==
  ASSUME NEW U, ClosedUnder(U), HeldIn(U), SetItem
  PROVE  PickleInv'
<1>1. CASE Throw
  BY <1>1, ThrowKeeps
<1>2. CASE ~Throw
  <2>1. PICK name, target : name = Last(Below(1)) /\ target = Last(Below(2))
    OBVIOUS
  <2>2. /\ ~ (Len(stack) < 3) /\ target.type = "dict" /\ ~TooDeep(Top)
        /\ stack' = Append(Below(3), Set(target, name.text, Top))
        /\ marks' = marks /\ memo' = memo /\ pickled' = pickled
    BY <1>2, <2>1 DEF SetItem, Becomes
  <2>3. stack \in Seq(U) /\ marks \in Seq(Nat) /\ Len(stack) \in Nat
    BY LenProperties DEF HeldIn
  <2>4. Len(stack) >= 3 /\ stack # <<>>
    BY <2>2, <2>3
  <2>5. Top \in U
    BY <2>3, <2>4, LastIsTyped DEF Top
  <2>6. target \in U
    BY <2>1, <2>3, <2>4, LastBelow
  <2>7. Below(3) \in Seq(U)
    BY <2>4, BelowIsHeld
  <2>8. FitsIn(U, target)
    BY <2>6 DEF ClosedUnder
  <2>9. PICK text, child : text = name.text /\ child = Top
    OBVIOUS
  <2>10. FitsIn(U, Set(target, text, child))
    BY <2>2, <2>5, <2>8, <2>9, SetFits
  <2>. QED BY <2>2, <2>3, <2>7, <2>9, <2>10, PushKeeps
<1>. QED BY <1>1, <1>2

LEMMA SetItemsKeeps ==
  ASSUME NEW U, ClosedUnder(U), HeldIn(U), SetItems
  PROVE  PickleInv'
<1>1. CASE Throw
  BY <1>1, ThrowKeeps
<1>2. CASE ~Throw
  <2>1. /\ MarkOk /\ UnderMark # <<>> /\ Last(UnderMark).type = "dict"
        /\ \A i \in ValueAt(Marked) : ~TooDeep(Marked[i])
        /\ stack' = Append(Front(UnderMark), SetPairs(Last(UnderMark), Marked))
        /\ marks' = Front(marks) /\ memo' = memo /\ pickled' = pickled
    BY <1>2 DEF SetItems, Becomes
  <2>2. UnderMark \in Seq(U) /\ marks' \in Seq(Nat) /\ Marked \in Seq(U)
    BY <2>1, MarkParts
  <2>3. Last(UnderMark) \in U /\ Front(UnderMark) \in Seq(U)
    BY <2>1, <2>2, LastIsTyped
  <2>4. FitsIn(U, Last(UnderMark))
    BY <2>3 DEF ClosedUnder
  <2>5. FitsIn(U, SetPairs(Last(UnderMark), Marked))
    BY <2>1, <2>2, <2>4, SetPairsFits
  <2>. QED BY <2>1, <2>2, <2>3, <2>5, PushKeeps
<1>. QED BY <1>1, <1>2

\* The memo keeps a value the stack holds, and gives it back.
LEMMA PutKeeps ==
  ASSUME NEW U, ClosedUnder(U), HeldIn(U), Put
  PROVE  PickleInv'
<1>1. CASE Throw
  BY <1>1, ThrowKeeps
<1>2. CASE ~Throw
  <2>1. stack # <<>> /\ stack' = stack /\ marks' = marks /\ pickled' = pickled
    BY <1>2 DEF Put
  <2>2. PICK i \in MemoIds : memo' = [memo EXCEPT ![i] = Top]
    BY <1>2 DEF Put
  <2>3. Top \in U
    BY <2>1, LastIsTyped DEF HeldIn, Top
  <2>4. stack' \in Seq(U) /\ marks' \in Seq(Nat) /\ memo' \in [MemoIds -> U] /\ pickled'.value \in U
    BY <2>1, <2>2, <2>3 DEF HeldIn
  <2>. QED BY <2>4 DEF PickleInv, HeldIn, ClosedUnder, FitsIn, ExactDepth, IsContainer, Children
<1>. QED BY <1>1, <1>2

LEMMA GetKeeps ==
  ASSUME NEW U, ClosedUnder(U), HeldIn(U), Get
  PROVE  PickleInv'
<1>1. CASE Throw
  BY <1>1, ThrowKeeps
<1>2. CASE ~Throw
  <2>1. PICK i \in MemoIds :
          stack' = Append(stack, memo[i]) /\ marks' = marks /\ memo' = memo /\ pickled' = pickled
    BY <1>2 DEF Get, Push, Becomes
  <2>2. stack \in Seq(U) /\ marks \in Seq(Nat) /\ memo[i] \in U
    BY DEF HeldIn
  <2>3. FitsIn(U, memo[i])
    BY <2>2 DEF ClosedUnder
  <2>. QED BY <2>1, <2>2, <2>3, PushKeeps
<1>. QED BY <1>1, <1>2

\* STOP hands out the one value of the stack.
LEMMA StopKeeps ==
  ASSUME NEW U, ClosedUnder(U), HeldIn(U), StopPickle
  PROVE  PickleInv'
<1>1. CASE Throw
  BY <1>1, ThrowKeeps
<1>2. CASE ~Throw
  <2>1. /\ Len(stack) = 1 /\ pickled' = [state |-> "value", value |-> Top]
        /\ stack' = <<>> /\ marks' = <<>> /\ memo' = [i \in MemoIds |-> Unset]
    BY <1>2 DEF StopPickle
  <2>. DEFINE W == U \union {Unset}
  <2>2. ClosedUnder(W)
    BY ClosedGrows, UnsetFits
  <2>3. stack # <<>> /\ stack \in Seq(U)
    <3>1. stack \in Seq(U) /\ Len(stack) # 0
      BY <2>1 DEF HeldIn
    <3>. QED BY <3>1, EmptySeq
  <2>4. Top \in W
    BY <2>3, LastIsTyped DEF Top
  <2>5. pickled'.value \in W /\ memo' \in [MemoIds -> W]
    BY <2>1, <2>4
  <2>. HIDE DEF W
  <2>6. stack' \in Seq(W) /\ marks' \in Seq(Nat)
    BY <2>1
  <2>. QED BY <2>2, <2>5, <2>6 DEF PickleInv, HeldIn, ClosedUnder, FitsIn, ExactDepth, IsContainer, Children
<1>. QED BY <1>1, <1>2

\* Every value of the machine belongs to one closed set, whatever the program.
THEOREM PickleInvariant == PickleSpec => []PickleInv
<1>1. PickleInit => PickleInv
  BY InitIsHeld
<1>2. PickleInv /\ [PickleNext]_machine => PickleInv'
  <2>. SUFFICES ASSUME PickleInv, [PickleNext]_machine PROVE PickleInv'
    OBVIOUS
  <2>1. PICK U : ClosedUnder(U) /\ HeldIn(U)
    BY DEF PickleInv
  <2>2. CASE UNCHANGED machine
    <3>1. stack' = stack /\ marks' = marks /\ memo' = memo /\ pickled' = pickled
      BY <2>2 DEF machine
    <3>. QED BY <2>1, <3>1 DEF PickleInv, HeldIn, ClosedUnder, FitsIn, ExactDepth, IsContainer, Children
  <2>3. CASE Broken
    BY <2>3, ThrowKeeps DEF Broken
  <2>4. CASE Mark
    BY <2>1, <2>4, MarkKeeps
  <2>5. CASE PushScalar \/ PushText \/ PushEmpty
    BY <2>1, <2>5, PushesKeep
  <2>6. CASE AppendOne
    BY <2>1, <2>6, AppendOneKeeps
  <2>7. CASE Appends
    BY <2>1, <2>7, AppendsKeeps
  <2>8. CASE MakeMarked
    BY <2>1, <2>8, MakeMarkedKeeps
  <2>9. CASE MakeTuple
    BY <2>1, <2>9, MakeTupleKeeps
  <2>10. CASE MakeDict
    BY <2>1, <2>10, MakeDictKeeps
  <2>11. CASE SetItem
    BY <2>1, <2>11, SetItemKeeps
  <2>12. CASE SetItems
    BY <2>1, <2>12, SetItemsKeeps
  <2>13. CASE Put
    BY <2>1, <2>13, PutKeeps
  <2>14. CASE Get
    BY <2>1, <2>14, GetKeeps
  <2>15. CASE StopPickle
    BY <2>1, <2>15, StopKeeps
  <2>. QED BY <2>2, <2>3, <2>4, <2>5, <2>6, <2>7, <2>8, <2>9, <2>10, <2>11, <2>12, <2>13, <2>14, <2>15 DEF PickleNext
<1>. QED BY <1>1, <1>2, PTL DEF PickleSpec

THEOREM DepthIsAlwaysExact == PickleSpec => []DepthIsExact
<1>1. PickleInv => DepthIsExact
  <2>. SUFFICES ASSUME PickleInv PROVE DepthIsExact
    OBVIOUS
  <2>1. PICK U : ClosedUnder(U) /\ HeldIn(U)
    BY DEF PickleInv
  <2>2. ToSet(stack) \subseteq U
    <3>1. stack \in Seq(U)
      BY <2>1 DEF HeldIn
    <3>2. \A i \in DOMAIN stack : stack[i] \in U
      BY <3>1, ElementOfSeq, LenProperties
    <3>. QED BY <3>2 DEF ToSet
  <2>3. \A v \in Values : v \in U
    BY <2>1, <2>2 DEF Values, HeldIn
  <2>. QED BY <2>1, <2>3, NestingIsDepth DEF DepthIsExact
<1>. QED BY <1>1, PickleInvariant, PTL
=============================================================================
