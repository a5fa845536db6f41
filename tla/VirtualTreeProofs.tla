-------------------------- MODULE VirtualTreeProofs --------------------------
(***************************************************************************)
(* What module VirtualTree says of the names, for every pack, every        *)
(* metadata, every escaping and every case folding.                        *)
(***************************************************************************)
EXTENDS VirtualTree, FiniteSetTheorems, TLAPS

-----------------------------------------------------------------------------
(***************************************************************************)
(* Sets of positions in ascending order: the n-th element is the one with  *)
(* n elements up to it, and these ranks are the numbers up to the          *)
(* cardinality.                                                            *)
(***************************************************************************)
LEMMA Ranks ==
  ASSUME NEW S \in SUBSET Nat, IsFiniteSet(S)
  PROVE  /\ Cardinality(S) \in Nat
         /\ \A n \in 1..Cardinality(S) :
              Nth(S, n) \in S /\ Cardinality({y \in S : y <= Nth(S, n)}) = n
         /\ \A x \in S : \E n \in 1..Cardinality(S) : Nth(S, n) = x
<1> DEFINE Below(x) == {y \in S : y <= x}
           N == Cardinality(S)
           rank == [x \in S |-> Cardinality(Below(x))]
<1>1. N \in Nat
  BY FS_CardinalityType
<1>2. \A x \in S : IsFiniteSet(Below(x)) /\ Cardinality(Below(x)) \in 1..N
  <2> SUFFICES ASSUME NEW x \in S PROVE IsFiniteSet(Below(x)) /\ Cardinality(Below(x)) \in 1..N
    OBVIOUS
  <2>1. Below(x) \in SUBSET S /\ x \in Below(x)
    OBVIOUS
  <2>2. IsFiniteSet(Below(x)) /\ Cardinality(Below(x)) <= N
    BY <2>1, FS_Subset
  <2>3. Cardinality(Below(x)) \in Nat /\ Cardinality(Below(x)) # 0
    BY <2>1, <2>2, FS_CardinalityType, FS_EmptySet
  <2> QED
    BY <1>1, <2>2, <2>3
<1>3. ASSUME NEW x \in S, NEW y \in S, x < y PROVE Cardinality(Below(x)) # Cardinality(Below(y))
  <2>1. Below(x) \in SUBSET Below(y) /\ Below(x) # Below(y)
    <3>1. \A z \in Below(x) : z \in Below(y)
      BY <1>3
    <3>2. y \in Below(y) /\ y \notin Below(x)
      BY <1>3
    <3> QED
      BY <3>1, <3>2
  <2> QED
    BY <1>2, <2>1, FS_Subset
<1>4. rank \in Injection(S, 1..N)
  <2>1. rank \in [S -> 1..N]
    BY <1>2
  <2>2. \A x, y \in S : rank[x] = rank[y] => x = y
    <3> SUFFICES ASSUME NEW x \in S, NEW y \in S, x # y PROVE rank[x] # rank[y]
      OBVIOUS
    <3>1. x < y \/ y < x
      OBVIOUS
    <3> QED
      BY <1>3, <3>1
  <2> QED
    BY <2>1, <2>2 DEF Injection, IsInjective
<1>5. rank \in Surjection(S, 1..N)
  BY <1>1, <1>4, FS_Injection, FS_Interval
<1>6. \A n \in 1..N : \E x \in S : Cardinality(Below(x)) = n
  BY <1>5 DEF Surjection
<1>7. \A n \in 1..N : Nth(S, n) \in S /\ Cardinality(Below(Nth(S, n))) = n
  BY <1>6 DEF Nth
<1>8. ASSUME NEW x \in S PROVE \E n \in 1..N : Nth(S, n) = x
  <2>1. PICK n \in 1..N : n = Cardinality(Below(x))
    BY <1>2
  <2>2. Nth(S, n) \in S /\ Cardinality(Below(Nth(S, n))) = Cardinality(Below(x))
    BY <1>7, <2>1
  <2>3. Nth(S, n) = x
    <3> DEFINE z == Nth(S, n)
    <3>1. z \in S /\ Cardinality(Below(z)) = Cardinality(Below(x))
      BY <2>2
    <3> HIDE DEF z
    <3>2. ~(z < x) /\ ~(x < z)
      BY <1>3, <3>1
    <3>3. z = x
      BY <3>1, <3>2
    <3> QED
      BY <3>3 DEF z
  <2> QED
    BY <2>3
<1> QED
  BY <1>1, <1>7, <1>8

\* What Ascending lists: the members, all of them, and nothing else.
LEMMA AscendingLists ==
  ASSUME NEW S \in SUBSET Nat, IsFiniteSet(S)
  PROVE  /\ Ascending(S) \in Seq(S) /\ Len(Ascending(S)) = Cardinality(S)
         /\ \A x \in S : \E n \in 1..Len(Ascending(S)) : Ascending(S)[n] = x
<1>1. Cardinality(S) \in Nat /\ \A n \in 1..Cardinality(S) : Nth(S, n) \in S
  BY Ranks
<1>2. Ascending(S) \in [1..Cardinality(S) -> S]
  BY <1>1 DEF Ascending
<1>3. Ascending(S) \in Seq(S) /\ Len(Ascending(S)) = Cardinality(S)
  BY <1>1, <1>2
<1>4. \A n \in 1..Cardinality(S) : Ascending(S)[n] = Nth(S, n)
  BY DEF Ascending
<1> QED
  BY <1>3, <1>4, Ranks

\* A finite set of numbers that is not empty has its first one.
LEMMA FirstIsMember ==
  ASSUME NEW S \in SUBSET Nat, IsFiniteSet(S), S # {}
  PROVE  First(S) \in S
<1>1. Cardinality(S) \in Nat \ {0}
  BY FS_CardinalityType, FS_EmptySet
<1>2. PICK x \in S : Cardinality({y \in S : y <= x}) = 1
  <2>1. 1 \in 1..Cardinality(S)
    BY <1>1
  <2>2. Nth(S, 1) \in S /\ Cardinality({y \in S : y <= Nth(S, 1)}) = 1
    BY <2>1, Ranks
  <2> QED
    BY <2>2
<1>3. {y \in S : y <= x} \in SUBSET S
  OBVIOUS
<1>4. IsFiniteSet({y \in S : y <= x})
  BY <1>3, FS_Subset
<1>5. PICK z : {y \in S : y <= x} = {z}
  BY <1>2, <1>4, FS_Singleton
<1>6. \A m \in S : x <= m
  <2> SUFFICES ASSUME NEW m \in S, m < x PROVE FALSE
    OBVIOUS
  <2>1. m \in {y \in S : y <= x} /\ x \in {y \in S : y <= x}
    OBVIOUS
  <2> QED
    BY <1>5, <2>1
<1> QED
  BY <1>6 DEF First

-----------------------------------------------------------------------------
(***************************************************************************)
(* Names.  Folding keeps the shape of a path; a suffix touches its last    *)
(* component only, so a candidate needs the folders its name needs; and a  *)
(* path that another one starts with is one of the folders of that one.    *)
(***************************************************************************)
Folders(p) == {Fold(d) : d \in Ancestors(p)}

\* A path has components, each of its kind.
LEMMA PathShape ==
  ASSUME NEW p \in Path
  PROVE  /\ p \in Seq(Component) /\ Len(p) \in Nat \ {0} /\ DOMAIN p = 1..Len(p)
         /\ \A i \in 1..Len(p) : p[i] \in Component
<1>1. p \in Seq(Component) /\ p # <<>>
  BY DEF Path
<1> QED
  BY <1>1

\* Components in a row are a path.
LEMMA IsPath ==
  ASSUME NEW n \in Nat \ {0}, NEW p \in [1..n -> Component]
  PROVE  p \in Path /\ Len(p) = n
<1>1. p \in Seq(Component) /\ Len(p) = n
  OBVIOUS
<1> QED
  BY <1>1 DEF Path

\* Folding a path folds the stem of every component.
LEMMA FoldShape ==
  ASSUME NEW p \in Path
  PROVE  /\ Fold(p) \in Path /\ Len(Fold(p)) = Len(p)
         /\ \A i \in 1..Len(p) : Fold(p)[i] = [p[i] EXCEPT !.stem = Folded[p[i].stem]]
<1>1. \A i \in 1..Len(p) : [p[i] EXCEPT !.stem = Folded[p[i].stem]] \in Component
  BY PathShape, TreeAssumption DEF Component
<1>2. Fold(p) = [i \in 1..Len(p) |-> [p[i] EXCEPT !.stem = Folded[p[i].stem]]]
  BY PathShape DEF Fold
<1>3. Fold(p) \in [1..Len(p) -> Component]
  BY <1>1, <1>2
<1>4. Fold(p) \in Path /\ Len(Fold(p)) = Len(p)
  BY <1>3, PathShape, IsPath
<1> QED
  BY <1>2, <1>4

\* A component with one more suffix is a component.
LEMMA SuffixedComponent ==
  ASSUME NEW c \in Component, NEW n \in Nat
  PROVE  [c EXCEPT !.sfx = Append(c.sfx, n)] \in Component
<1>1. c.sfx \in Seq(Nat)
  BY DEF Component
<1>2. Append(c.sfx, n) \in Seq(Nat)
  BY <1>1
<1> QED
  BY <1>2 DEF Component

\* A suffix touches the last component only.
LEMMA SuffixedShape ==
  ASSUME NEW p \in Path, NEW n \in Nat
  PROVE  /\ Suffixed(p, n) \in Path /\ Len(Suffixed(p, n)) = Len(p)
         /\ \A i \in 1..Len(p) :
              Suffixed(p, n)[i] = IF i = Len(p) THEN [p[i] EXCEPT !.sfx = Append(p[i].sfx, n)] ELSE p[i]
<1>1. \A i \in 1..Len(p) : [p[i] EXCEPT !.sfx = Append(p[i].sfx, n)] \in Component
  <2> SUFFICES ASSUME NEW i \in 1..Len(p)
               PROVE  [p[i] EXCEPT !.sfx = Append(p[i].sfx, n)] \in Component
    OBVIOUS
  <2>1. PICK c \in Component : c = p[i]
    BY PathShape
  <2> QED
    BY <2>1, SuffixedComponent
<1>2. Suffixed(p, n) =
        [i \in 1..Len(p) |-> IF i = Len(p) THEN [p[i] EXCEPT !.sfx = Append(p[i].sfx, n)] ELSE p[i]]
  BY PathShape DEF Suffixed
<1>3. Suffixed(p, n) \in [1..Len(p) -> Component]
  BY <1>1, <1>2, PathShape
<1>4. Suffixed(p, n) \in Path /\ Len(Suffixed(p, n)) = Len(p)
  BY <1>3, PathShape, IsPath
<1> QED
  BY <1>2, <1>4

\* A path is its components.
LEMMA SamePath ==
  ASSUME NEW p \in Path, NEW q \in Path, Len(p) = Len(q), \A i \in 1..Len(p) : p[i] = q[i]
  PROVE  p = q
BY PathShape

\* A candidate is a path, and folding it is the candidate of the folded name.
LEMMA CandidateShape ==
  ASSUME NEW p \in Path, NEW n \in Nat
  PROVE  /\ Candidate(p, n) \in Path /\ Len(Candidate(p, n)) = Len(p)
         /\ \A i \in 1..(Len(p) - 1) : Candidate(p, n)[i] = p[i]
         /\ Fold(Candidate(p, n)) = Candidate(Fold(p), n)
<1>1. CASE n = 0
  BY <1>1 DEF Candidate
<1>2. CASE n # 0
  <2>1. Candidate(p, n) = Suffixed(p, n) /\ Candidate(Fold(p), n) = Suffixed(Fold(p), n)
    BY <1>2 DEF Candidate
  <2>2. Fold(p) \in Path /\ Len(Fold(p)) = Len(p) /\ Len(p) \in Nat \ {0}
    BY FoldShape, PathShape
  <2>3. Suffixed(p, n) \in Path /\ Len(Suffixed(p, n)) = Len(p)
        /\ \A i \in 1..(Len(p) - 1) : Suffixed(p, n)[i] = p[i]
    <3>1. \A i \in 1..(Len(p) - 1) : i \in 1..Len(p) /\ i # Len(p)
      BY <2>2
    <3> QED
      BY <3>1, SuffixedShape
  <2>4. Fold(Suffixed(p, n)) \in Path /\ Len(Fold(Suffixed(p, n))) = Len(p)
    BY <2>3, FoldShape
  <2>5. Suffixed(Fold(p), n) \in Path /\ Len(Suffixed(Fold(p), n)) = Len(p)
    BY <2>2, SuffixedShape
  <2>6. ASSUME NEW i \in 1..Len(p) PROVE Fold(Suffixed(p, n))[i] = Suffixed(Fold(p), n)[i]
    <3>1. p[i] \in Component
      BY PathShape
    <3>2. Fold(Suffixed(p, n))[i] =
            [Suffixed(p, n)[i] EXCEPT !.stem = Folded[Suffixed(p, n)[i].stem]]
      BY <2>3, FoldShape
    <3>3. Suffixed(p, n)[i] = IF i = Len(p) THEN [p[i] EXCEPT !.sfx = Append(p[i].sfx, n)] ELSE p[i]
      BY SuffixedShape
    <3>4. Suffixed(Fold(p), n)[i] =
            IF i = Len(p) THEN [Fold(p)[i] EXCEPT !.sfx = Append(Fold(p)[i].sfx, n)] ELSE Fold(p)[i]
      <4>1. PICK q \in Path : q = Fold(p)
        BY <2>2
      <4>2. Len(q) = Len(p)
        BY <2>2, <4>1
      <4>3. i \in 1..Len(q)
        BY <4>2
      <4>4. Suffixed(q, n)[i] = IF i = Len(q) THEN [q[i] EXCEPT !.sfx = Append(q[i].sfx, n)] ELSE q[i]
        BY <4>3, SuffixedShape
      <4> QED
        BY <4>1, <4>2, <4>4
    <3>5. Fold(p)[i] = [p[i] EXCEPT !.stem = Folded[p[i].stem]]
      BY FoldShape
    <3>6. CASE i # Len(p)
      BY <3>2, <3>3, <3>4, <3>5, <3>6
    <3>7. CASE i = Len(p)
      <4>1. PICK c \in Component : c = p[i]
        BY <3>1
      <4>2. [[c EXCEPT !.sfx = Append(c.sfx, n)] EXCEPT !.stem = Folded[c.stem]] =
            [[c EXCEPT !.stem = Folded[c.stem]] EXCEPT !.sfx = Append(c.sfx, n)]
        BY DEF Component
      <4>3. /\ [c EXCEPT !.sfx = Append(c.sfx, n)].stem = c.stem
            /\ [c EXCEPT !.stem = Folded[c.stem]].sfx = c.sfx
        BY DEF Component
      <4>4. Fold(Suffixed(p, n))[i] =
              [[c EXCEPT !.sfx = Append(c.sfx, n)] EXCEPT !.stem = Folded[c.stem]]
        BY <3>2, <3>3, <3>7, <4>1, <4>3
      <4>5. Suffixed(Fold(p), n)[i] =
              [[c EXCEPT !.stem = Folded[c.stem]] EXCEPT !.sfx = Append(c.sfx, n)]
        BY <3>4, <3>5, <3>7, <4>1, <4>3
      <4> QED
        BY <4>2, <4>4, <4>5
    <3> QED
      BY <3>6, <3>7
  <2>7. Fold(Suffixed(p, n)) = Suffixed(Fold(p), n)
    BY <2>4, <2>5, <2>6, SamePath
  <2> QED
    BY <2>1, <2>3, <2>7
<1> QED
  BY <1>1, <1>2

\* The folders of a path are the proper prefixes of its folded name.
LEMMA FoldersShape ==
  ASSUME NEW p \in Path
  PROVE  Folders(p) = {SubSeq(Fold(p), 1, m) : m \in 1..(Len(p) - 1)}
<1>1. ASSUME NEW m \in 1..(Len(p) - 1) PROVE Fold(SubSeq(p, 1, m)) = SubSeq(Fold(p), 1, m)
  <2>1. Len(p) \in Nat /\ m \in 1..Len(p)
    BY PathShape
  <2>2. SubSeq(p, 1, m) = [i \in 1..m |-> p[i]]
    BY <2>1, PathShape
  <2>3. Fold(SubSeq(p, 1, m)) = [i \in 1..m |-> [p[i] EXCEPT !.stem = Folded[p[i].stem]]]
    BY <2>2 DEF Fold
  <2>4. SubSeq(Fold(p), 1, m) = [i \in 1..m |-> Fold(p)[i]]
    BY <2>1, FoldShape, PathShape
  <2>5. \A i \in 1..m : Fold(p)[i] = [p[i] EXCEPT !.stem = Folded[p[i].stem]]
    BY <2>1, FoldShape
  <2> QED
    BY <2>3, <2>4, <2>5
<1> QED
  BY <1>1 DEF Folders, Ancestors

\* A path that starts another one is one of its folders.
LEMMA PrefixIsFolder ==
  ASSUME NEW p \in Path, NEW q \in Path, IsStrictPrefix(Fold(q), Fold(p))
  PROVE  Fold(q) \in Folders(p)
<1> DEFINE P == Fold(p)
           Q == Fold(q)
<1>1. P \in Path /\ Q \in Path /\ Len(P) = Len(p)
  BY FoldShape
<1> HIDE DEF P, Q
<1>2. Len(P) \in Nat \ {0} /\ Len(Q) \in Nat \ {0} /\ P \in Seq(Component) /\ Q \in Seq(Component)
  BY <1>1, PathShape
<1>3. Len(Q) <= Len(P) /\ SubSeq(Q, 1, Len(Q)) = SubSeq(P, 1, Len(Q)) /\ P # Q
  BY DEF IsStrictPrefix, IsPrefix, P, Q
<1>4. SubSeq(Q, 1, Len(Q)) = Q /\ SubSeq(P, 1, Len(P)) = P
  BY <1>2
<1>5. Len(Q) \in 1..(Len(p) - 1) /\ Q = SubSeq(P, 1, Len(Q))
  BY <1>1, <1>2, <1>3, <1>4
<1> QED
  BY <1>5, FoldersShape DEF P, Q

\* A candidate needs the folders of the name it was made of.
LEMMA CandidateFolders ==
  ASSUME NEW p \in Path, NEW n \in Nat
  PROVE  Folders(Candidate(p, n)) = Folders(p)
<1> DEFINE c == Candidate(p, n)
<1>1. c \in Path /\ Len(c) = Len(p) /\ \A i \in 1..(Len(p) - 1) : c[i] = p[i]
  BY CandidateShape
<1> HIDE DEF c
<1>2. Len(p) \in Nat \ {0}
  BY PathShape
<1>3. ASSUME NEW m \in 1..(Len(p) - 1) PROVE SubSeq(c, 1, m) = SubSeq(p, 1, m)
  <2>1. SubSeq(c, 1, m) = [i \in 1..m |-> c[i]] /\ SubSeq(p, 1, m) = [i \in 1..m |-> p[i]]
    BY <1>1, <1>2, PathShape
  <2> QED
    BY <1>1, <2>1
<1>4. Ancestors(c) = Ancestors(p)
  BY <1>1, <1>3 DEF Ancestors
<1> QED
  BY <1>4 DEF Folders, c

\* A name of one component needs no folder.
LEMMA NamedShape ==
  ASSUME NEW s \in Stems, NEW e \in Extensions
  PROVE  Named(s, e) \in Path /\ Folders(Named(s, e)) = {}
<1>1. PICK c \in Component : c = [stem |-> s, sfx |-> <<>>, ext |-> e]
  <2>1. <<>> \in Seq(Nat)
    OBVIOUS
  <2>2. [stem |-> s, sfx |-> <<>>, ext |-> e] \in Component
    BY <2>1 DEF Component
  <2> QED
    BY <2>2
<1>2. <<c>> \in Seq(Component) /\ Len(<<c>>) = 1 /\ <<c>> # <<>>
  OBVIOUS
<1>3. Named(s, e) \in Path /\ Len(Named(s, e)) = 1
  BY <1>1, <1>2 DEF Named, Path
<1> QED
  BY <1>3 DEF Folders, Ancestors

\* A path with another extension is a path.
LEMMA WithExtensionShape ==
  ASSUME NEW p \in Path, NEW e \in Extensions
  PROVE  WithExtension(p, e) \in Path
<1>1. WithExtension(p, e) =
        [i \in 1..Len(p) |-> IF i = Len(p) THEN [p[i] EXCEPT !.ext = e] ELSE p[i]]
  BY PathShape DEF WithExtension
<1>2. \A i \in 1..Len(p) : [p[i] EXCEPT !.ext = e] \in Component
  BY PathShape DEF Component
<1>3. WithExtension(p, e) \in [1..Len(p) -> Component]
  BY <1>1, <1>2, PathShape
<1> QED
  BY <1>3, PathShape, IsPath

-----------------------------------------------------------------------------
(***************************************************************************)
(* The rows of a pack.  Every row is typed, its number needs no folder,    *)
(* and every file has a row: raw or converted, as its hint says.           *)
(***************************************************************************)
FileRow(r) == r \in RowType /\ r.kind = "file" /\ Folders(r.fallback) = {}
FileRows(s) == s \in Seq(RowType) /\ \A n \in 1..Len(s) : FileRow(s[n])
Has(s, i, c) == \E n \in 1..Len(s) : s[n].source = i /\ s[n].converted = c

\* The members of a sequence, and how much of it SubSeq takes.
LEMMA SeqFacts ==
  ASSUME NEW T, NEW s \in Seq(T)
  PROVE  /\ Len(s) \in Nat /\ \A i \in 1..Len(s) : s[i] \in T
         /\ \A m \in 0..Len(s) : DOMAIN SubSeq(s, 1, m) = 1..m
OBVIOUS

\* What the assumption says of the parts of an input.
LEMMA InputFacts ==
  ASSUME NEW in \in Inputs
  PROVE  /\ Len(in.entries) \in Nat /\ Len(in.maps) \in Nat /\ Len(in.checkpoints) \in Nat
         /\ \A i \in Positions(in) : in.entries[i] \in [kind : {"file", "removal"}, path : Physical]
         /\ \A k \in 1..Len(in.maps) : in.maps[k] \in [shown : Path, compiled : Physical]
         /\ \A m \in 0..Len(in.maps) : DOMAIN SubSeq(in.maps, 1, m) = 1..m
         /\ \A f \in 1..Len(in.checkpoints) : in.checkpoints[f] \in 0..Len(in.maps)
         /\ \A i \in Positions(in) : in.hints[i] \in Extensions \cup {"no hint"}
         /\ \A n \in 0..(2 * Len(in.entries) + Len(in.maps)) : Numeral[n] \in Stems
         /\ Positions(in) \in SUBSET Nat /\ IsFiniteSet(Positions(in))
<1>1. IsInput(in)
  BY TreeAssumption
<1>2. PICK es \in Seq([kind : {"file", "removal"}, path : Physical]) : es = in.entries
  BY <1>1 DEF IsInput
<1>3. PICK ms \in Seq([shown : Path, compiled : Physical]) : ms = in.maps
  BY <1>1 DEF IsInput
<1>4. PICK cs \in Seq(0..Len(in.maps)) : cs = in.checkpoints
  BY <1>1 DEF IsInput
<1>5. in.hints \in [Positions(in) -> Extensions \cup {"no hint"}]
  BY <1>1 DEF IsInput, Positions
<1>6. \A n \in 0..(2 * Len(in.entries) + Len(in.maps)) : Numeral[n] \in Stems
  BY <1>1 DEF IsInput
<1>7. Len(es) \in Nat /\ \A i \in 1..Len(es) : es[i] \in [kind : {"file", "removal"}, path : Physical]
  BY SeqFacts
<1>8. /\ Len(ms) \in Nat /\ \A k \in 1..Len(ms) : ms[k] \in [shown : Path, compiled : Physical]
      /\ \A m \in 0..Len(ms) : DOMAIN SubSeq(ms, 1, m) = 1..m
  BY SeqFacts
<1>9. Len(cs) \in Nat /\ \A f \in 1..Len(cs) : cs[f] \in 0..Len(in.maps)
  BY SeqFacts
<1>10. PICK n \in Nat : n = Len(in.entries)
  BY <1>2, <1>7
<1>11. IsFiniteSet(1..n) /\ 1..n \in SUBSET Nat
  <2>1. IsFiniteSet(1..n)
    BY FS_Interval
  <2>2. 1..n \in SUBSET Nat
    OBVIOUS
  <2> QED
    BY <2>1, <2>2
<1>12. Positions(in) = 1..n
  BY <1>10 DEF Positions
<1> QED
  BY <1>2, <1>3, <1>4, <1>5, <1>6, <1>7, <1>8, <1>9, <1>10, <1>11, <1>12

\* The mappings in use are a prefix of those the metadata gave.
LEMMA MappingFacts ==
  ASSUME NEW in \in Inputs, NEW f \in 0..Len(in.checkpoints)
  PROVE  \E m \in 0..Len(in.maps) : DOMAIN Mappings(in, f) = 1..m
<1> DEFINE m == IF f = 0 THEN 0 ELSE in.checkpoints[f]
<1>1. m \in 0..Len(in.maps)
  <2>1. Len(in.maps) \in Nat /\ Len(in.checkpoints) \in Nat
    BY InputFacts
  <2>2. f # 0 => f \in 1..Len(in.checkpoints)
    BY <2>1
  <2>3. f # 0 => in.checkpoints[f] \in 0..Len(in.maps)
    BY <2>2, InputFacts
  <2> QED
    BY <2>1, <2>3
<1>2. DOMAIN SubSeq(in.maps, 1, m) = 1..m
  BY <1>1, InputFacts
<1> QED
  BY <1>1, <1>2 DEF Mappings

\* A row of two names is a row of a file.
LEMMA RowOfShape ==
  ASSUME NEW i \in Nat, NEW c \in BOOLEAN, NEW p \in Path, NEW q \in Path, Folders(q) = {}
  PROVE  /\ FileRow(RowOf(i, c, p, q))
         /\ RowOf(i, c, p, q).source = i /\ RowOf(i, c, p, q).converted = c
<1>1. OrFallback(p, q) \in Path
  BY DEF OrFallback
<1> HIDE DEF Path
<1> QED
  BY <1>1 DEF FileRow, RowOf, RowType

\* A row's number is a name of one component.
LEMMA NumberShape ==
  ASSUME NEW in \in Inputs, NEW n \in 0..(2 * Len(in.entries) + Len(in.maps))
  PROVE  Named(Numeral[n], "") \in Path /\ Folders(Named(Numeral[n], "")) = {}
<1>1. Numeral[n] \in Stems
  BY InputFacts
<1>2. "" \in Extensions
  BY TreeAssumption
<1>3. PICK s \in Stems : s = Numeral[n]
  BY <1>1
<1>4. PICK e \in Extensions : e = ""
  BY <1>2
<1> QED
  BY <1>3, <1>4, NamedShape

\* A raw row is a row of its file.
LEMMA RawRowShape ==
  ASSUME NEW in \in Inputs, NEW f \in 0..Len(in.checkpoints), NEW i \in Positions(in)
  PROVE  /\ FileRow(RawRow(in, f, i))
         /\ RawRow(in, f, i).source = i /\ RawRow(in, f, i).converted = FALSE
<1>1. Len(in.entries) \in Nat /\ Len(in.maps) \in Nat
  BY InputFacts
<1>2. in.entries[i] \in [kind : {"file", "removal"}, path : Physical]
  BY InputFacts
<1>3. PICK shown \in Path : shown = Presented[in.entries[i].path]
  BY <1>2, TreeAssumption
<1>4. i \in Nat /\ i - 1 \in 0..(2 * Len(in.entries) + Len(in.maps))
  <2>1. PICK a \in Nat, b \in Nat : a = Len(in.entries) /\ b = Len(in.maps)
    BY <1>1
  <2>2. i \in 1..a
    BY <2>1 DEF Positions
  <2>3. i \in Nat /\ i - 1 \in 0..(2 * a + b)
    BY <2>2
  <2> QED
    BY <2>1, <2>3
<1>5. PICK n \in 0..(2 * Len(in.entries) + Len(in.maps)) : n = i - 1
  BY <1>4
<1>6. PICK q \in Path : q = Named(Numeral[i - 1], "") /\ Folders(q) = {}
  BY <1>5, NumberShape
<1>7. i \in Nat
  BY <1>4
<1>8. Folders(q) = {}
  BY <1>6
<1>9. CASE MappingsTo(in, f, i) = {}
  <2>1. RawRow(in, f, i) = RowOf(i, FALSE, shown, q)
    BY <1>3, <1>6, <1>9 DEF RawRow
  <2>2. PICK c \in BOOLEAN : c = FALSE
    OBVIOUS
  <2>3. FileRow(RowOf(i, c, shown, q)) /\ RowOf(i, c, shown, q).source = i
        /\ RowOf(i, c, shown, q).converted = c
    BY <1>7, <1>8, RowOfShape
  <2> QED
    BY <2>1, <2>2, <2>3
<1>10. CASE MappingsTo(in, f, i) # {}
  <2> DEFINE M == MappingsTo(in, f, i)
  <2>1. PICK m \in 0..Len(in.maps) : DOMAIN Mappings(in, f) = 1..m
    BY MappingFacts
  <2>2. IsFiniteSet(1..m) /\ 1..m \in SUBSET Nat
    BY <1>1, <2>1, FS_Interval
  <2>3. M \in SUBSET (1..m)
    BY <2>1 DEF MappingsTo
  <2>4. IsFiniteSet(M) /\ M \in SUBSET Nat /\ M # {}
    BY <1>10, <2>2, <2>3, FS_Subset
  <2>5. First(M) \in M
    BY <2>4, FirstIsMember
  <2>6. PICK k \in 1..Len(in.maps) : k = First(M)
    BY <1>1, <2>1, <2>3, <2>5
  <2>7. in.maps[k] \in [shown : Path, compiled : Physical]
    BY InputFacts
  <2>8. PICK p \in Path : p = in.maps[k].shown
    BY <2>7
  <2>9. shown[Len(shown)] \in Component
    BY PathShape
  <2>10. PICK e \in Extensions : e = shown[Len(shown)].ext
    BY <2>9 DEF Component
  <2>11. PICK w \in Path : w = WithExtension(p, e)
    BY WithExtensionShape
  <2>12. RawRow(in, f, i) = RowOf(i, FALSE, w, q)
    BY <1>3, <1>6, <1>10, <2>6, <2>8, <2>10, <2>11 DEF RawRow
  <2>13. PICK c \in BOOLEAN : c = FALSE
    OBVIOUS
  <2>14. FileRow(RowOf(i, c, w, q)) /\ RowOf(i, c, w, q).source = i
         /\ RowOf(i, c, w, q).converted = c
    BY <1>7, <1>8, RowOfShape
  <2> QED
    BY <2>12, <2>13, <2>14
<1> QED
  BY <1>9, <1>10

\* Every file without a hint has a raw row.
LEMMA RawRowsShape ==
  ASSUME NEW in \in Inputs, NEW f \in 0..Len(in.checkpoints)
  PROVE  /\ FileRows(RawRows(in, f))
         /\ \A i \in Positions(in) :
              IsFile(in, i) /\ ~Hinted(in, i) => Has(RawRows(in, f), i, FALSE)
<1> DEFINE S == {i \in Positions(in) : IsFile(in, i) /\ ~Hinted(in, i)}
           raw == Ascending(S)
<1>1. S \in SUBSET Positions(in) /\ S \in SUBSET Nat /\ IsFiniteSet(S)
  BY InputFacts, FS_Subset
<1>2. raw \in Seq(S) /\ \A i \in S : \E n \in 1..Len(raw) : raw[n] = i
  BY <1>1, AscendingLists
<1>3. RawRows(in, f) = [n \in DOMAIN raw |-> RawRow(in, f, raw[n])]
  BY DEF RawRows
<1>s. \A i \in S : i \in Positions(in) /\ ~Hinted(in, i)
  OBVIOUS
<1>t. \A i \in Positions(in) : IsFile(in, i) /\ ~Hinted(in, i) => i \in S
  OBVIOUS
<1> HIDE DEF raw, S
<1>4. DOMAIN raw = 1..Len(raw) /\ Len(raw) \in Nat /\ \A n \in 1..Len(raw) : raw[n] \in S
  BY <1>2
<1>5. \A n \in 1..Len(raw) : /\ FileRow(RawRow(in, f, raw[n]))
                             /\ RawRow(in, f, raw[n]).source = raw[n]
                             /\ RawRow(in, f, raw[n]).converted = FALSE
  <2> SUFFICES ASSUME NEW n \in 1..Len(raw)
               PROVE  /\ FileRow(RawRow(in, f, raw[n])) /\ RawRow(in, f, raw[n]).source = raw[n]
                      /\ RawRow(in, f, raw[n]).converted = FALSE
    OBVIOUS
  <2>1. PICK i \in Positions(in) : i = raw[n]
    BY <1>4, <1>s
  <2> QED
    BY <2>1, RawRowShape
<1>6. RawRows(in, f) \in [1..Len(raw) -> RowType]
  BY <1>3, <1>4, <1>5 DEF FileRow
<1>7. RawRows(in, f) \in Seq(RowType) /\ Len(RawRows(in, f)) = Len(raw)
  BY <1>4, <1>6
<1>8. \A n \in 1..Len(raw) : RawRows(in, f)[n] = RawRow(in, f, raw[n])
  BY <1>3, <1>4
<1>9. \A n \in 1..Len(raw) : FileRow(RawRows(in, f)[n])
  BY <1>5, <1>8
<1>10. ASSUME NEW i \in Positions(in), IsFile(in, i), ~Hinted(in, i)
       PROVE  \E n \in 1..Len(raw) :
                RawRows(in, f)[n].source = i /\ RawRows(in, f)[n].converted = FALSE
  <2>1. PICK n \in 1..Len(raw) : raw[n] = i
    BY <1>2, <1>10, <1>t
  <2> QED
    BY <1>5, <1>8, <2>1
<1> QED
  BY <1>7, <1>9, <1>10 DEF FileRows, Has

\* Two lists of rows, one after the other, have the rows of both.
LEMMA Joined ==
  ASSUME NEW a, NEW b, FileRows(a), FileRows(b)
  PROVE  /\ FileRows(a \o b)
         /\ \A i, c : Has(a, i, c) \/ Has(b, i, c) => Has(a \o b, i, c)
<1>1. a \in Seq(RowType) /\ b \in Seq(RowType)
  BY DEF FileRows
<1>2. /\ a \o b \in Seq(RowType) /\ Len(a \o b) = Len(a) + Len(b)
      /\ Len(a) \in Nat /\ Len(b) \in Nat
      /\ \A n \in 1..Len(a) : (a \o b)[n] = a[n]
      /\ \A n \in 1..Len(b) : (a \o b)[Len(a) + n] = b[n]
      /\ \A n \in (Len(a) + 1)..(Len(a) + Len(b)) : (a \o b)[n] = b[n - Len(a)]
  BY <1>1
<1>3. ASSUME NEW n \in 1..Len(a \o b) PROVE FileRow((a \o b)[n])
  <2>1. CASE n \in 1..Len(a)
    BY <1>2, <2>1 DEF FileRows
  <2>2. CASE n \notin 1..Len(a)
    <3>1. n \in (Len(a) + 1)..(Len(a) + Len(b)) /\ n - Len(a) \in 1..Len(b)
      BY <1>2, <2>2
    <3> QED
      BY <1>2, <3>1 DEF FileRows
  <2> QED
    BY <2>1, <2>2
<1>4. ASSUME NEW i, NEW c, Has(a, i, c) PROVE Has(a \o b, i, c)
  <2>1. PICK n \in 1..Len(a) : a[n].source = i /\ a[n].converted = c
    BY <1>4 DEF Has
  <2>2. n \in 1..Len(a \o b)
    BY <1>2
  <2> QED
    BY <1>2, <2>1, <2>2 DEF Has
<1>5. ASSUME NEW i, NEW c, Has(b, i, c) PROVE Has(a \o b, i, c)
  <2>1. PICK n \in 1..Len(b) : b[n].source = i /\ b[n].converted = c
    BY <1>5 DEF Has
  <2>2. Len(a) + n \in 1..Len(a \o b)
    BY <1>2
  <2> QED
    BY <1>2, <2>1, <2>2 DEF Has
<1> QED
  BY <1>2, <1>3, <1>4, <1>5 DEF FileRows

\* A converted row's number follows those of the entries.
LEMMA ConvertedNumber ==
  ASSUME NEW in \in Inputs, NEW n \in 1..(Len(in.entries) + Len(in.maps))
  PROVE  Number(in, n) \in Path /\ Folders(Number(in, n)) = {}
<1>1. PICK a \in Nat, b \in Nat : a = Len(in.entries) /\ b = Len(in.maps)
  BY InputFacts
<1>2. n \in 1..(a + b)
  BY <1>1
<1>3. a + n - 1 \in 0..(2 * a + b)
  BY <1>2
<1>4. PICK k \in 0..(2 * Len(in.entries) + Len(in.maps)) : k = Len(in.entries) + n - 1
  BY <1>1, <1>3
<1> QED
  BY <1>4, NumberShape DEF Number

\* The converted row of an entry no mapping names is a row of its file.
LEMMA AloneRowShape ==
  ASSUME NEW in \in Inputs, NEW i \in Positions(in), Hinted(in, i),
         NEW n \in 1..(Len(in.entries) + Len(in.maps))
  PROVE  /\ FileRow(AloneRow(in, i, n))
         /\ AloneRow(in, i, n).source = i /\ AloneRow(in, i, n).converted = TRUE
<1>1. in.entries[i] \in [kind : {"file", "removal"}, path : Physical]
  BY InputFacts
<1>2. PICK shown \in Path : shown = Presented[in.entries[i].path]
  BY <1>1, TreeAssumption
<1>3. PICK e \in Extensions : e = in.hints[i]
  BY InputFacts DEF Hinted
<1>4. PICK w \in Path : w = WithExtension(shown, e)
  BY WithExtensionShape
<1>5. PICK q \in Path : q = Number(in, n)
  BY ConvertedNumber
<1>6. Folders(q) = {} /\ i \in Nat
  BY <1>5, ConvertedNumber, InputFacts
<1>7. PICK c \in BOOLEAN : c = TRUE
  OBVIOUS
<1>8. AloneRow(in, i, n) = RowOf(i, c, w, q)
  BY <1>2, <1>3, <1>4, <1>5, <1>7 DEF AloneRow
<1>9. FileRow(RowOf(i, c, w, q)) /\ RowOf(i, c, w, q).source = i /\ RowOf(i, c, w, q).converted = c
  BY <1>6, RowOfShape
<1> QED
  BY <1>7, <1>8, <1>9

\* The converted row of a mapping is a row of the file it names.
LEMMA MappedRowShape ==
  ASSUME NEW in \in Inputs, NEW k \in 1..Len(in.maps), NEW i \in Positions(in),
         IsTarget(in, in.maps[k], i), Hinted(in, i),
         NEW n \in 1..(Len(in.entries) + Len(in.maps))
  PROVE  /\ FileRow(MappedRow(in, k, n))
         /\ MappedRow(in, k, n).source = i /\ MappedRow(in, k, n).converted = TRUE
<1>1. First(NamedBy(in, in.maps[k])) = i
  BY DEF IsTarget
<1>2. in.maps[k] \in [shown : Path, compiled : Physical]
  BY InputFacts
<1>3. PICK e \in Extensions : e = in.hints[i]
  BY InputFacts DEF Hinted
<1>4. PICK p \in Path : p = in.maps[k].shown
  BY <1>2
<1>5. PICK w \in Path : w = WithExtension(p, e)
  BY WithExtensionShape
<1>6. PICK q \in Path : q = Number(in, n)
  BY ConvertedNumber
<1>7. Folders(q) = {} /\ i \in Nat
  BY <1>6, ConvertedNumber, InputFacts
<1>8. PICK c \in BOOLEAN : c = TRUE
  OBVIOUS
<1>9. MappedRow(in, k, n) = RowOf(i, c, w, q)
  BY <1>1, <1>3, <1>4, <1>5, <1>6, <1>8 DEF MappedRow
<1>10. FileRow(RowOf(i, c, w, q)) /\ RowOf(i, c, w, q).source = i /\ RowOf(i, c, w, q).converted = c
  BY <1>7, RowOfShape
<1> QED
  BY <1>8, <1>9, <1>10

\* Every hinted file has a converted row.
LEMMA ConvertedRowsShape ==
  ASSUME NEW in \in Inputs, NEW f \in 0..Len(in.checkpoints)
  PROVE  /\ FileRows(ConvertedRows(in, f))
         /\ \A i \in Positions(in) : Hinted(in, i) => Has(ConvertedRows(in, f), i, TRUE)
<1> DEFINE A == Alone(in, f)
           M == Mapped(in, f)
           alone == Ascending(A)
           mapped == Ascending(M)
           first == [n \in DOMAIN alone |-> AloneRow(in, alone[n], n)]
           second == [n \in DOMAIN mapped |-> MappedRow(in, mapped[n], Len(alone) + n)]
<1>1. PICK a \in Nat, b \in Nat : a = Len(in.entries) /\ b = Len(in.maps)
  BY InputFacts
<1>2. PICK m \in 0..Len(in.maps) : DOMAIN Mappings(in, f) = 1..m
  BY MappingFacts
<1>3. m \in 0..b
  BY <1>1, <1>2
<1>4. IsFiniteSet(1..a) /\ Cardinality(1..a) = a /\ IsFiniteSet(1..m) /\ Cardinality(1..m) = m
  <2>1. IsFiniteSet(1..a) /\ Cardinality(1..a) = a
    BY FS_Interval
  <2>2. IsFiniteSet(1..m) /\ Cardinality(1..m) = m
    BY <1>3, FS_Interval
  <2> QED
    BY <2>1, <2>2
<1>5. A \in SUBSET (1..a) /\ M \in SUBSET (1..m)
  BY <1>1, <1>2 DEF Alone, Mapped, Positions
<1>6. /\ IsFiniteSet(A) /\ Cardinality(A) <= a /\ IsFiniteSet(M) /\ Cardinality(M) <= m
      /\ A \in SUBSET Nat /\ M \in SUBSET Nat
  <2>1. IsFiniteSet(A) /\ Cardinality(A) <= a
    BY <1>4, <1>5, FS_Subset
  <2>2. IsFiniteSet(M) /\ Cardinality(M) <= m
    BY <1>4, <1>5, FS_Subset
  <2> QED
    BY <1>3, <1>5, <2>1, <2>2
<1>7. alone \in Seq(A) /\ Len(alone) <= a /\ \A x \in A : \E n \in 1..Len(alone) : alone[n] = x
  BY <1>6, AscendingLists
<1>8. mapped \in Seq(M) /\ Len(mapped) <= m /\ \A x \in M : \E n \in 1..Len(mapped) : mapped[n] = x
  BY <1>6, AscendingLists
<1>9. ConvertedRows(in, f) = first \o second
  BY DEF ConvertedRows
<1>10. \A i \in A : i \in Positions(in) /\ Hinted(in, i)
  BY DEF Alone
<1>11. \A k \in M : k \in 1..Len(in.maps) /\
                    \E i \in Positions(in) : IsTarget(in, in.maps[k], i) /\ Hinted(in, i)
  BY <1>1, <1>2, <1>3 DEF Mapped
<1> HIDE DEF alone, mapped
<1>12. /\ Len(alone) \in Nat /\ DOMAIN alone = 1..Len(alone) /\ \A n \in 1..Len(alone) : alone[n] \in A
       /\ Len(mapped) \in Nat /\ DOMAIN mapped = 1..Len(mapped)
       /\ \A n \in 1..Len(mapped) : mapped[n] \in M
  <2>1. Len(alone) \in Nat /\ DOMAIN alone = 1..Len(alone) /\ \A n \in 1..Len(alone) : alone[n] \in A
    BY <1>7
  <2>2. Len(mapped) \in Nat /\ DOMAIN mapped = 1..Len(mapped) /\ \A n \in 1..Len(mapped) : mapped[n] \in M
    BY <1>8
  <2> QED
    BY <2>1, <2>2
<1> HIDE DEF A, M
<1>13. ASSUME NEW n \in 1..Len(alone)
       PROVE  first[n].source = alone[n] /\ first[n].converted = TRUE /\ FileRow(first[n])
  <2>1. PICK i \in Positions(in) : i = alone[n] /\ Hinted(in, i)
    BY <1>10, <1>12
  <2>2. PICK k \in 1..(Len(in.entries) + Len(in.maps)) : k = n
    <3>1. Len(alone) \in Nat /\ Len(alone) <= a
      BY <1>7, <1>12
    <3>2. n \in 1..(a + b)
      BY <3>1
    <3> QED
      BY <1>1, <3>2
  <2>3. first[n] = AloneRow(in, i, k)
    BY <1>12, <2>1, <2>2
  <2>4. Hinted(in, i)
    BY <2>1
  <2>5. FileRow(AloneRow(in, i, k)) /\ AloneRow(in, i, k).source = i /\ AloneRow(in, i, k).converted = TRUE
    BY <2>4, AloneRowShape
  <2> QED
    BY <2>1, <2>3, <2>5
<1>14. ASSUME NEW n \in 1..Len(mapped)
       PROVE  /\ IsTarget(in, in.maps[mapped[n]], second[n].source)
              /\ second[n].converted = TRUE /\ FileRow(second[n])
  <2>1. PICK k \in 1..Len(in.maps) : k = mapped[n]
    BY <1>11, <1>12
  <2>2. PICK i \in Positions(in) : IsTarget(in, in.maps[k], i) /\ Hinted(in, i)
    BY <1>11, <1>12, <2>1
  <2>3. PICK j \in 1..(Len(in.entries) + Len(in.maps)) : j = Len(alone) + n
    <3>1. Len(alone) \in Nat /\ Len(alone) <= a /\ Len(mapped) \in Nat /\ Len(mapped) <= m
      BY <1>7, <1>8, <1>12
    <3>2. Len(alone) + n \in 1..(a + b)
      BY <1>3, <3>1
    <3> QED
      BY <1>1, <3>2
  <2>4. second[n] = MappedRow(in, k, j)
    BY <1>12, <2>1, <2>3
  <2>5. IsTarget(in, in.maps[k], i) /\ Hinted(in, i)
    BY <2>2
  <2>6. FileRow(MappedRow(in, k, j)) /\ MappedRow(in, k, j).source = i /\ MappedRow(in, k, j).converted = TRUE
    BY <2>5, MappedRowShape
  <2> QED
    BY <2>1, <2>2, <2>4, <2>6
<1>15. FileRows(first) /\ Len(first) = Len(alone)
  <2>1. first \in [1..Len(alone) -> RowType]
    BY <1>12, <1>13 DEF FileRow
  <2>2. first \in Seq(RowType) /\ Len(first) = Len(alone)
    BY <1>12, <2>1
  <2> QED
    BY <1>13, <2>2 DEF FileRows
<1>16. FileRows(second) /\ Len(second) = Len(mapped)
  <2>1. second \in [1..Len(mapped) -> RowType]
    BY <1>12, <1>14 DEF FileRow
  <2>2. second \in Seq(RowType) /\ Len(second) = Len(mapped)
    BY <1>12, <2>1
  <2> QED
    BY <1>14, <2>2 DEF FileRows
<1>17. ASSUME NEW i \in Positions(in), Hinted(in, i) PROVE Has(first, i, TRUE) \/ Has(second, i, TRUE)
  <2>1. CASE MappingsTo(in, f, i) = {}
    <3>1. i \in A
      BY <1>17, <2>1 DEF Alone, A
    <3> QED
      BY <1>7, <1>13, <1>15, <3>1 DEF Has, alone, A
  <2>2. CASE MappingsTo(in, f, i) # {}
    <3>1. PICK k \in DOMAIN Mappings(in, f) : IsTarget(in, in.maps[k], i)
      BY <2>2 DEF MappingsTo
    <3>2. k \in M
      BY <1>17, <3>1 DEF Mapped, M
    <3>3. PICK n \in 1..Len(mapped) : mapped[n] = k
      BY <1>8, <3>2 DEF mapped, M
    <3>4. IsTarget(in, in.maps[k], second[n].source) /\ second[n].converted = TRUE
      BY <1>14, <3>3
    <3>5. second[n].source = i
      BY <3>1, <3>4 DEF IsTarget
    <3> QED
      BY <1>16, <3>4, <3>5 DEF Has
  <2> QED
    BY <2>1, <2>2
<1> HIDE DEF first, second
<1> QED
  BY <1>9, <1>15, <1>16, <1>17, Joined

\* Every file of the pack has its row, raw or converted as its hint says.
LEMMA AllRowsShape ==
  ASSUME NEW in \in Inputs, NEW f \in 0..Len(in.checkpoints)
  PROVE  /\ FileRows(AllRows(in, f))
         /\ \A i \in Positions(in) : IsFile(in, i) => Has(AllRows(in, f), i, Hinted(in, i))
<1>1. PICK a : a = RawRows(in, f)
  OBVIOUS
<1>2. PICK b : b = ConvertedRows(in, f)
  OBVIOUS
<1>3. FileRows(a) /\ FileRows(b)
  BY <1>1, <1>2, RawRowsShape, ConvertedRowsShape
<1>4. FileRows(a \o b) /\ \A i, c : Has(a, i, c) \/ Has(b, i, c) => Has(a \o b, i, c)
  BY <1>3, Joined
<1>5. AllRows(in, f) = a \o b
  BY <1>1, <1>2 DEF AllRows
<1>6. ASSUME NEW i \in Positions(in), IsFile(in, i) PROVE Has(a \o b, i, Hinted(in, i))
  <2>1. CASE Hinted(in, i) = FALSE
    BY <1>1, <1>4, <1>6, <2>1, RawRowsShape
  <2>2. CASE Hinted(in, i) = TRUE
    BY <1>2, <1>4, <1>6, <2>2, ConvertedRowsShape
  <2> QED
    BY <2>1, <2>2 DEF Hinted
<1> QED
  BY <1>4, <1>5, <1>6

-----------------------------------------------------------------------------
(***************************************************************************)
(* The strengthening.  Typed: what is tried is a name of the row at hand,  *)
(* and a build starts from nothing.  Placed: a name in the tree is taken,  *)
(* is no folder, and has its folders among dirs; so have the rows still to *)
(* come.  Searched: the memory of suffixes skips taken candidates only.    *)
(* Renames: the map agrees with the tree, and is shown after everything    *)
(* that can enter it.  Kept: every file is in the tree or still to come.   *)
(***************************************************************************)
EntryType == [path : Path, source : Nat, converted : BOOLEAN, kind : {"file", "removals", "map"}]

Fresh ==
  /\ stage = "files" /\ rows = <<>> /\ files = {} /\ dirs = {} /\ memo = <<>> /\ entries = <<>>
  /\ renamed = {}

Typed ==
  /\ TypeOK
  /\ fragments <= Len(input.checkpoints)
  /\ entries \in Seq(EntryType)
  /\ \A k \in DOMAIN memo : k \in Path /\ memo[k] \in Nat
  /\ pc = "try" => rows # <<>> /\ base \in {rows[1].effective, rows[1].fallback}
  /\ pc = "build" => Fresh
  /\ pc # "done" => result = "none"

Placed ==
  /\ \A n \in 1..Len(entries) :
       /\ Fold(entries[n].path) \in files \ dirs
       /\ Folders(entries[n].path) \subseteq dirs
  /\ \A m, n \in 1..Len(entries) : m # n => Fold(entries[m].path) # Fold(entries[n].path)
  /\ \A n \in 1..Len(rows) :
       Folders(rows[n].effective) \subseteq dirs /\ Folders(rows[n].fallback) \subseteq dirs

Searched ==
  /\ \A k \in DOMAIN memo : \A n \in 0..(memo[k] - 1) : Candidate(k, n) \in files \cup dirs
  /\ pc = "try" => \A n \in 0..(counter - 1) : Candidate(Fold(base), n) \in files \cup dirs

RowsRenamed ==
  {[source |-> entries[n].source, path |-> entries[n].path] :
     n \in {m \in 1..Len(entries) : entries[m].kind = "file" /\ ~IsOwnName(entries[m], entries[m].path)}}

MapShown == \E n \in 1..Len(entries) : entries[n].kind = "map"

KindOf(st) == IF st = "files" THEN "file" ELSE st

Renames ==
  /\ \A n \in 1..Len(rows) : rows[n].kind = KindOf(stage)
  /\ renamed = RowsRenamed
  /\ stage # "map" => ~MapShown
  /\ stage = "map" => (renamed # {} <=> MapShown \/ rows # <<>>)
  /\ result = "tree" => stage = "map" /\ rows = <<>>

Listing == pc \in {"next", "try"} \/ result = "tree"

Kept ==
  Listing =>
    /\ \A i \in Positions(input) :
         IsFile(input, i) => \/ Has(entries, i, Hinted(input, i))
                             \/ Has(rows, i, Hinted(input, i))
    /\ stage # "files" /\ Removals(input) # {} =>
         \/ \E n \in 1..Len(entries) : entries[n].kind = "removals"
         \/ \E n \in 1..Len(rows) : rows[n].kind = "removals"

IndInv == Typed /\ Placed /\ Searched /\ Renames /\ Kept /\ AliasesNeverLoseTheListing

-----------------------------------------------------------------------------
\* What is left of a sequence without its head.
LEMMA TailFacts ==
  ASSUME NEW T, NEW s \in Seq(T), s # <<>>
  PROVE  /\ Head(s) = s[1] /\ s[1] \in T /\ Len(s) \in Nat \ {0}
         /\ Tail(s) \in Seq(T) /\ Len(Tail(s)) = Len(s) - 1
         /\ \A n \in 1..(Len(s) - 1) : Tail(s)[n] = s[n + 1]
OBVIOUS

\* What a sequence is with one more member.
LEMMA AppendFacts ==
  ASSUME NEW T, NEW s \in Seq(T), NEW e \in T
  PROVE  /\ Append(s, e) \in Seq(T) /\ Len(s) \in Nat /\ Len(Append(s, e)) = Len(s) + 1
         /\ \A n \in 1..Len(s) : Append(s, e)[n] = s[n]
         /\ Append(s, e)[Len(s) + 1] = e
OBVIOUS

\* Nothing is placed, renamed or tried before the first build, or in a retry.
Anew ==
  /\ Fresh /\ pc = "build" /\ result = "none" /\ input \in Inputs
  /\ fragments \in 0..Len(input.checkpoints) /\ counter \in Nat

\* Starting anew is sound whatever was tried before.
LEMMA FreshIsSound == Anew => IndInv
<1> SUFFICES ASSUME Anew PROVE IndInv
  OBVIOUS
<1> USE DEF Anew
<1>1. rows = <<>> /\ entries = <<>> /\ memo = <<>> /\ renamed = {} /\ stage = "files"
  BY DEF Fresh
<1>2. <<>> \in Seq(RowType) /\ <<>> \in Seq(EntryType) /\ Len(<<>>) = 0 /\ DOMAIN <<>> = {}
  OBVIOUS
<1>3. rows \in Seq(RowType) /\ entries \in Seq(EntryType) /\ Len(rows) = 0 /\ Len(entries) = 0
      /\ DOMAIN memo = {}
  BY <1>1, <1>2
<1>4. fragments \in Nat /\ fragments <= Len(input.checkpoints)
  <2>1. PICK in \in Inputs : in = input
    OBVIOUS
  <2>2. Len(in.checkpoints) \in Nat /\ fragments \in 0..Len(in.checkpoints)
    BY <2>1, InputFacts
  <2> QED
    BY <2>1, <2>2
<1>5. Typed
  BY <1>1, <1>3, <1>4 DEF Typed, TypeOK
<1>6. Placed /\ Searched
  BY <1>3 DEF Placed, Searched
<1>7. RowsRenamed = {} /\ ~MapShown
  BY <1>3 DEF RowsRenamed, MapShown
<1>8. Renames /\ Kept /\ AliasesNeverLoseTheListing
  BY <1>1, <1>3, <1>7 DEF Renames, Kept, Listing, AliasesNeverLoseTheListing
<1> QED
  BY <1>5, <1>6, <1>8 DEF IndInv

\* A listing starts with all fragments and nothing placed.
LEMMA InitEstablishes == Init => IndInv
<1> SUFFICES ASSUME Init PROVE IndInv
  OBVIOUS
<1>1. Fresh /\ pc = "build" /\ result = "none" /\ input \in Inputs /\ counter = 0
  BY DEF Init, Fresh
<1>2. PICK in \in Inputs : in = input
  BY <1>1
<1>3. Len(in.checkpoints) \in Nat
  BY InputFacts
<1>4. fragments \in 0..Len(input.checkpoints)
  BY <1>2, <1>3 DEF Init
<1> QED
  BY <1>1, <1>4, FreshIsSound DEF Anew

\* The rows and their folders are what the mappings in use give.
LEMMA BuildKeeps ==
  ASSUME IndInv, Build
  PROVE  IndInv'
<1>1. /\ UNCHANGED <<input, fragments, stage, base, counter, files, memo, entries, renamed>>
      /\ pc = "build" /\ Fresh /\ result = "none" /\ Typed
  BY DEF Build, IndInv, Typed
<1>2. PICK in \in Inputs : in = input
  BY <1>1 DEF Typed, TypeOK
<1>3. PICK f \in 0..Len(in.checkpoints) : f = fragments
  <2>1. fragments \in Nat /\ fragments <= Len(in.checkpoints)
    BY <1>1, <1>2 DEF Typed, TypeOK
  <2>2. Len(in.checkpoints) \in Nat
    BY InputFacts
  <2> QED
    BY <2>1, <2>2
<1>4. entries = <<>> /\ Len(entries) = 0 /\ memo = <<>> /\ DOMAIN memo = {} /\ renamed = {} /\ rows = <<>>
      /\ stage = "files" /\ Len(rows) = 0 /\ rows \in Seq(RowType) /\ entries \in Seq(EntryType)
  BY <1>1 DEF Fresh, Typed, TypeOK
<1>5. CASE pc' = "done" /\ result' = "tree_error" /\ UNCHANGED <<rows, dirs>>
  <2>1. Typed'
    BY <1>1, <1>5 DEF Typed, TypeOK
  <2>2. Placed' /\ Searched'
    BY <1>1, <1>4, <1>5 DEF Placed, Searched
  <2>3. Renames'
    BY <1>1, <1>4, <1>5 DEF IndInv, Renames, RowsRenamed, MapShown, IsOwnName
  <2>4. Kept' /\ AliasesNeverLoseTheListing'
    BY <1>5 DEF Kept, Listing, AliasesNeverLoseTheListing
  <2> QED
    BY <2>1, <2>2, <2>3, <2>4 DEF IndInv
<1>6. CASE /\ rows' = AllRows(input, fragments)
           /\ dirs' = UNION {{Fold(d) : d \in Ancestors(rows'[n].effective)} : n \in DOMAIN rows'}
           /\ pc' = "next" /\ UNCHANGED result
  <2>1. PICK rs : rs = AllRows(in, f)
    OBVIOUS
  <2>2. FileRows(rs) /\ \A i \in Positions(in) : IsFile(in, i) => Has(rs, i, Hinted(in, i))
    BY <2>1, AllRowsShape
  <2>3. rows' = rs
    BY <1>2, <1>3, <1>6, <2>1
  <2>4. rs \in Seq(RowType) /\ DOMAIN rs = 1..Len(rs)
    BY <2>2 DEF FileRows
  <2>5. Typed'
    BY <1>1, <1>4, <1>6, <2>3, <2>4 DEF Typed, TypeOK
  <2>6. \A n \in 1..Len(rs) : Folders(rs[n].effective) \subseteq dirs'
    BY <1>6, <2>3, <2>4 DEF Folders
  <2>7. \A n \in 1..Len(rs) : Folders(rs[n].fallback) = {} /\ rs[n].kind = "file"
    BY <2>2 DEF FileRows, FileRow
  <2>8. Placed'
    BY <1>1, <1>4, <2>3, <2>6, <2>7 DEF Placed
  <2>9. Searched'
    BY <1>1, <1>4, <1>6 DEF Searched
  <2>10. RowsRenamed' = {} /\ ~MapShown'
    BY <1>1, <1>4 DEF RowsRenamed, MapShown
  <2>11. Renames'
    BY <1>1, <1>4, <1>6, <2>3, <2>7, <2>10 DEF Renames, KindOf
  <2>12. Kept'
    BY <1>1, <1>2, <1>4, <2>2, <2>3 DEF Kept
  <2>13. AliasesNeverLoseTheListing'
    BY <1>1, <1>6 DEF AliasesNeverLoseTheListing
  <2> QED
    BY <2>5, <2>8, <2>9, <2>11, <2>12, <2>13 DEF IndInv
<1> QED
  BY <1>5, <1>6 DEF Build, Failed

\* A breach starts over with fewer fragments, or ends without any.
LEMMA BudgetBreachKeeps ==
  ASSUME IndInv, BudgetBreach
  PROVE  IndInv'
<1>1. input' = input /\ pc # "done" /\ result = "none" /\ Typed
  BY DEF BudgetBreach, IndInv, Typed
<1>2. PICK in \in Inputs : in = input
  BY <1>1 DEF Typed, TypeOK
<1>3. Len(in.checkpoints) \in Nat
  BY InputFacts
<1>4. CASE fragments = 0
  <2>1. /\ UNCHANGED <<fragments, stage, rows, base, counter, dirs, files, memo, entries, renamed>>
        /\ pc' = "done" /\ result' = "tree_budget_error"
    BY <1>4 DEF BudgetBreach, Failed
  <2>2. Typed'
    BY <1>1, <2>1 DEF Typed, TypeOK
  <2>3. Placed' /\ Searched'
    BY <2>1 DEF IndInv, Placed, Searched
  <2>4. Renames'
    BY <1>1, <2>1 DEF IndInv, Renames, RowsRenamed, MapShown, IsOwnName
  <2>5. Kept' /\ AliasesNeverLoseTheListing'
    BY <1>4, <2>1 DEF Kept, Listing, AliasesNeverLoseTheListing
  <2> QED
    BY <2>2, <2>3, <2>4, <2>5 DEF IndInv
<1>5. CASE fragments # 0
  <2>1. Fresh' /\ pc' = "build" /\ result' = "none" /\ input' \in Inputs /\ counter' \in Nat
    BY <1>1, <1>5 DEF BudgetBreach, Fresh, Typed, TypeOK
  <2>2. fragments \in Nat /\ fragments <= Len(in.checkpoints) /\ fragments' = fragments \div 2
    BY <1>1, <1>2, <1>5 DEF BudgetBreach, Typed, TypeOK
  <2>3. fragments' \in 0..Len(in.checkpoints)
    BY <1>3, <2>2
  <2>4. fragments' \in 0..Len(input'.checkpoints)
    BY <1>1, <1>2, <2>3
  <2>5. Anew'
    BY <2>1, <2>4 DEF Anew
  <2>6. Anew' => IndInv'
    BY FreshIsSound, PTL
  <2> QED
    BY <2>5, <2>6
<1> QED
  BY <1>4, <1>5

\* The search for a name starts behind candidates that are taken.
LEMMA StartSkipsTaken ==
  ASSUME IndInv, NEW p \in Path, Start(p)
  PROVE  /\ base' = p /\ counter' \in Nat
         /\ \A n \in 0..(counter' - 1) : Candidate(Fold(p), n) \in files \cup dirs
<1>1. base' = p /\ counter' = IF Fold(p) \in DOMAIN memo THEN memo[Fold(p)] ELSE 0
  BY DEF Start, Remembered
<1>2. CASE Fold(p) \in DOMAIN memo
  BY <1>1, <1>2 DEF IndInv, Typed, Searched
<1>3. CASE Fold(p) \notin DOMAIN memo
  BY <1>1, <1>3
<1> QED
  BY <1>1, <1>2, <1>3

\* The row at hand.
LEMMA RowAtHand ==
  ASSUME IndInv, rows # <<>>
  PROVE  /\ Head(rows) = rows[1] /\ rows[1] \in RowType /\ 1 \in 1..Len(rows) /\ Len(rows) \in Nat
         /\ rows[1].effective \in Path /\ rows[1].fallback \in Path
<1>1. rows \in Seq(RowType)
  BY DEF IndInv, Typed, TypeOK
<1>2. Head(rows) = rows[1] /\ rows[1] \in RowType /\ Len(rows) \in Nat \ {0}
  BY <1>1, TailFacts
<1> QED
  BY <1>2 DEF RowType

\* A step that places nothing keeps what is placed, renamed and kept.
LEMMA NothingPlaced ==
  ASSUME IndInv, UNCHANGED <<input, fragments, stage, rows, dirs, files, memo, entries, renamed>>,
         pc \in {"next", "try"}, \/ pc' \in {"next", "try"} /\ result' = result
                                 \/ pc' = "done" /\ result' = "tree_error"
                                 \/ pc' = "done" /\ result' = "tree" /\ rows = <<>> /\ stage = "map"
  PROVE  Placed' /\ Renames' /\ Kept' /\ AliasesNeverLoseTheListing'
<1>1. result = "none"
  BY DEF IndInv, Typed
<1>2. Placed'
  BY DEF IndInv, Placed
<1>3. Renames'
  BY <1>1 DEF IndInv, Renames, RowsRenamed, MapShown, IsOwnName
<1>4. Kept'
  <2>1. Listing
    BY DEF Listing
  <2> QED
    BY <2>1 DEF IndInv, Kept
<1>5. AliasesNeverLoseTheListing'
  BY <1>1 DEF AliasesNeverLoseTheListing
<1> QED
  BY <1>2, <1>3, <1>4, <1>5

\* Trying the next row's own name keeps the invariant.
LEMMA NextRowKeeps ==
  ASSUME IndInv, NextRow
  PROVE  IndInv'
<1>1. /\ UNCHANGED <<input, fragments, stage, rows, dirs, files, memo, entries, renamed, result>>
      /\ pc = "next" /\ pc' = "try" /\ rows # <<>> /\ Start(Head(rows).effective)
  BY DEF NextRow
<1>2. PICK p \in Path : p = Head(rows).effective /\ p = rows[1].effective
  BY <1>1, RowAtHand
<1>3. base' = p /\ counter' \in Nat
      /\ \A n \in 0..(counter' - 1) : Candidate(Fold(p), n) \in files \cup dirs
  BY <1>1, <1>2, StartSkipsTaken
<1>4. Typed'
  BY <1>1, <1>2, <1>3 DEF IndInv, Typed, TypeOK
<1>5. Searched'
  BY <1>1, <1>3 DEF IndInv, Searched
<1> QED
  BY <1>1, <1>4, <1>5, NothingPlaced DEF IndInv

\* A taken candidate is skipped.
LEMMA NameTakenKeeps ==
  ASSUME IndInv, NameTaken
  PROVE  IndInv'
<1>1. /\ UNCHANGED <<input, fragments, pc, stage, rows, base, dirs, files, memo, entries, renamed, result>>
      /\ pc = "try" /\ counter' = counter + 1 /\ Taken(Candidate(base, counter))
  BY DEF NameTaken
<1>2. counter \in Nat /\ rows # <<>> /\ base \in {rows[1].effective, rows[1].fallback}
  BY <1>1 DEF IndInv, Typed, TypeOK
<1>3. PICK p \in Path, c \in Nat : p = base /\ c = counter
  BY <1>2, RowAtHand
<1>4. Candidate(Fold(p), c) \in files \cup dirs
  BY <1>1, <1>3, CandidateShape DEF Taken
<1>5. \A n \in 0..(counter' - 1) : Candidate(Fold(base), n) \in files \cup dirs
  <2>1. \A n \in 0..(counter' - 1) : n = counter \/ n \in 0..(counter - 1)
    BY <1>1, <1>2
  <2> QED
    BY <1>1, <1>3, <1>4, <2>1 DEF IndInv, Searched
<1>6. Typed'
  BY <1>1, <1>2 DEF IndInv, Typed, TypeOK
<1>7. Searched'
  BY <1>1, <1>5 DEF IndInv, Searched
<1> QED
  BY <1>1, <1>6, <1>7, NothingPlaced DEF IndInv

\* A name that does not fit gives way to the row's number, or the tree fails.
LEMMA NameTooLongKeeps ==
  ASSUME IndInv, NameTooLong
  PROVE  IndInv'
<1>1. /\ UNCHANGED <<input, fragments, stage, rows, dirs, files, memo, entries, renamed>>
      /\ pc = "try"
  BY DEF NameTooLong
<1>2. rows # <<>> /\ result = "none"
  BY <1>1 DEF IndInv, Typed
<1>3. CASE pc' = "done" /\ result' = "tree_error" /\ UNCHANGED <<base, counter>>
  <2>1. Typed' /\ Searched'
    BY <1>1, <1>2, <1>3 DEF IndInv, Typed, TypeOK, Searched
  <2> QED
    BY <1>1, <1>3, <2>1, NothingPlaced DEF IndInv
<1>4. CASE Start(Head(rows).fallback) /\ UNCHANGED <<pc, result>>
  <2>1. PICK p \in Path : p = Head(rows).fallback /\ p = rows[1].fallback
    BY <1>2, RowAtHand
  <2>2. base' = p /\ counter' \in Nat
        /\ \A n \in 0..(counter' - 1) : Candidate(Fold(p), n) \in files \cup dirs
    BY <1>4, <2>1, StartSkipsTaken
  <2>3. Typed'
    BY <1>1, <1>2, <1>4, <2>1, <2>2 DEF IndInv, Typed, TypeOK
  <2>4. Searched'
    BY <1>1, <1>4, <2>2 DEF IndInv, Searched
  <2> QED
    BY <1>1, <1>4, <2>3, <2>4, NothingPlaced DEF IndInv
<1> QED
  BY <1>3, <1>4 DEF NameTooLong, Failed

\* A tree is done when no row is left, the map's included.
LEMMA TreeDoneKeeps ==
  ASSUME IndInv, TreeDone
  PROVE  IndInv'
<1>1. /\ UNCHANGED <<input, fragments, stage, rows, base, counter, dirs, files, memo, entries, renamed>>
      /\ pc = "next" /\ rows = <<>> /\ stage = "map" /\ pc' = "done" /\ result' = "tree"
  BY DEF TreeDone, Failed
<1>2. Typed' /\ Searched'
  BY <1>1 DEF IndInv, Typed, TypeOK, Searched
<1> QED
  BY <1>1, <1>2, NothingPlaced DEF IndInv

\* A generated row needs no folder, and comes after every row it tells about.
LEMMA GeneratedShape ==
  ASSUME NEW kind \in {"removals", "map"}, NEW stem \in Stems, NEW number \in Stems
  PROVE  /\ Generated(kind, stem, number) \in RowType
         /\ Generated(kind, stem, number).kind = kind
         /\ Folders(Generated(kind, stem, number).effective) = {}
         /\ Folders(Generated(kind, stem, number).fallback) = {}
<1>1. PICK e \in Extensions, t \in Extensions : e = "" /\ t = ".tsv"
  BY TreeAssumption
<1>2. /\ Named(stem, t) \in Path /\ Folders(Named(stem, t)) = {}
      /\ Named(number, e) \in Path /\ Folders(Named(number, e)) = {}
  BY NamedShape
<1>3. Generated(kind, stem, number) =
        [source |-> 0, converted |-> FALSE, kind |-> kind, effective |-> Named(stem, t),
         fallback |-> Named(number, e)]
  BY <1>1 DEF Generated
<1> QED
  BY <1>2, <1>3 DEF RowType

\* A list of one row.
LEMMA OneRow ==
  ASSUME NEW r \in RowType
  PROVE  <<r>> \in Seq(RowType) /\ Len(<<r>>) = 1 /\ <<r>>[1] = r /\ <<r>> # <<>>
OBVIOUS

\* The removals follow the files, and the map follows the removals.
LEMMA GeneratedRowsKeep ==
  ASSUME IndInv, GeneratedRows
  PROVE  IndInv'
<1>1. /\ UNCHANGED <<input, fragments, pc, base, counter, dirs, files, memo, entries, renamed, result>>
      /\ pc = "next" /\ rows = <<>> /\ result = "none"
  BY DEF GeneratedRows, IndInv, Typed
<1>2. rows \in Seq(RowType) /\ Len(rows) = 0 /\ <<>> \in Seq(RowType) /\ Len(<<>>) = 0
  BY <1>1
<1>3. PICK kind \in {"removals", "map"} :
        /\ stage' = kind /\ stage = (IF kind = "map" THEN "removals" ELSE "files")
        /\ rows' = <<>> \/ /\ Len(rows') = 1 /\ rows' \in Seq(RowType) /\ rows' # <<>>
                           /\ rows'[1].kind = kind /\ Folders(rows'[1].effective) = {}
                           /\ Folders(rows'[1].fallback) = {}
        /\ kind = "removals" => (rows' = <<>> <=> Removals(input) = {})
        /\ kind = "map" => (rows' = <<>> <=> renamed = {})
  <2>1. CASE /\ stage = "files" /\ stage' = "removals"
             /\ rows' = IF Removals(input) = {} THEN <<>>
                        ELSE <<Generated("removals", "patch-removals", "r")>>
    <3>1. PICK k \in {"removals", "map"}, a \in Stems, b \in Stems :
            k = "removals" /\ a = "patch-removals" /\ b = "r"
      BY TreeAssumption
    <3>2. PICK r \in RowType : /\ r = Generated("removals", "patch-removals", "r")
                               /\ r.kind = "removals" /\ Folders(r.effective) = {}
                               /\ Folders(r.fallback) = {}
      BY <3>1, GeneratedShape
    <3> QED
      BY <2>1, <3>2, OneRow
  <2>2. CASE /\ stage = "removals" /\ stage' = "map"
             /\ rows' = IF renamed = {} THEN <<>> ELSE <<Generated("map", "name-map", "n")>>
    <3>1. PICK k \in {"removals", "map"}, a \in Stems, b \in Stems :
            k = "map" /\ a = "name-map" /\ b = "n"
      BY TreeAssumption
    <3>2. PICK r \in RowType : /\ r = Generated("map", "name-map", "n")
                               /\ r.kind = "map" /\ Folders(r.effective) = {}
                               /\ Folders(r.fallback) = {}
      BY <3>1, GeneratedShape
    <3> QED
      BY <2>2, <3>2, OneRow
  <2> QED
    BY <2>1, <2>2 DEF GeneratedRows
<1>4. rows' \in Seq(RowType)
  BY <1>2, <1>3
<1>5. \A n \in 1..Len(rows') : /\ rows'[n].kind = stage' /\ Folders(rows'[n].effective) = {}
                               /\ Folders(rows'[n].fallback) = {}
  BY <1>2, <1>3
<1>6. Typed'
  BY <1>1, <1>3, <1>4 DEF IndInv, Typed, TypeOK
<1>7. Placed'
  BY <1>1, <1>5 DEF IndInv, Placed
<1>8. Searched'
  BY <1>1 DEF IndInv, Searched
<1>9. stage' # "files" /\ stage # "map"
  BY <1>3
<1>10. RowsRenamed' = RowsRenamed /\ MapShown' = MapShown /\ ~MapShown
  BY <1>1, <1>9 DEF IndInv, Renames, RowsRenamed, MapShown, IsOwnName
<1>11. Renames'
  <2>1. \A n \in 1..Len(rows') : rows'[n].kind = KindOf(stage')
    BY <1>5, <1>9 DEF KindOf
  <2>2. stage' = "map" => (renamed # {} <=> rows' # <<>>)
    BY <1>3
  <2> QED
    BY <1>1, <1>10, <2>1, <2>2 DEF IndInv, Renames
<1>12. Kept'
  <2>1. \A i \in Positions(input) : IsFile(input, i) => Has(entries, i, Hinted(input, i))
    BY <1>1, <1>2 DEF IndInv, Kept, Listing, Has
  <2>2. CASE stage' = "removals"
    <3>1. Removals(input) # {} => Len(rows') = 1 /\ rows'[1].kind = "removals"
      BY <1>3, <2>2
    <3> QED
      BY <1>1, <2>1, <3>1 DEF Kept
  <2>3. CASE stage' = "map"
    <3>1. Removals(input) # {} => \E n \in 1..Len(entries) : entries[n].kind = "removals"
      BY <1>1, <1>2, <1>3, <2>3 DEF IndInv, Kept, Listing
    <3> QED
      BY <1>1, <2>1, <3>1 DEF Kept
  <2> QED
    BY <1>3, <2>2, <2>3
<1>13. AliasesNeverLoseTheListing'
  BY <1>1 DEF AliasesNeverLoseTheListing
<1> QED
  BY <1>6, <1>7, <1>8, <1>11, <1>12, <1>13 DEF IndInv

\* What a free candidate is.
LEMMA FreeCandidate ==
  ASSUME IndInv, NameFree
  PROVE  \E path \in Path, k \in Path :
           /\ path = Candidate(base, counter) /\ k = Fold(base)
           /\ Fold(path) = Candidate(k, counter) /\ counter \in Nat
           /\ Fold(path) \notin files \cup dirs /\ Folders(path) \subseteq dirs
<1>1. pc = "try" /\ ~Taken(Candidate(base, counter))
  BY DEF NameFree
<1>2. counter \in Nat /\ rows # <<>> /\ base \in {rows[1].effective, rows[1].fallback}
  BY <1>1 DEF IndInv, Typed, TypeOK
<1>3. Folders(base) \subseteq dirs
  BY <1>2, RowAtHand DEF IndInv, Placed
<1>4. PICK p \in Path, c \in Nat : p = base /\ c = counter
  BY <1>2, RowAtHand
<1>5. Candidate(p, c) \in Path /\ Fold(Candidate(p, c)) = Candidate(Fold(p), c)
  BY CandidateShape
<1>6. Folders(Candidate(p, c)) = Folders(p)
  BY CandidateFolders
<1>7. PICK k \in Path : k = Fold(p)
  BY FoldShape
<1> QED
  BY <1>1, <1>2, <1>3, <1>4, <1>5, <1>6, <1>7 DEF Taken

\* The name is taken, and the memory of suffixes stays behind it.
LEMMA NameFreeSearches ==
  ASSUME IndInv, NameFree, pc' # "try"
  PROVE  Searched' /\ \A k \in DOMAIN memo' : k \in Path /\ memo'[k] \in Nat
<1>1. PICK path \in Path, k \in Path :
        /\ path = Candidate(base, counter) /\ k = Fold(base)
        /\ Fold(path) = Candidate(k, counter) /\ counter \in Nat
  BY FreeCandidate
<1>2. files' = files \cup {Fold(path)} /\ dirs' = dirs /\ Remember /\ pc = "try"
  BY <1>1 DEF NameFree
<1>3. \A j \in DOMAIN memo : /\ j \in Path /\ memo[j] \in Nat
                             /\ \A n \in 0..(memo[j] - 1) : Candidate(j, n) \in files \cup dirs
  BY DEF IndInv, Typed, Searched
<1>4. \A n \in 0..(counter - 1) : Candidate(k, n) \in files \cup dirs
  BY <1>1, <1>2 DEF IndInv, Searched
<1>5. CASE counter = 0
  <2>1. memo' = memo
    BY <1>2, <1>5 DEF Remember
  <2> QED
    BY <1>2, <1>3, <2>1 DEF Searched
<1>6. CASE counter # 0
  <2>1. memo' = [j \in DOMAIN memo \cup {k} |-> IF j = k THEN counter + 1 ELSE memo[j]]
    BY <1>1, <1>2, <1>6 DEF Remember
  <2>2. \A n \in 0..counter : Candidate(k, n) \in files' \cup dirs'
    <3>1. \A n \in 0..counter : n = counter \/ n \in 0..(counter - 1)
      BY <1>1
    <3> QED
      BY <1>1, <1>2, <1>4, <3>1
  <2>3. ASSUME NEW j \in DOMAIN memo'
        PROVE  /\ j \in Path /\ memo'[j] \in Nat
               /\ \A n \in 0..(memo'[j] - 1) : Candidate(j, n) \in files' \cup dirs'
    <3>1. CASE j = k
      <4>1. memo'[j] = counter + 1 /\ memo'[j] - 1 = counter
        BY <1>1, <2>1, <3>1
      <4> QED
        BY <1>1, <2>2, <3>1, <4>1
    <3>2. CASE j # k
      <4>1. j \in DOMAIN memo /\ memo'[j] = memo[j]
        BY <2>1, <3>2
      <4> QED
        BY <1>2, <1>3, <4>1
    <3> QED
      BY <3>1, <3>2
  <2> QED
    BY <2>3 DEF Searched
<1> QED
  BY <1>5, <1>6

\* A tree that is full fails, and shows what it had.
LEMMA FullTreeFails ==
  ASSUME IndInv, NameFree, pc' = "done", result' = "tree_error", UNCHANGED <<entries, renamed, rows>>
  PROVE  IndInv'
<1>1. UNCHANGED <<input, fragments, stage, base, counter, dirs>> /\ files \subseteq files' /\ pc = "try"
  BY DEF NameFree
<1>2. Searched' /\ \A k \in DOMAIN memo' : k \in Path /\ memo'[k] \in Nat
  BY NameFreeSearches
<1>3. Typed'
  BY <1>1, <1>2 DEF IndInv, Typed, TypeOK
<1>4. Placed'
  BY <1>1 DEF IndInv, Placed
<1>5. result = "none"
  BY <1>1 DEF IndInv, Typed
<1>6. Renames'
  BY <1>1, <1>5 DEF IndInv, Renames, RowsRenamed, MapShown, IsOwnName
<1>7. Kept' /\ AliasesNeverLoseTheListing'
  BY DEF Kept, Listing, AliasesNeverLoseTheListing
<1> QED
  BY <1>2, <1>3, <1>4, <1>6, <1>7 DEF IndInv

\* A row placed under a free candidate keeps the invariant.
LEMMA NamePlaced ==
  ASSUME IndInv, NameFree, NEW path \in Path, NEW row \in RowType,
         row = rows[1], Fold(path) \notin files \cup dirs, Folders(path) \subseteq dirs,
         files' = files \cup {Fold(path)}, pc' = "next", UNCHANGED result,
         entries' = Append(entries, [path |-> path, source |-> row.source,
                                     converted |-> row.converted, kind |-> row.kind]),
         renamed' = IF row.kind = "file" /\ ~IsOwnName(row, path)
                    THEN renamed \cup {[source |-> row.source, path |-> path]} ELSE renamed,
         rows' = Tail(rows)
  PROVE  IndInv'
<1> DEFINE e == [path |-> path, source |-> row.source, converted |-> row.converted, kind |-> row.kind]
           N == Len(entries) + 1
<1>1. UNCHANGED <<input, fragments, stage, base, counter, dirs>> /\ pc = "try"
  BY DEF NameFree
<1>2. rows # <<>> /\ result = "none" /\ rows \in Seq(RowType) /\ entries \in Seq(EntryType)
  BY <1>1 DEF IndInv, Typed, TypeOK
<1>3. e \in EntryType /\ e.path = path /\ e.source = row.source /\ e.converted = row.converted
      /\ e.kind = row.kind
  BY DEF EntryType, RowType
<1>4. /\ entries' \in Seq(EntryType) /\ Len(entries) \in Nat /\ Len(entries') = N
      /\ \A n \in 1..Len(entries) : entries'[n] = entries[n]
      /\ entries'[N] = e
  BY <1>2, <1>3, AppendFacts
<1> HIDE DEF e
<1>5. /\ rows' \in Seq(RowType) /\ Len(rows') = Len(rows) - 1 /\ Len(rows) \in Nat \ {0}
      /\ \A n \in 1..Len(rows') : rows'[n] = rows[n + 1] /\ n + 1 \in 1..Len(rows)
      /\ 1 \in 1..Len(rows)
  BY <1>2, TailFacts
<1>6. \A n \in 1..N : n = N \/ n \in 1..Len(entries)
  BY <1>4
<1>7. Searched' /\ \A k \in DOMAIN memo' : k \in Path /\ memo'[k] \in Nat
  BY NameFreeSearches
<1>8. Typed'
  BY <1>1, <1>2, <1>4, <1>5, <1>7 DEF IndInv, Typed, TypeOK
<1>9. Placed'
  <2>1. \A n \in 1..Len(entries') : /\ Fold(entries'[n].path) \in files' \ dirs'
                                    /\ Folders(entries'[n].path) \subseteq dirs'
    BY <1>1, <1>3, <1>4, <1>6 DEF IndInv, Placed
  <2>2. \A n \in 1..Len(entries) : Fold(entries[n].path) # Fold(path)
    BY DEF IndInv, Placed
  <2>3. \A m, n \in 1..Len(entries') : m # n => Fold(entries'[m].path) # Fold(entries'[n].path)
    <3> SUFFICES ASSUME NEW m \in 1..N, NEW n \in 1..N, m # n
                 PROVE  Fold(entries'[m].path) # Fold(entries'[n].path)
      BY <1>4
    <3>1. CASE m = N
      BY <1>3, <1>4, <1>6, <2>2, <3>1
    <3>2. CASE n = N
      BY <1>3, <1>4, <1>6, <2>2, <3>2
    <3>3. CASE m # N /\ n # N
      BY <1>4, <1>6, <3>3 DEF IndInv, Placed
    <3> QED
      BY <3>1, <3>2, <3>3
  <2>4. \A n \in 1..Len(rows') :
          Folders(rows'[n].effective) \subseteq dirs' /\ Folders(rows'[n].fallback) \subseteq dirs'
    BY <1>1, <1>5 DEF IndInv, Placed
  <2> QED
    BY <2>1, <2>3, <2>4 DEF Placed
<1>10. row.kind = KindOf(stage)
  BY <1>5 DEF IndInv, Renames
<1>11. Renames'
  <2>1. \A n \in 1..Len(rows') : rows'[n].kind = KindOf(stage')
    BY <1>1, <1>5 DEF IndInv, Renames
  <2>2. IsOwnName(e, path) = IsOwnName(row, path)
    BY <1>3 DEF IsOwnName
  <2>3. \A n \in 1..Len(entries) :
          IsOwnName(entries[n], entries[n].path)' = IsOwnName(entries[n], entries[n].path)
    BY <1>1, <1>4 DEF IsOwnName
  <2>4. PICK k \in Nat : k = N
    BY <1>4
  <2>5. IsOwnName(entries[k], entries[k].path)' = IsOwnName(row, path)
    <3>1. entries'[k].source = row.source /\ entries'[k].path = path
      BY <1>3, <1>4, <2>4
    <3> QED
      BY <1>1, <3>1 DEF IsOwnName
  <2>6. RowsRenamed' = IF row.kind = "file" /\ ~IsOwnName(row, path)
                       THEN RowsRenamed \cup {[source |-> row.source, path |-> path]} ELSE RowsRenamed
    <3> DEFINE Out(n) == entries[n].kind = "file" /\ ~IsOwnName(entries[n], entries[n].path)
               OutNow(n) == entries'[n].kind = "file" /\ ~IsOwnName(entries[n], entries[n].path)'
               Line(n) == [source |-> entries[n].source, path |-> entries[n].path]
               LineNow(n) == [source |-> entries'[n].source, path |-> entries'[n].path]
    <3>1. RowsRenamed = {Line(n) : n \in {m \in 1..Len(entries) : Out(m)}}
          /\ RowsRenamed' = {LineNow(n) : n \in {m \in 1..k : OutNow(m)}}
      BY <1>4, <2>4 DEF RowsRenamed
    <3>2. \A n \in 1..Len(entries) : (OutNow(n) <=> Out(n)) /\ LineNow(n) = Line(n)
      BY <1>4, <2>3
    <3>3. (OutNow(k) <=> row.kind = "file" /\ ~IsOwnName(row, path))
          /\ LineNow(k) = [source |-> row.source, path |-> path]
      BY <1>3, <1>4, <2>4, <2>5
    <3>4. \A n \in 1..k : n = k \/ n \in 1..Len(entries)
      BY <1>6, <2>4
    <3>5. k \in 1..k /\ \A n \in 1..Len(entries) : n \in 1..k
      BY <1>4, <2>4
    <3> HIDE DEF Out, OutNow, Line, LineNow
    <3> QED
      BY <3>1, <3>2, <3>3, <3>4, <3>5
  <2>7. renamed' = RowsRenamed'
    BY <2>6 DEF IndInv, Renames
  <2>8. MapShown' <=> MapShown \/ row.kind = "map"
    BY <1>3, <1>4, <1>6 DEF MapShown
  <2>9. stage \in {"files", "removals", "map"}
    BY DEF IndInv, Typed, TypeOK
  <2>10. stage' # "map" => ~MapShown'
    BY <1>1, <1>10, <2>8, <2>9 DEF IndInv, Renames, KindOf
  <2>11. stage' = "map" => (renamed' # {} <=> MapShown' \/ rows' # <<>>)
    BY <1>1, <1>2, <1>10, <2>8 DEF IndInv, Renames, KindOf
  <2> QED
    BY <1>2, <2>1, <2>7, <2>10, <2>11 DEF Renames
<1>12. Kept'
  <2>1. Listing
    BY <1>1 DEF Listing
  <2>2. \A n \in 1..Len(rows) : n = 1 \/ (n - 1 \in 1..Len(rows') /\ rows'[n - 1] = rows[n])
    <3> SUFFICES ASSUME NEW n \in 1..Len(rows), n # 1
                 PROVE  n - 1 \in 1..Len(rows') /\ rows'[n - 1] = rows[n]
      OBVIOUS
    <3>1. n - 1 \in 1..Len(rows') /\ (n - 1) + 1 = n
      BY <1>5
    <3> QED
      BY <1>5, <3>1
  <2>3. N \in 1..Len(entries') /\ \A n \in 1..Len(entries) : n \in 1..Len(entries')
    BY <1>4
  <2>4. ASSUME NEW i, NEW c, Has(entries, i, c) \/ Has(rows, i, c)
        PROVE  Has(entries', i, c) \/ Has(rows', i, c)
    <3>1. CASE Has(entries, i, c)
      BY <1>4, <2>3, <3>1 DEF Has
    <3>2. CASE Has(rows, i, c)
      <4>1. PICK n \in 1..Len(rows) : rows[n].source = i /\ rows[n].converted = c
        BY <3>2 DEF Has
      <4>2. CASE n = 1
        BY <1>3, <1>4, <2>3, <4>1, <4>2 DEF Has
      <4>3. CASE n # 1
        BY <2>2, <4>1, <4>3 DEF Has
      <4> QED
        BY <4>2, <4>3
    <3> QED
      BY <2>4, <3>1, <3>2
  <2>5. ASSUME \/ \E n \in 1..Len(entries) : entries[n].kind = "removals"
               \/ \E n \in 1..Len(rows) : rows[n].kind = "removals"
        PROVE  \/ \E n \in 1..Len(entries') : entries'[n].kind = "removals"
               \/ \E n \in 1..Len(rows') : rows'[n].kind = "removals"
    <3>1. CASE \E n \in 1..Len(entries) : entries[n].kind = "removals"
      BY <1>4, <2>3, <3>1
    <3>2. CASE \E n \in 1..Len(rows) : rows[n].kind = "removals"
      <4>1. PICK n \in 1..Len(rows) : rows[n].kind = "removals"
        BY <3>2
      <4>2. CASE n = 1
        BY <1>3, <1>4, <2>3, <4>1, <4>2
      <4>3. CASE n # 1
        BY <2>2, <4>1, <4>3
      <4> QED
        BY <4>2, <4>3
    <3> QED
      BY <2>5, <3>1, <3>2
  <2>6. \A i \in Positions(input) : IsFile(input, i) =>
          Has(entries', i, Hinted(input, i)) \/ Has(rows', i, Hinted(input, i))
    BY <2>1, <2>4 DEF IndInv, Kept
  <2>7. stage # "files" /\ Removals(input) # {} =>
          \/ \E n \in 1..Len(entries') : entries'[n].kind = "removals"
          \/ \E n \in 1..Len(rows') : rows'[n].kind = "removals"
    BY <2>1, <2>5 DEF IndInv, Kept
  <2> QED
    BY <1>1, <2>6, <2>7 DEF Kept
<1>13. AliasesNeverLoseTheListing'
  BY <1>2 DEF AliasesNeverLoseTheListing
<1> QED
  BY <1>7, <1>8, <1>9, <1>11, <1>12, <1>13 DEF IndInv

\* A free candidate is placed, or the full tree fails.
LEMMA NameFreeKeeps ==
  ASSUME IndInv, NameFree
  PROVE  IndInv'
<1>1. PICK path \in Path : /\ path = Candidate(base, counter)
                           /\ Fold(path) \notin files \cup dirs /\ Folders(path) \subseteq dirs
  BY FreeCandidate
<1>2. rows # <<>>
  BY DEF NameFree, IndInv, Typed
<1>3. PICK row \in RowType : row = rows[1] /\ row = Head(rows)
  BY <1>2, RowAtHand
<1>4. CASE pc' = "done" /\ result' = "tree_error" /\ UNCHANGED <<entries, renamed, rows>>
  BY <1>4, FullTreeFails
<1>5. CASE /\ entries' = Append(entries, [path |-> path, source |-> row.source,
                                          converted |-> row.converted, kind |-> row.kind])
           /\ renamed' = IF row.kind = "file" /\ ~IsOwnName(row, path)
                         THEN renamed \cup {[source |-> row.source, path |-> path]} ELSE renamed
           /\ rows' = Tail(rows) /\ pc' = "next" /\ UNCHANGED result
  <2>1. files' = files \cup {Fold(path)}
    BY <1>1 DEF NameFree
  <2> QED
    BY <1>1, <1>3, <1>5, <2>1, NamePlaced
<1> QED
  BY <1>1, <1>3, <1>4, <1>5 DEF NameFree, Failed

\* Every step keeps the invariant.
LEMMA NextKeepsInv == IndInv /\ [Next]_vars => IndInv'
<1> SUFFICES ASSUME IndInv, [Next]_vars PROVE IndInv'
  OBVIOUS
<1>1. CASE UNCHANGED vars
  BY <1>1 DEF vars, IndInv, Typed, TypeOK, Fresh, Placed, Searched, Renames, RowsRenamed, MapShown,
     IsOwnName, Kept, Listing, AliasesNeverLoseTheListing
<1> QED
  BY <1>1, BuildKeeps, NextRowKeeps, NameTakenKeeps, NameTooLongKeeps, NameFreeKeeps,
     GeneratedRowsKeep, TreeDoneKeeps, BudgetBreachKeeps DEF Next, Step

-----------------------------------------------------------------------------
\* The invariant of the tree holds in every reachable state.
THEOREM Invariance == Spec => []IndInv
BY InitEstablishes, NextKeepsInv, PTL DEF Spec

\* On a file system that ignores case no two rows are one file, no row is a
\* file where another needs a folder, and every row has its first free name.
THEOREM NamesStaySound == Spec => []NamesAreSound
<1>1. IndInv => NamesAreSound
  <2> SUFFICES ASSUME IndInv PROVE NamesAreSound
    OBVIOUS
  <2>1. DOMAIN entries = 1..Len(entries) /\ \A n \in 1..Len(entries) : entries[n].path \in Path
    <3>1. entries \in Seq(EntryType)
      BY DEF IndInv, Typed
    <3>2. DOMAIN entries = 1..Len(entries) /\ \A n \in 1..Len(entries) : entries[n] \in EntryType
      BY <3>1
    <3> QED
      BY <3>2 DEF EntryType
  <2>2. ASSUME NEW i \in 1..Len(entries), NEW j \in 1..Len(entries),
               IsStrictPrefix(Fold(entries[i].path), Fold(entries[j].path))
        PROVE  FALSE
    <3>1. PICK q \in Path, p \in Path : q = entries[i].path /\ p = entries[j].path
      BY <2>1
    <3>2. IsStrictPrefix(Fold(q), Fold(p))
      BY <2>2, <3>1
    <3>3. Fold(q) \in Folders(p)
      BY <3>2, PrefixIsFolder
    <3> QED
      BY <3>1, <3>3 DEF IndInv, Placed
  <2>3. NamesAreDistinct
    BY <2>1, <2>2 DEF IndInv, Placed, NamesAreDistinct
  <2>4. FirstFreeNameIsChosen
    <3> SUFFICES ASSUME pc = "try", NEW n \in 0..(counter - 1) PROVE Taken(Candidate(base, n))
      BY DEF FirstFreeNameIsChosen
    <3>1. rows # <<>> /\ base \in {rows[1].effective, rows[1].fallback} /\ counter \in Nat
      BY DEF IndInv, Typed, TypeOK
    <3>2. PICK p \in Path : p = base
      BY <3>1, RowAtHand
    <3>3. PICK c \in Nat : c = n
      BY <3>1
    <3>4. Fold(Candidate(p, c)) = Candidate(Fold(p), c)
      BY CandidateShape
    <3> QED
      BY <3>2, <3>3, <3>4 DEF IndInv, Searched, Taken
  <2> QED
    BY <2>3, <2>4 DEF IndInv, Typed, NamesAreSound
<1> QED
  BY <1>1, Invariance, PTL

\* A finished tree shows every file of the pack, and its removals.
THEOREM NothingIsEverDropped == Spec => []NothingIsDropped
<1>1. IndInv => NothingIsDropped
  <2> SUFFICES ASSUME IndInv, result = "tree" PROVE NothingIsDropped
    BY DEF NothingIsDropped
  <2>1. rows = <<>> /\ Len(rows) = 0 /\ stage = "map" /\ DOMAIN entries = 1..Len(entries)
    BY DEF IndInv, Renames, Typed
  <2> QED
    BY <2>1 DEF IndInv, Kept, Listing, Has, NothingIsDropped
<1> QED
  BY <1>1, Invariance, PTL

\* The name map has the rows shown under another name, and nothing else.
THEOREM MapStaysExact == Spec => []MapIsExact
<1>1. IndInv => MapIsExact
  <2> SUFFICES ASSUME IndInv, result = "tree" PROVE MapIsExact
    BY DEF MapIsExact
  <2>1. rows = <<>> /\ stage = "map" /\ DOMAIN entries = 1..Len(entries)
    BY DEF IndInv, Renames, Typed
  <2> QED
    BY <2>1 DEF IndInv, Renames, RowsRenamed, MapShown, MapIsExact
<1> QED
  BY <1>1, Invariance, PTL

\* A listing fails for its budget only after every alias was given up.
THEOREM AliasesGoFirst == Spec => []AliasesNeverLoseTheListing
BY Invariance, PTL DEF IndInv

-----------------------------------------------------------------------------
(***************************************************************************)
(* The safety half of TreeEnds.  A search cannot pass more candidates than *)
(* there are names: its candidates differ from each other, and each one it *)
(* passed is taken.  Hence a listing is a lexicographic descent: of the    *)
(* metadata fragments over the retries, of the stages of one try, of the   *)
(* rows of a stage, of the two names of a row, and of the taken candidates *)
(* of a name.  That a step that can be taken is taken is FairSpec's.       *)
(***************************************************************************)
SearchIsBounded == pc = "try" => counter <= Cardinality(files \cup dirs)

NamesAreFinite == IsFiniteSet(files) /\ IsFiniteSet(dirs)

\* How many tries of the metadata may follow, and the stages ahead in this one.
Attempts == IF pc = "done" THEN 0 ELSE fragments + 1
StagesAhead == IF pc = "build" THEN 3 ELSE IF stage = "files" THEN 2 ELSE IF stage = "removals" THEN 1 ELSE 0

\* The names the row at hand may still be tried under, and the candidates of one.
NamesAhead == IF pc # "try" THEN 2 ELSE IF base = Head(rows).fallback THEN 0 ELSE 1
CandidatesAhead == IF pc = "try" THEN Cardinality(files \cup dirs) - counter ELSE 0

TreeMeasure == <<Attempts, StagesAhead, Len(rows), NamesAhead, CandidatesAhead>>

\* The order of tuples in which the first difference decides.
Less(u, v) == \E i \in 1..5 : u[i] < v[i] /\ \A j \in 1..(i - 1) : u[j] = v[j]

TreeShrinks == [][Less(TreeMeasure', TreeMeasure)]_vars

-----------------------------------------------------------------------------
\* What a function makes of a finite set is finite.
LEMMA ImageIsFinite ==
  ASSUME NEW S, IsFiniteSet(S), NEW f, DOMAIN f = S
  PROVE  IsFiniteSet({f[x] : x \in S})
<1> DEFINE T == {f[x] : x \in S}
           g == [x \in S |-> f[x]]
<1>1. g \in [S -> T] /\ \A t \in T : \E x \in S : g[x] = t
  OBVIOUS
<1>2. g \in Surjection(S, T)
  BY <1>1 DEF Surjection
<1> QED
  BY <1>2, FS_Surjection

\* A path needs finitely many folders.
LEMMA FoldersAreFinite ==
  ASSUME NEW p \in Path
  PROVE  IsFiniteSet(Folders(p))
<1> DEFINE N == 1..(Len(p) - 1)
           f == [m \in N |-> SubSeq(Fold(p), 1, m)]
<1>1. IsFiniteSet(N)
  BY PathShape, FS_Interval
<1>2. Folders(p) = {f[m] : m \in N}
  BY FoldersShape
<1>3. DOMAIN f = N
  OBVIOUS
<1> HIDE DEF N, f
<1> QED
  BY <1>1, <1>2, <1>3, ImageIsFinite

\* Two candidates of one name are different names.
LEMMA CandidatesDiffer ==
  ASSUME NEW p \in Path, NEW m \in Nat, NEW n \in Nat, Candidate(p, m) = Candidate(p, n)
  PROVE  m = n
<1> DEFINE last(q) == q[Len(p)].sfx
<1>1. /\ Len(p) \in 1..Len(p)
      /\ p[Len(p)] \in Component /\ p[Len(p)].sfx \in Seq(Nat)
  BY PathShape DEF Component
<1>2. ASSUME NEW k \in Nat
      PROVE  last(Candidate(p, k)) = IF k = 0 THEN p[Len(p)].sfx ELSE Append(p[Len(p)].sfx, k)
  <2>1. CASE k = 0
    BY <2>1 DEF Candidate
  <2>2. CASE k # 0
    <3>1. Candidate(p, k)[Len(p)] = [p[Len(p)] EXCEPT !.sfx = Append(p[Len(p)].sfx, k)]
      BY <1>1, <2>2, SuffixedShape DEF Candidate
    <3>2. ASSUME NEW c \in Component, NEW s PROVE [c EXCEPT !.sfx = s].sfx = s
      BY DEF Component
    <3> QED
      BY <1>1, <2>2, <3>1, <3>2
  <2> QED
    BY <2>1, <2>2
<1>3. PICK s \in Seq(Nat) : s = p[Len(p)].sfx
  BY <1>1
<1>4. (IF m = 0 THEN s ELSE Append(s, m)) = (IF n = 0 THEN s ELSE Append(s, n))
  BY <1>2, <1>3
<1>5. \A k \in Nat : Len(Append(s, k)) = Len(s) + 1 /\ Append(s, k)[Len(s) + 1] = k /\ Len(s) \in Nat
  OBVIOUS
<1>6. \A k \in Nat : Append(s, k) # s
  BY <1>5
<1>7. CASE m = 0 \/ n = 0
  BY <1>4, <1>6, <1>7
<1>8. CASE m # 0 /\ n # 0
  <2>1. Append(s, m) = Append(s, n)
    BY <1>4, <1>8
  <2> QED
    BY <1>5, <2>1
<1> QED
  BY <1>7, <1>8

-----------------------------------------------------------------------------
\* The names taken so far are finitely many.
LEMMA NamesStartFinite == Init => NamesAreFinite
BY FS_EmptySet DEF Init, NamesAreFinite

\* A build counts the folders of finitely many rows.
LEMMA BuildStaysFinite ==
  ASSUME IndInv, NamesAreFinite, Build
  PROVE  NamesAreFinite'
<1>1. files' = files
  BY DEF Build
<1>2. CASE UNCHANGED dirs
  BY <1>1, <1>2 DEF NamesAreFinite
<1>3. CASE ~UNCHANGED dirs
  <2>1. dirs' = UNION {{Fold(d) : d \in Ancestors(rows'[n].effective)} : n \in DOMAIN rows'}
    BY <1>3 DEF Build
  <2>2. rows' \in Seq(RowType)
    BY BuildKeeps DEF IndInv, Typed, TypeOK
  <2>3. PICK rs \in Seq(RowType) : rs = rows'
    BY <2>2
  <2> DEFINE f == [n \in 1..Len(rs) |-> Folders(rs[n].effective)]
  <2>4. DOMAIN rs = 1..Len(rs) /\ \A n \in 1..Len(rs) : rs[n].effective \in Path
    <3>1. DOMAIN rs = 1..Len(rs) /\ \A n \in 1..Len(rs) : rs[n] \in RowType
      OBVIOUS
    <3> QED
      BY <3>1 DEF RowType
  <2>5. IsFiniteSet(1..Len(rs))
    BY FS_Interval
  <2>6. IsFiniteSet({f[n] : n \in 1..Len(rs)})
    BY <2>5, ImageIsFinite
  <2>7. \A T \in {f[n] : n \in 1..Len(rs)} : IsFiniteSet(T)
    BY <2>4, FoldersAreFinite
  <2>8. dirs' = UNION {f[n] : n \in 1..Len(rs)}
    BY <2>1, <2>3, <2>4 DEF Folders
  <2>9. IsFiniteSet(dirs')
    BY <2>6, <2>7, <2>8, FS_UNION
  <2> QED
    BY <1>1, <2>9 DEF NamesAreFinite
<1> QED
  BY <1>2, <1>3

\* No step makes infinitely many names.
LEMMA NamesStayFinite == IndInv /\ NamesAreFinite /\ [Next]_vars => NamesAreFinite'
<1> SUFFICES ASSUME IndInv, NamesAreFinite, [Next]_vars PROVE NamesAreFinite'
  OBVIOUS
<1>1. CASE UNCHANGED <<files, dirs>>
  BY <1>1 DEF NamesAreFinite
<1>2. CASE Build
  BY <1>2, BuildStaysFinite
<1>3. CASE NameFree
  <2>1. UNCHANGED dirs /\ files' = files \cup {Fold(Candidate(base, counter))}
    BY <1>3 DEF NameFree
  <2> QED
    BY <2>1, FS_AddElement DEF NamesAreFinite
<1>4. CASE BudgetBreach
  BY <1>1, <1>4, FS_EmptySet DEF BudgetBreach, NamesAreFinite
<1>5. CASE NextRow \/ NameTaken \/ NameTooLong \/ GeneratedRows \/ TreeDone \/ UNCHANGED vars
  BY <1>1, <1>5 DEF NextRow, NameTaken, NameTooLong, GeneratedRows, TreeDone, vars
<1> QED
  BY <1>2, <1>3, <1>4, <1>5 DEF Next, Step

\* The candidates a search passed are as many names that are taken.
LEMMA SearchPassedTaken ==
  ASSUME IndInv, NamesAreFinite, pc = "try"
  PROVE  /\ counter \in Nat /\ Cardinality(files \cup dirs) \in Nat
         /\ counter <= Cardinality(files \cup dirs)
<1> DEFINE T == files \cup dirs
<1>1. IsFiniteSet(T) /\ Cardinality(T) \in Nat
  BY FS_Union, FS_CardinalityType DEF NamesAreFinite
<1>2. counter \in Nat /\ rows # <<>> /\ base \in {rows[1].effective, rows[1].fallback}
  BY DEF IndInv, Typed, TypeOK
<1>3. PICK p \in Path : p = base
  BY <1>2, RowAtHand
<1>4. PICK k \in Path : k = Fold(p)
  BY FoldShape
<1>5. \A n \in 0..(counter - 1) : Candidate(k, n) \in T
  BY <1>3, <1>4 DEF IndInv, Searched
<1> DEFINE S == 0..(counter - 1)
           f == [n \in S |-> Candidate(k, n)]
<1>6. f \in Injection(S, T)
  <2>1. f \in [S -> T]
    BY <1>5
  <2>2. ASSUME NEW m \in S, NEW n \in S, f[m] = f[n] PROVE m = n
    <3>1. m \in Nat /\ n \in Nat /\ Candidate(k, m) = Candidate(k, n)
      BY <1>2, <2>2
    <3> QED
      BY <3>1, CandidatesDiffer
  <2> QED
    BY <2>1, <2>2 DEF Injection, IsInjective
<1>7. Cardinality(S) <= Cardinality(T)
  BY <1>1, <1>6, FS_Injection
<1>8. Cardinality(S) = counter
  <2>1. IsFiniteSet(S) /\ Cardinality(S) = IF 0 > counter - 1 THEN 0 ELSE (counter - 1) - 0 + 1
    BY <1>2, FS_Interval
  <2> QED
    BY <1>2, <2>1
<1> QED
  BY <1>1, <1>2, <1>7, <1>8

-----------------------------------------------------------------------------
\* The measure is numbers.
LEMMA MeasureIsNumbers ==
  ASSUME IndInv, NamesAreFinite
  PROVE  /\ Attempts \in Nat /\ StagesAhead \in 0..3 /\ Len(rows) \in Nat /\ NamesAhead \in 0..2
         /\ CandidatesAhead \in Nat
         /\ fragments \in Nat
<1>1. fragments \in Nat /\ rows \in Seq(RowType)
  BY DEF IndInv, Typed, TypeOK
<1>2. Attempts \in Nat /\ StagesAhead \in 0..3 /\ Len(rows) \in Nat /\ NamesAhead \in 0..2
  BY <1>1 DEF Attempts, StagesAhead, NamesAhead
<1>3. CASE pc = "try"
  <2>1. Cardinality(files \cup dirs) - counter \in Nat
    BY <1>3, SearchPassedTaken
  <2> QED
    BY <1>1, <1>2, <1>3, <2>1 DEF CandidatesAhead
<1>4. CASE pc # "try"
  BY <1>1, <1>2, <1>4 DEF CandidatesAhead
<1> QED
  BY <1>3, <1>4

\* What has to be shown of a step: what it leaves alone, and what it lowers.
LEMMA Lower ==
  ASSUME \/ Attempts' < Attempts
         \/ Attempts' = Attempts /\ StagesAhead' < StagesAhead
         \/ Attempts' = Attempts /\ StagesAhead' = StagesAhead /\ Len(rows') < Len(rows)
         \/ /\ Attempts' = Attempts /\ StagesAhead' = StagesAhead /\ Len(rows') = Len(rows)
            /\ NamesAhead' < NamesAhead
         \/ /\ Attempts' = Attempts /\ StagesAhead' = StagesAhead /\ Len(rows') = Len(rows)
            /\ NamesAhead' = NamesAhead /\ CandidatesAhead' < CandidatesAhead
  PROVE  Less(TreeMeasure', TreeMeasure)
<1>1. /\ TreeMeasure[1] = Attempts /\ TreeMeasure[2] = StagesAhead /\ TreeMeasure[3] = Len(rows)
      /\ TreeMeasure[4] = NamesAhead /\ TreeMeasure[5] = CandidatesAhead
  BY DEF TreeMeasure
<1>2. /\ TreeMeasure'[1] = Attempts' /\ TreeMeasure'[2] = StagesAhead' /\ TreeMeasure'[3] = Len(rows')
      /\ TreeMeasure'[4] = NamesAhead' /\ TreeMeasure'[5] = CandidatesAhead'
  BY DEF TreeMeasure
<1>3. ASSUME NEW u, NEW v,
             \/ u[1] < v[1]
             \/ u[1] = v[1] /\ u[2] < v[2]
             \/ u[1] = v[1] /\ u[2] = v[2] /\ u[3] < v[3]
             \/ u[1] = v[1] /\ u[2] = v[2] /\ u[3] = v[3] /\ u[4] < v[4]
             \/ u[1] = v[1] /\ u[2] = v[2] /\ u[3] = v[3] /\ u[4] = v[4] /\ u[5] < v[5]
      PROVE  Less(u, v)
  <2>1. PICK i \in 1..5 :
          /\ u[i] < v[i]
          /\ i > 1 => u[1] = v[1]
          /\ i > 2 => u[2] = v[2]
          /\ i > 3 => u[3] = v[3]
          /\ i > 4 => u[4] = v[4]
    BY <1>3
  <2>2. \A j \in 1..(i - 1) : u[j] = v[j]
    <3>1. \A j \in 1..(i - 1) : j = 1 \/ j = 2 \/ j = 3 \/ j = 4
      BY <2>1
    <3> QED
      BY <2>1, <3>1
  <2> QED
    BY <2>1, <2>2 DEF Less
<1> QED
  BY <1>1, <1>2, <1>3

\* Every step of a listing is a descent.
LEMMA StepDescends ==
  ASSUME IndInv, NamesAreFinite, Next
  PROVE  Less(TreeMeasure', TreeMeasure)
<1>a. IndInv' /\ NamesAreFinite'
  BY NextKeepsInv, NamesStayFinite
<1>b. /\ fragments \in Nat /\ Len(rows) \in Nat /\ rows \in Seq(RowType)
      /\ stage \in {"files", "removals", "map"}
  BY MeasureIsNumbers DEF IndInv, Typed, TypeOK
<1>c. pc # "done"
  BY DEF Next, Step, Build, NextRow, NameTaken, NameTooLong, NameFree, GeneratedRows, TreeDone, BudgetBreach
<1>d. pc = "build" => stage = "files"
  BY DEF IndInv, Typed, Fresh
<1>1. CASE pc' = "done"
  <2>1. Attempts' = 0 /\ Attempts = fragments + 1
    BY <1>1, <1>c DEF Attempts
  <2> QED
    BY <1>b, <2>1, Lower
<1>2. CASE pc' # "done" /\ Build
  <2>1. UNCHANGED <<fragments, stage>> /\ pc = "build" /\ pc' = "next"
    BY <1>2 DEF Build, Failed
  <2>2. Attempts' = Attempts /\ StagesAhead' < StagesAhead
    BY <1>d, <2>1 DEF Attempts, StagesAhead
  <2> QED
    BY <2>2, Lower
<1>3. CASE NextRow
  <2>1. UNCHANGED <<fragments, stage, rows>> /\ pc = "next" /\ pc' = "try"
    BY <1>3 DEF NextRow
  <2>2. Attempts' = Attempts /\ StagesAhead' = StagesAhead /\ NamesAhead' < NamesAhead
    BY <2>1 DEF Attempts, StagesAhead, NamesAhead
  <2> QED
    BY <2>1, <2>2, Lower
<1>4. CASE NameTaken
  <2>1. /\ UNCHANGED <<fragments, stage, rows, pc, base, files, dirs>> /\ pc = "try"
        /\ counter' = counter + 1
    BY <1>4 DEF NameTaken
  <2>2. Attempts' = Attempts /\ StagesAhead' = StagesAhead /\ NamesAhead' = NamesAhead
    BY <2>1 DEF Attempts, StagesAhead, NamesAhead
  <2>3. CandidatesAhead' < CandidatesAhead
    <3>1. PICK n \in Nat : n = Cardinality(files \cup dirs)
      BY <2>1, SearchPassedTaken
    <3>2. Cardinality((files \cup dirs)') = n
      BY <2>1, <3>1
    <3>3. CandidatesAhead = n - counter /\ CandidatesAhead' = n - (counter + 1) /\ counter \in Nat
      BY <2>1, <3>1, <3>2, SearchPassedTaken DEF CandidatesAhead
    <3> QED
      BY <3>3
  <2> QED
    BY <2>1, <2>2, <2>3, Lower
<1>5. CASE pc' # "done" /\ NameTooLong
  <2>1. /\ UNCHANGED <<fragments, stage, rows, pc>> /\ pc = "try"
        /\ base # Head(rows).fallback /\ base' = Head(rows).fallback
    BY <1>5 DEF NameTooLong, Failed, Start
  <2>2. Attempts' = Attempts /\ StagesAhead' = StagesAhead /\ NamesAhead' < NamesAhead
    BY <2>1 DEF Attempts, StagesAhead, NamesAhead
  <2> QED
    BY <2>1, <2>2, Lower
<1>6. CASE pc' # "done" /\ NameFree
  <2>1. UNCHANGED <<fragments, stage>> /\ pc = "try" /\ pc' = "next" /\ rows' = Tail(rows) /\ rows # <<>>
    BY <1>6 DEF NameFree, Failed, IndInv, Typed
  <2>2. Attempts' = Attempts /\ StagesAhead' = StagesAhead
    BY <2>1 DEF Attempts, StagesAhead
  <2>3. Len(rows') < Len(rows)
    BY <1>b, <2>1, TailFacts
  <2> QED
    BY <2>2, <2>3, Lower
<1>7. CASE GeneratedRows
  <2>1. /\ UNCHANGED <<fragments, pc>> /\ pc = "next"
        /\ \/ stage = "files" /\ stage' = "removals"
           \/ stage = "removals" /\ stage' = "map"
    BY <1>7 DEF GeneratedRows
  <2>2. Attempts' = Attempts /\ StagesAhead' < StagesAhead
    BY <2>1 DEF Attempts, StagesAhead
  <2> QED
    BY <2>2, Lower
<1>8. CASE TreeDone
  BY <1>1, <1>8 DEF TreeDone, Failed
<1>9. CASE pc' # "done" /\ BudgetBreach
  <2>1. fragments # 0 /\ fragments' = fragments \div 2 /\ pc' = "build"
    BY <1>9 DEF BudgetBreach, Failed
  <2>2. fragments' < fragments /\ fragments' \in Nat
    BY <1>b, <2>1
  <2>3. Attempts' = fragments' + 1 /\ Attempts = fragments + 1
    BY <1>9, <1>c DEF Attempts
  <2>4. \A m, n \in Nat : m < n => m + 1 < n + 1
    OBVIOUS
  <2>5. fragments \in Nat
    BY <1>b
  <2>6. fragments' + 1 < fragments + 1
    BY ONLY <2>2, <2>4, <2>5
  <2>7. Attempts' < Attempts
    BY ONLY <2>3, <2>6
  <2> QED
    BY <2>7, Lower
<1> QED
  BY <1>1, <1>2, <1>3, <1>4, <1>5, <1>6, <1>7, <1>8, <1>9 DEF Next, Step

\* A name is found after at most as many candidates as there are names: no pack
\* and no case folding makes the search for a suffix run away.
THEOREM SearchesStayBounded == Spec => []SearchIsBounded
<1>1. IndInv /\ NamesAreFinite => SearchIsBounded
  BY SearchPassedTaken DEF SearchIsBounded
<1> QED
  BY <1>1, NamesStartFinite, NamesStayFinite, Invariance, PTL DEF Spec

\* A listing cannot go on for ever: each step is a descent in numbers, the
\* retries after a breach included, which never try as many fragments again.
THEOREM TreesDescend == Spec => [](TreeMeasure \in [1..5 -> Nat]) /\ TreeShrinks
<1>1. ASSUME IndInv, NamesAreFinite PROVE TreeMeasure \in [1..5 -> Nat]
  <2>1. /\ Attempts \in Nat /\ StagesAhead \in Nat /\ Len(rows) \in Nat /\ NamesAhead \in Nat
        /\ CandidatesAhead \in Nat
    BY <1>1, MeasureIsNumbers
  <2>2. \A a, b, c, d, e \in Nat : <<a, b, c, d, e>> \in [1..5 -> Nat]
    OBVIOUS
  <2> QED
    BY <2>1, <2>2 DEF TreeMeasure
<1>2. IndInv /\ NamesAreFinite /\ [Next]_vars => [Less(TreeMeasure', TreeMeasure)]_vars
  BY StepDescends
<1> QED
  BY <1>1, <1>2, NamesStartFinite, NamesStayFinite, Invariance, PTL DEF Spec, TreeShrinks
=============================================================================
