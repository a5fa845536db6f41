---------------------------- MODULE DataInduction ----------------------------
(***************************************************************************)
(* Facts that take induction over data, for the proofs of the modules that *)
(* add up, flatten or filter sequences.  The induction theorems of the     *)
(* library take an operator the provers cannot instantiate, so a least     *)
(* counterexample stands in for them: Nat is well founded, and a set of    *)
(* numbers that is not empty has a least one.                              *)
(***************************************************************************)
EXTENDS Integers, SequencesExt, FiniteSetsExt, FiniteSetTheorems, WellFoundedInduction, TLAPS

\* A set of numbers that is not empty has a least one.
LEMMA LeastElement ==
  ASSUME NEW T \in SUBSET Nat, T # {}
  PROVE  \E n \in T : \A m \in T : n <= m
<1>. DEFINE R == {ss \in Nat \X Nat : ss[1] < ss[2]}
<1>1. IsWellFoundedOn(R, Nat)
  BY NatLessThanWellFounded DEF OpToRel
<1>2. PICK n \in T : \A m \in T : ~ (<<m, n>> \in R)
  <2>. HIDE DEF R
  <2>. QED BY <1>1, WFMin
<1>3. \A m \in T : ~ (m < n)
  BY <1>2
<1>. QED BY <1>3

\* The index a fold takes next, and the recursion it computes.
Pick(S) == CHOOSE x \in S : TRUE
Rest(S) == S \ {Pick(S)}
FoldStep(h, w, S) == IF S = {} THEN 0 ELSE w[Pick(S)] + h[Rest(S)]
Unfolds(g, w, D) == g = [S \in SUBSET D |-> FoldStep(g, w, S)]

\* The picked element is an element.
LEMMA PickIsIn ==
  ASSUME NEW S, S # {}
  PROVE  Pick(S) \in S
BY DEF Pick

\* Subsets of a finite set are finite, and a fold leaves one index less.
LEMMA RestIsSmaller ==
  ASSUME NEW S, IsFiniteSet(S), S # {}
  PROVE  /\ Rest(S) \subseteq S /\ IsFiniteSet(Rest(S))
         /\ Cardinality(S) \in Nat /\ Cardinality(Rest(S)) = Cardinality(S) - 1
         /\ Cardinality(Rest(S)) \in Nat
BY PickIsIn, FS_RemoveElement, FS_CardinalityType DEF Rest

\* A fold is a function that satisfies the recursion, when there is one.
LEMMA SumIsChosen ==
  ASSUME NEW w, NEW D
  PROVE  SumFunctionOnSet(w, D) = (CHOOSE g : Unfolds(g, w, D))[D]
BY DEF SumFunctionOnSet, FoldFunctionOnSet, MapThenFoldSet, Unfolds, FoldStep, Rest, Pick

\* There is one, whatever the weights: built up to sets of every size.
LEMMA SumExists ==
  ASSUME NEW w, NEW D, IsFiniteSet(D)
  PROVE  \E g : Unfolds(g, w, D)
<1>. DEFINE UpTo(h, n) == \A S \in SUBSET D : Cardinality(S) <= n => h[S] = FoldStep(h, w, S)
            Bad == {n \in Nat : ~ \E h : UpTo(h, n)}
<1>1. Bad = {}
  <2>. SUFFICES ASSUME Bad # {} PROVE FALSE
    OBVIOUS
  <2>1. PICK n \in Bad : \A m \in Bad : n <= m
    <3>1. Bad \in SUBSET Nat
      OBVIOUS
    <3>. HIDE DEF Bad
    <3>. QED BY <3>1, LeastElement
  <2>2. n \in Nat /\ ~ \E h : UpTo(h, n)
    OBVIOUS
  <2>3. \A S \in SUBSET D : IsFiniteSet(S) /\ Cardinality(S) \in Nat
    BY FS_Subset, FS_CardinalityType
  <2>4. CASE n = 0
    <3>. DEFINE h == [S \in SUBSET D |-> 0]
    <3>1. ASSUME NEW S \in SUBSET D, Cardinality(S) <= 0 PROVE h[S] = FoldStep(h, w, S)
      <4>1. S = {}
        BY <2>3, <3>1, FS_EmptySet
      <4>. QED BY <4>1 DEF FoldStep
    <3>2. UpTo(h, 0)
      BY <3>1
    <3>. QED BY <3>2, <2>2, <2>4
  <2>5. CASE n # 0
    <3>1. n - 1 \in Nat /\ n - 1 \notin Bad
      BY <2>1, <2>2, <2>5
    <3>2. PICK h : UpTo(h, n - 1)
      BY <3>1
    <3>. DEFINE k == [S \in SUBSET D |-> FoldStep(h, w, S)]
    <3>3. ASSUME NEW S \in SUBSET D, Cardinality(S) <= n PROVE k[S] = FoldStep(k, w, S)
      <4>1. CASE S = {}
        BY <4>1 DEF FoldStep
      <4>2. CASE S # {}
        <5>1. Rest(S) \in SUBSET D /\ Cardinality(Rest(S)) <= n - 1
          BY <2>2, <2>3, <3>3, <4>2, RestIsSmaller
        <5>2. h[Rest(S)] = k[Rest(S)]
          BY <5>1, <3>2
        <5>. QED BY <5>2, <4>2 DEF FoldStep
      <4>. QED BY <4>1, <4>2
    <3>4. UpTo(k, n)
      BY <3>3
    <3>. QED BY <3>4, <2>2
  <2>. QED BY <2>4, <2>5
<1>2. Cardinality(D) \in Nat /\ Cardinality(D) \notin Bad
  BY <1>1, FS_CardinalityType
<1>3. PICK h : UpTo(h, Cardinality(D))
  BY <1>2
<1>. DEFINE g == [S \in SUBSET D |-> FoldStep(h, w, S)]
<1>4. ASSUME NEW S \in SUBSET D PROVE g[S] = h[S] /\ FoldStep(g, w, S) = FoldStep(h, w, S)
  <2>1. ASSUME NEW A \in SUBSET D PROVE h[A] = FoldStep(h, w, A)
    BY <1>3, FS_Subset, FS_CardinalityType
  <2>2. ASSUME NEW A \in SUBSET D PROVE g[A] = h[A]
    BY <2>1
  <2>3. Rest(S) \in SUBSET D
    BY DEF Rest
  <2>. QED BY <2>2, <2>3 DEF FoldStep
<1>5. g = [S \in SUBSET D |-> FoldStep(g, w, S)]
  BY <1>4
<1>. QED BY <1>5 DEF Unfolds

\* Two recursions over weights that agree agree.
LEMMA SumsAgree ==
  ASSUME NEW w, NEW v, NEW D, NEW E, NEW g, NEW h,
         IsFiniteSet(D), Unfolds(g, w, D), Unfolds(h, v, E),
         \A x \in D \cap E : w[x] = v[x]
  PROVE  \A S \in (SUBSET D) \cap (SUBSET E) : g[S] = h[S]
<1>. DEFINE Both == (SUBSET D) \cap (SUBSET E)
            Bad == {Cardinality(S) : S \in {A \in Both : g[A] # h[A]}}
<1>1. ASSUME NEW S \in Both PROVE IsFiniteSet(S) /\ Cardinality(S) \in Nat
  BY FS_Subset, FS_CardinalityType
<1>2. SUFFICES ASSUME Bad # {} PROVE FALSE
  OBVIOUS
<1>3. PICK n \in Bad : \A m \in Bad : n <= m
  <2>1. Bad \in SUBSET Nat
    BY <1>1
  <2>. HIDE DEF Bad
  <2>. QED BY <2>1, <1>2, LeastElement
<1>4. PICK S \in Both : n = Cardinality(S) /\ g[S] # h[S]
  OBVIOUS
<1>5. g[S] = FoldStep(g, w, S) /\ h[S] = FoldStep(h, v, S)
  BY DEF Unfolds
<1>6. S # {}
  BY <1>4, <1>5 DEF FoldStep
<1>7. Rest(S) \in Both /\ Cardinality(Rest(S)) < Cardinality(S)
  BY <1>1, <1>6, RestIsSmaller
<1>8. g[Rest(S)] = h[Rest(S)]
  <2>1. SUFFICES ASSUME g[Rest(S)] # h[Rest(S)] PROVE FALSE
    OBVIOUS
  <2>2. Cardinality(Rest(S)) \in Bad
    BY <2>1, <1>7
  <2>. QED BY <2>2, <1>1, <1>3, <1>4, <1>7
<1>9. w[Pick(S)] = v[Pick(S)]
  BY <1>6, PickIsIn
<1>. QED BY <1>4, <1>5, <1>6, <1>8, <1>9 DEF FoldStep

-----------------------------------------------------------------------------
\* The sum of no index, and the sum by the index the fold takes.
LEMMA SumOfNone ==
  ASSUME NEW w
  PROVE  SumFunctionOnSet(w, {}) = 0
<1>1. IsFiniteSet({})
  BY FS_EmptySet
<1>2. PICK g : Unfolds(g, w, {}) /\ SumFunctionOnSet(w, {}) = g[{}]
  BY <1>1, SumExists, SumIsChosen
<1>. QED BY <1>2 DEF Unfolds, FoldStep

\* A sum is the picked term and the sum of the rest.
LEMMA SumByPick ==
  ASSUME NEW w, NEW D, IsFiniteSet(D), D # {}
  PROVE  SumFunctionOnSet(w, D) = w[Pick(D)] + SumFunctionOnSet(w, Rest(D))
<1>1. PICK g : Unfolds(g, w, D) /\ SumFunctionOnSet(w, D) = g[D]
  BY SumExists, SumIsChosen
<1>2. IsFiniteSet(Rest(D)) /\ Rest(D) \subseteq D
  BY RestIsSmaller
<1>3. PICK h : Unfolds(h, w, Rest(D)) /\ SumFunctionOnSet(w, Rest(D)) = h[Rest(D)]
  BY <1>2, SumExists, SumIsChosen
<1>4. g[Rest(D)] = h[Rest(D)]
  BY <1>1, <1>2, <1>3, SumsAgree
<1>5. g[D] = w[Pick(D)] + g[Rest(D)]
  BY <1>1 DEF Unfolds, FoldStep
<1>. QED BY <1>1, <1>3, <1>4, <1>5

\* A sum depends on the weights of its indices only.
LEMMA SumOfSame ==
  ASSUME NEW w, NEW v, NEW D, IsFiniteSet(D), \A x \in D : w[x] = v[x]
  PROVE  SumFunctionOnSet(w, D) = SumFunctionOnSet(v, D)
<1>1. PICK g : Unfolds(g, w, D) /\ SumFunctionOnSet(w, D) = g[D]
  BY SumExists, SumIsChosen
<1>2. PICK h : Unfolds(h, v, D) /\ SumFunctionOnSet(v, D) = h[D]
  BY SumExists, SumIsChosen
<1>. QED BY <1>1, <1>2, SumsAgree

\* A sum of naturals is one.
LEMMA SumIsNat ==
  ASSUME NEW w, NEW D, IsFiniteSet(D), \A x \in D : w[x] \in Nat
  PROVE  SumFunctionOnSet(w, D) \in Nat
<1>. DEFINE Bad == {Cardinality(S) : S \in {A \in SUBSET D : SumFunctionOnSet(w, A) \notin Nat}}
<1>1. ASSUME NEW S \in SUBSET D PROVE IsFiniteSet(S) /\ Cardinality(S) \in Nat
  BY FS_Subset, FS_CardinalityType
<1>2. SUFFICES ASSUME Bad # {} PROVE FALSE
  OBVIOUS
<1>3. PICK n \in Bad : \A m \in Bad : n <= m
  <2>1. Bad \in SUBSET Nat
    BY <1>1
  <2>. HIDE DEF Bad
  <2>. QED BY <2>1, <1>2, LeastElement
<1>4. PICK S \in SUBSET D : n = Cardinality(S) /\ SumFunctionOnSet(w, S) \notin Nat
  OBVIOUS
<1>5. S # {}
  BY <1>4, SumOfNone
<1>6. Rest(S) \in SUBSET D /\ Cardinality(Rest(S)) < Cardinality(S)
  BY <1>1, <1>5, RestIsSmaller
<1>7. SumFunctionOnSet(w, Rest(S)) \in Nat
  <2>1. Cardinality(Rest(S)) \in Nat /\ ~ (n <= Cardinality(Rest(S)))
    BY <1>1, <1>4, <1>6
  <2>2. Cardinality(Rest(S)) \notin Bad
    <3>. HIDE DEF Bad
    <3>. QED BY <2>1, <1>3
  <2>. QED BY <2>2, <1>6
<1>8. w[Pick(S)] \in Nat
  BY <1>5, PickIsIn
<1>9. SumFunctionOnSet(w, S) = w[Pick(S)] + SumFunctionOnSet(w, Rest(S))
  BY <1>1, <1>5, SumByPick
<1>. QED BY <1>4, <1>7, <1>8, <1>9

\* Any index of a sum may be taken first.
LEMMA SumByAny ==
  ASSUME NEW w, NEW D, IsFiniteSet(D), \A x \in D : w[x] \in Nat, NEW a \in D
  PROVE  SumFunctionOnSet(w, D) = w[a] + SumFunctionOnSet(w, D \ {a})
<1>. DEFINE Fails(S) == \E x \in S : SumFunctionOnSet(w, S) # w[x] + SumFunctionOnSet(w, S \ {x})
            Bad == {Cardinality(S) : S \in {A \in SUBSET D : Fails(A)}}
<1>1. ASSUME NEW S \in SUBSET D PROVE IsFiniteSet(S) /\ Cardinality(S) \in Nat
  BY FS_Subset, FS_CardinalityType
<1>2. SUFFICES ASSUME Bad # {} PROVE FALSE
  OBVIOUS
<1>3. PICK n \in Bad : \A m \in Bad : n <= m
  <2>1. Bad \in SUBSET Nat
    BY <1>1
  <2>. HIDE DEF Bad
  <2>. QED BY <2>1, <1>2, LeastElement
<1>4. PICK S \in SUBSET D : n = Cardinality(S) /\ Fails(S)
  OBVIOUS
<1>5. PICK x \in S : SumFunctionOnSet(w, S) # w[x] + SumFunctionOnSet(w, S \ {x})
  BY <1>4
<1>. DEFINE p == Pick(S)
            R == S \ {p}
            Q == S \ {x}
<1>6. p \in S /\ x \in S /\ S # {} /\ w[p] \in Nat /\ w[x] \in Nat
  BY <1>5, PickIsIn
<1>7. SumFunctionOnSet(w, S) = w[p] + SumFunctionOnSet(w, R)
  BY <1>1, <1>6, SumByPick DEF Rest
<1>8. p # x
  BY <1>5, <1>7
<1>9. ASSUME NEW A \in SUBSET D, Cardinality(A) < Cardinality(S) PROVE ~ Fails(A)
  <2>1. Cardinality(A) \in Nat /\ ~ (n <= Cardinality(A))
    BY <1>1, <1>4, <1>9
  <2>2. Cardinality(A) \notin Bad
    <3>. HIDE DEF Bad
    <3>. QED BY <2>1, <1>3
  <2>. QED BY <2>2
<1>10. Cardinality(R) < Cardinality(S) /\ Cardinality(Q) < Cardinality(S)
  BY <1>1, <1>6, FS_RemoveElement
<1>11. SumFunctionOnSet(w, R) = w[x] + SumFunctionOnSet(w, R \ {x})
  BY <1>6, <1>8, <1>9, <1>10
<1>12. SumFunctionOnSet(w, Q) = w[p] + SumFunctionOnSet(w, Q \ {p})
  BY <1>6, <1>8, <1>9, <1>10
<1>13. R \ {x} = Q \ {p} /\ SumFunctionOnSet(w, R \ {x}) \in Nat
  <2>1. R \ {x} = Q \ {p}
    OBVIOUS
  <2>2. R \ {x} \in SUBSET D
    OBVIOUS
  <2>. QED BY <2>1, <2>2, <1>1, SumIsNat
<1>14. PICK r \in Nat : r = SumFunctionOnSet(w, R \ {x}) /\ r = SumFunctionOnSet(w, Q \ {p})
  BY <1>13
<1>. HIDE DEF p, R, Q, Bad
<1>15. SumFunctionOnSet(w, S) = w[p] + (w[x] + r) /\ SumFunctionOnSet(w, Q) = w[p] + r
  BY <1>7, <1>11, <1>12, <1>14
<1>. QED BY <1>5, <1>6, <1>14, <1>15 DEF Q

\* One index more.
LEMMA SumWithOneMore ==
  ASSUME NEW w, NEW D, IsFiniteSet(D), NEW a, a \notin D,
         \A x \in D \cup {a} : w[x] \in Nat
  PROVE  SumFunctionOnSet(w, D \cup {a}) = w[a] + SumFunctionOnSet(w, D)
<1>1. IsFiniteSet(D \cup {a}) /\ (D \cup {a}) \ {a} = D
  BY FS_AddElement
<1>2. SumFunctionOnSet(w, D \cup {a}) = w[a] + SumFunctionOnSet(w, (D \cup {a}) \ {a})
  BY <1>1, SumByAny
<1>. QED BY <1>1, <1>2

\* The sum of a prefix, and of the prefix one longer.
LEMMA PrefixSum ==
  ASSUME NEW w, NEW n \in Nat, \A x \in 1..n : w[x] \in Nat
  PROVE  /\ SumFunctionOnSet(w, 1..0) = 0
         /\ SumFunctionOnSet(w, 1..n) \in Nat
<1>1. 1..0 = {}
  OBVIOUS
<1>2. IsFiniteSet(1..n)
  BY FS_Interval
<1>. QED BY <1>1, <1>2, SumOfNone, SumIsNat

\* The sum of one more term.
LEMMA PrefixSumGrows ==
  ASSUME NEW w, NEW n \in Nat, \A x \in 1..(n + 1) : w[x] \in Nat
  PROVE  SumFunctionOnSet(w, 1..(n + 1)) = SumFunctionOnSet(w, 1..n) + w[n + 1]
<1>1. IsFiniteSet(1..n) /\ n + 1 \notin 1..n
  BY FS_Interval
<1>2. 1..(n + 1) = (1..n) \cup {n + 1}
  OBVIOUS
<1>3. PICK a : a = n + 1
  OBVIOUS
<1>4. SumFunctionOnSet(w, (1..n) \cup {a}) = w[a] + SumFunctionOnSet(w, 1..n)
  BY <1>1, <1>2, <1>3, SumWithOneMore
<1>5. w[a] \in Nat /\ SumFunctionOnSet(w, 1..n) \in Nat
  BY <1>3, PrefixSum
<1>6. SumFunctionOnSet(w, 1..(n + 1)) = w[a] + SumFunctionOnSet(w, 1..n)
  BY <1>2, <1>3, <1>4
<1>. QED BY <1>3, <1>5, <1>6

\* Prefixes of weights that agree on them have the same sum.
LEMMA PrefixSumOfSame ==
  ASSUME NEW w, NEW v, NEW n \in Nat, \A x \in 1..n : w[x] = v[x]
  PROVE  SumFunctionOnSet(w, 1..n) = SumFunctionOnSet(v, 1..n)
<1>1. IsFiniteSet(1..n)
  BY FS_Interval
<1>. QED BY <1>1, SumOfSame

-----------------------------------------------------------------------------
(***************************************************************************)
(* Sequences of sequences laid end to end: FlattenSeq is a function chosen *)
(* for its recursion over the parts, so that there is one, and that what   *)
(* it yields has the type of the parts, takes induction too.               *)
(***************************************************************************)
Chained(f, ss, i) == IF i = 1 THEN ss[i] ELSE f[i - 1] \o ss[i]
Chains(f, ss) == f = [i \in 1..Len(ss) |-> Chained(f, ss, i)]

\* The function is chosen among those that satisfy the recursion.
LEMMA FlattenIsChosen ==
  ASSUME NEW ss, Len(ss) # 0
  PROVE  FlattenSeq(ss) = (CHOOSE f : Chains(f, ss))[Len(ss)]
BY DEF FlattenSeq, Chains, Chained

\* There is one: built up part by part.
LEMMA FlattenExists ==
  ASSUME NEW ss, Len(ss) \in Nat
  PROVE  \E f : Chains(f, ss)
<1>. DEFINE UpTo(h, n) == \A i \in 1..Len(ss) : i <= n => h[i] = Chained(h, ss, i)
            Bad == {n \in Nat : ~ \E h : UpTo(h, n)}
<1>1. Bad = {}
  <2>. SUFFICES ASSUME Bad # {} PROVE FALSE
    OBVIOUS
  <2>1. PICK n \in Bad : \A m \in Bad : n <= m
    <3>1. Bad \in SUBSET Nat
      OBVIOUS
    <3>. HIDE DEF Bad
    <3>. QED BY <3>1, LeastElement
  <2>2. n \in Nat /\ ~ \E h : UpTo(h, n)
    OBVIOUS
  <2>3. n # 0
    <3>1. UpTo(<<>>, 0)
      OBVIOUS
    <3>. QED BY <3>1, <2>2
  <2>4. n - 1 \in Nat /\ n - 1 \notin Bad
    <3>1. n - 1 \in Nat /\ ~ (n <= n - 1)
      BY <2>2, <2>3
    <3>. HIDE DEF Bad
    <3>. QED BY <3>1, <2>1
  <2>5. PICK h : UpTo(h, n - 1)
    BY <2>4
  <2>. DEFINE k == [i \in 1..Len(ss) |-> Chained(h, ss, i)]
  <2>6. ASSUME NEW i \in 1..Len(ss), i <= n PROVE k[i] = Chained(k, ss, i)
    <3>1. k[i] = Chained(h, ss, i)
      OBVIOUS
    <3>2. CASE i = 1
      BY <3>1, <3>2 DEF Chained
    <3>3. CASE i # 1
      <4>1. i - 1 \in 1..Len(ss) /\ i - 1 <= n - 1
        BY <2>2, <2>6, <3>3
      <4>2. h[i - 1] = Chained(h, ss, i - 1) /\ k[i - 1] = Chained(h, ss, i - 1)
        BY <4>1, <2>5
      <4>. QED BY <3>1, <3>3, <4>2 DEF Chained
    <3>. QED BY <3>2, <3>3
  <2>7. UpTo(k, n)
    BY <2>6
  <2>. QED BY <2>7, <2>2
<1>2. Len(ss) \notin Bad
  BY <1>1
<1>3. PICK h : UpTo(h, Len(ss))
  BY <1>2
<1>. DEFINE g == [i \in 1..Len(ss) |-> h[i]]
<1>4. ASSUME NEW i \in 1..Len(ss) PROVE g[i] = Chained(g, ss, i)
  <2>1. h[i] = Chained(h, ss, i)
    BY <1>3
  <2>2. i # 1 => i - 1 \in 1..Len(ss)
    OBVIOUS
  <2>. QED BY <2>1, <2>2 DEF Chained
<1>5. g = [i \in 1..Len(ss) |-> Chained(g, ss, i)]
  BY <1>4
<1>. QED BY <1>5 DEF Chains

\* Parts of one type are laid out as a sequence of that type.
LEMMA FlattenIsTyped ==
  ASSUME NEW T, NEW ss \in Seq(Seq(T))
  PROVE  FlattenSeq(ss) \in Seq(T)
<1>1. Len(ss) \in Nat /\ \A i \in 1..Len(ss) : ss[i] \in Seq(T)
  OBVIOUS
<1>2. CASE Len(ss) = 0
  <2>1. FlattenSeq(ss) = ss
    BY <1>2 DEF FlattenSeq
  <2>2. ss = <<>>
    BY <1>2
  <2>. QED BY <2>1, <2>2
<1>3. CASE Len(ss) # 0
  <2>1. PICK f : Chains(f, ss) /\ FlattenSeq(ss) = f[Len(ss)]
    BY <1>1, <1>3, FlattenExists, FlattenIsChosen
  <2>. DEFINE Bad == {i \in 1..Len(ss) : f[i] \notin Seq(T)}
  <2>2. Bad = {}
    <3>. SUFFICES ASSUME Bad # {} PROVE FALSE
      OBVIOUS
    <3>1. PICK n \in Bad : \A m \in Bad : n <= m
      <4>1. Bad \in SUBSET Nat
        BY <1>1
      <4>. HIDE DEF Bad
      <4>. QED BY <4>1, LeastElement
    <3>2. n \in 1..Len(ss) /\ f[n] \notin Seq(T)
      OBVIOUS
    <3>3. f[n] = Chained(f, ss, n)
      BY <2>1, <3>2 DEF Chains
    <3>4. n # 1
      BY <1>1, <3>2, <3>3 DEF Chained
    <3>5. n - 1 \in 1..Len(ss) /\ ~ (n <= n - 1)
      BY <1>1, <3>2, <3>4
    <3>6. n - 1 \notin Bad
      <4>. HIDE DEF Bad
      <4>. QED BY <3>1, <3>5
    <3>7. f[n - 1] \in Seq(T)
      BY <3>5, <3>6
    <3>8. f[n] = f[n - 1] \o ss[n]
      BY <3>3, <3>4 DEF Chained
    <3>9. ss[n] \in Seq(T)
      BY <1>1, <3>2
    <3>10. PICK a, b : a = f[n - 1] /\ b = ss[n]
      OBVIOUS
    <3>11. a \o b \in Seq(T)
      BY <3>7, <3>9, <3>10
    <3>. QED BY <3>2, <3>8, <3>10, <3>11
  <2>3. Len(ss) \in 1..Len(ss)
    BY <1>1, <1>3
  <2>. QED BY <2>1, <2>2, <2>3
<1>. QED BY <1>2, <1>3

\* The greatest of some indices of a sequence, and the least.
LEMMA GreatestIndex ==
  ASSUME NEW n \in Nat, NEW S \in SUBSET (1..n), S # {}
  PROVE  Max(S) \in S /\ \A x \in S : x <= Max(S)
<1>. DEFINE T == {n - x : x \in S}
<1>1. PICK m \in T : \A k \in T : m <= k
  <2>1. T \in SUBSET Nat
    <3>1. ASSUME NEW x \in S PROVE n - x \in Nat
      OBVIOUS
    <3>. QED BY <3>1
  <2>2. T # {}
    <3>1. PICK x : x \in S
      OBVIOUS
    <3>2. n - x \in T
      BY <3>1
    <3>. QED BY <3>2
  <2>. HIDE DEF T
  <2>. QED BY <2>1, <2>2, LeastElement
<1>2. PICK x \in S : m = n - x
  OBVIOUS
<1>3. ASSUME NEW y \in S PROVE y <= x
  <2>1. \E z \in S : n - y = n - z
    BY Zenon
  <2>3. n - y \in T
    BY <2>1
  <2>2. m <= n - y
    BY <1>1, <2>3
  <2>4. x \in Nat /\ y \in Nat
    OBVIOUS
  <2>. QED BY <2>2, <2>4, <1>2
<1>4. Max(S) \in S /\ \A y \in S : Max(S) >= y
  <2>1. \E z \in S : \A y \in S : z >= y
    <3>1. \A y \in S : x >= y
      BY <1>3
    <3>. QED BY <3>1
  <2>. QED BY <2>1 DEF Max
<1>. QED BY <1>4

\* The minimum of a nonempty set of natural numbers is its least element.
LEMMA LeastIndex ==
  ASSUME NEW S \in SUBSET Nat, S # {}
  PROVE  Min(S) \in S /\ \A x \in S : Min(S) <= x
<1>1. \E n \in S : \A m \in S : n <= m
  BY LeastElement
<1>. QED BY <1>1 DEF Min

\* The smaller of two numbers.
LEMMA MinOfTwo ==
  ASSUME NEW a \in Int, NEW b \in Int
  PROVE  Min({a, b}) \in {a, b} /\ Min({a, b}) <= a /\ Min({a, b}) <= b
<1>1. \E x \in {a, b} : \A y \in {a, b} : x <= y
  <2>1. a <= b \/ b <= a
    OBVIOUS
  <2>. QED BY <2>1
<1>2. Min({a, b}) \in {a, b} /\ \A y \in {a, b} : Min({a, b}) <= y
  BY <1>1 DEF Min
<1>. QED BY <1>2

\* The parts of a joined sequence.
LEMMA JoinedIs ==
  ASSUME NEW T, NEW s \in Seq(T), NEW t \in Seq(T)
  PROVE  /\ s \o t \in Seq(T) /\ Len(s \o t) = Len(s) + Len(t)
         /\ \A i \in 1..Len(s) : (s \o t)[i] = s[i]
         /\ \A i \in 1..Len(t) : (s \o t)[Len(s) + i] = t[i]
OBVIOUS
=============================================================================
