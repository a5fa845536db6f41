------------------------ MODULE BinaryResourceProofs ------------------------
(***************************************************************************)
(* The reader of binary resources: what it holds was charged first, and    *)
(* what it hands out exists, for every input, table, tree and limit.       *)
(*                                                                         *)
(* The rows of a table that were counted but not read yet are paid for, so *)
(* the invariant counts them (Ahead); the memory that orders the keys of a *)
(* dictionary is a number because a frame has met finitely many of them;   *)
(* and the ids are the rows below the main one, each naming a single row.  *)
(***************************************************************************)
EXTENDS BinaryResource, DataInduction, SequenceTheorems

\* What a key may say.
Said == {"", "empty"} \union {t.text : t \in Texts}

Holding == [texts : Nat, media : Nat, record : Nat, property : Nat, value : Nat]

AFrame == [kind : {"record", "dictionary", "array", "strings", "path"}, left : Int, next : {"name", "key", "value"},
           plain : BOOLEAN, keys : {K \in SUBSET Said : IsFiniteSet(K)}, twice : BOOLEAN]

Shape ==
  /\ pc \in {"header", "strings", "externals", "internals", "ids", "records", "done"}
  /\ size \in Nat /\ position \in Nat /\ allocation \in Nat /\ externals \in Nat
  /\ left \in Nat \union {Unknown} /\ (pc = "header" => left = Unknown)
  /\ strings \in Seq(Texts) /\ internals \in Seq([path : Texts, offset : Offsets])
  /\ owned \in Holding /\ Cardinality(ids) \in Nat
  /\ row \in Nat /\ (pc = "records" => row >= 1)
  /\ stack \in Seq(AFrame)

\* What n of a kind cost: a product the provers need not look into.
Weight(k, n) == n * Cost[k]

\* The rows a table was paid for and does not have yet.
Ahead(k) == IF pc = k /\ left # Unknown THEN left ELSE 0

TreeCost ==
  owned.texts + owned.media
  + Weight("record", owned.record) + Weight("property", owned.property) + Weight("value", owned.value)
TableCost ==
  Weight("strings", Len(strings) + Ahead("strings")) + Weight("externals", externals + Ahead("externals"))
  + Weight("internals", Len(internals) + Ahead("internals")) + Weight("id", Cardinality(ids))

PaidInv == allocation <= MaxAllocation /\ TreeCost + TableCost <= allocation

Resolves(h) ==
  CASE h.what = "medium"   -> h.index + h.wire <= size
    [] h.what = "external" -> h.index \in 1..externals
    [] OTHER -> /\ h.index \in 1..Len(internals)
                /\ LegacyIdMode =>
                     {h.index} = {i \in 1..(Len(internals) - 1) :
                                    internals[i].path.local = "id" /\ internals[i].path.id = h.wire}

\* The table of ids, once it is built.
IdsAreRows ==
  LegacyIdMode => IdsAreClear /\ ids = {[id |-> internals[i].path.id, row |-> i] : i \in Subresources}

RefInv ==
  /\ pc \notin {"records", "done"} => handed = {}
  /\ pc = "records" => IdsAreRows
  /\ \A h \in handed : Resolves(h)

ResourceInv == Shape /\ PaidInv /\ RefInv

-----------------------------------------------------------------------------
(* Costs.                                                                  *)

Priced == {"strings", "externals", "internals", "id", "record", "property", "value", "order"}

\* What costs nothing.
LEMMA NothingIsFree == 0 + 0 <= 0 /\ 0 \in Nat
OBVIOUS

\* An index counted from zero, as a place.
LEMMA PlaceOfIndex == ASSUME NEW i \in Nat, NEW n \in Nat, i < n PROVE i + 1 \in 1..n
OBVIOUS

\* A medium ends no later than what is read with it.
LEMMA MediumEnds ==
  ASSUME NEW p \in Nat, NEW q \in Nat, NEW n \in Nat, NEW d \in Nat, NEW e \in Nat, p + (4 + (q + 4 + n + d)) <= e
  PROVE  (p + 4 + q + 4) + n <= e
OBVIOUS

\* Each further element costs the same.
LEMMA Weights ==
  ASSUME NEW k \in Priced, NEW a \in Nat, NEW b \in Nat
  PROVE  /\ Weight(k, a) \in Nat /\ Weight(k, 0) = 0
         /\ Weight(k, a + b) = Weight(k, a) + Weight(k, b)
<1>1. PICK c \in Nat : c = Cost[k]
  BY ResourceAssumption DEF Priced
<1>2. a * c \in Nat /\ 0 * c = 0 /\ (a + b) * c = a * c + b * c
  OBVIOUS
<1>. QED BY <1>1, <1>2 DEF Weight

\* Fewer elements cost no more.
LEMMA WeightsGrow ==
  ASSUME NEW k \in Priced, NEW a \in Nat, NEW b \in Nat, a <= b
  PROVE  Weight(k, a) <= Weight(k, b)
<1>1. PICK d \in Nat : b = a + d
  <2>1. b - a \in Nat /\ b = a + (b - a)
    OBVIOUS
  <2>. QED BY <2>1
<1>2. Weight(k, a + d) = Weight(k, a) + Weight(k, d) /\ Weight(k, a) \in Nat
  BY Weights
<1>3. Weight(k, d) \in Nat
  BY Weights
<1>4. Weight(k, b) = Weight(k, a) + Weight(k, d)
  BY <1>1, <1>2
<1>. QED BY <1>2, <1>3, <1>4

\* Every part of the cost is a number.
LEMMA CostsAreNat ==
  ASSUME Shape
  PROVE  /\ TreeCost \in Nat /\ TableCost \in Nat
         /\ \A k \in {"strings", "externals", "internals"} : Ahead(k) \in Nat
         /\ Len(strings) \in Nat /\ Len(internals) \in Nat
<1>1. /\ owned.texts \in Nat /\ owned.media \in Nat /\ owned.record \in Nat /\ owned.property \in Nat
      /\ owned.value \in Nat
  BY DEF Shape, Holding
<1>2. Len(strings) \in Nat /\ Len(internals) \in Nat /\ externals \in Nat /\ Cardinality(ids) \in Nat
  BY DEF Shape
<1>3. \A k \in {"strings", "externals", "internals"} : Ahead(k) \in Nat
  BY DEF Shape, Ahead
<1>4. /\ Weight("record", owned.record) \in Nat /\ Weight("property", owned.property) \in Nat
      /\ Weight("value", owned.value) \in Nat
  BY <1>1, Weights DEF Priced
<1>5. TreeCost \in Nat
  BY <1>1, <1>4 DEF TreeCost
<1>6. /\ Len(strings) + Ahead("strings") \in Nat /\ externals + Ahead("externals") \in Nat
      /\ Len(internals) + Ahead("internals") \in Nat
  BY <1>2, <1>3
<1>7. /\ Weight("strings", Len(strings) + Ahead("strings")) \in Nat
      /\ Weight("externals", externals + Ahead("externals")) \in Nat
      /\ Weight("internals", Len(internals) + Ahead("internals")) \in Nat
      /\ Weight("id", Cardinality(ids)) \in Nat
  BY <1>2, <1>6, Weights DEF Priced
<1>8. TableCost \in Nat
  BY <1>7 DEF TableCost
<1>. QED BY <1>2, <1>3, <1>5, <1>8

\* The tree with this much more in it.
Grown(o, t, m, p, v) ==
  [texts |-> o.texts + t, media |-> o.media + m, record |-> o.record, property |-> o.property + p, value |-> o.value + v]

\* Growing a tree grows its cost by the cost of what it gains.
LEMMA GrownCosts ==
  ASSUME Shape, NEW t \in Nat, NEW m \in Nat, NEW p \in Nat, NEW v \in Nat, owned' = Grown(owned, t, m, p, v)
  PROVE  /\ owned' \in Holding
         /\ TreeCost' = TreeCost + (t + m + Weight("property", p) + Weight("value", v))
<1>1. PICK a, b, c, d, e \in Nat : /\ a = owned.texts /\ b = owned.media /\ c = owned.record
                                   /\ d = owned.property /\ e = owned.value
  BY DEF Shape, Holding
<1>2. /\ owned'.texts = a + t /\ owned'.media = b + m /\ owned'.record = c
      /\ owned'.property = d + p /\ owned'.value = e + v
  BY <1>1 DEF Grown
<1>3. owned' \in Holding
  BY <1>1 DEF Grown, Holding
<1>4. /\ Weight("property", d + p) = Weight("property", d) + Weight("property", p)
      /\ Weight("value", e + v) = Weight("value", e) + Weight("value", v)
      /\ Weight("record", c) \in Nat /\ Weight("property", d) \in Nat /\ Weight("property", p) \in Nat
      /\ Weight("value", e) \in Nat /\ Weight("value", v) \in Nat
  <2>1. "property" \in Priced /\ "value" \in Priced /\ "record" \in Priced
    BY DEF Priced
  <2>2. Weight("property", d + p) = Weight("property", d) + Weight("property", p)
    BY <2>1, Weights
  <2>3. Weight("value", e + v) = Weight("value", e) + Weight("value", v)
    BY <2>1, Weights
  <2>4. Weight("record", c) \in Nat /\ Weight("property", d) \in Nat /\ Weight("property", p) \in Nat
    BY <2>1, Weights
  <2>5. Weight("value", e) \in Nat /\ Weight("value", v) \in Nat
    BY <2>1, Weights
  <2>. QED BY <2>2, <2>3, <2>4, <2>5
<1>5. PICK wr, wd, wp, we, wv \in Nat : /\ wr = Weight("record", c) /\ wd = Weight("property", d)
                                        /\ wp = Weight("property", p) /\ we = Weight("value", e) /\ wv = Weight("value", v)
  BY <1>4
<1>6. TreeCost = a + b + wr + wd + we
  BY <1>1, <1>5 DEF TreeCost
<1>7. TreeCost' = (a + t) + (b + m) + wr + (wd + wp) + (we + wv)
  <2>1. TreeCost' = owned'.texts + owned'.media + Weight("record", owned'.record)
                    + Weight("property", owned'.property) + Weight("value", owned'.value)
    BY DEF TreeCost, Weight
  <2>. QED BY <1>2, <1>4, <1>5, <2>1
<1>8. TreeCost' = TreeCost + (t + m + wp + wv)
  BY <1>5, <1>6, <1>7
<1>. QED BY <1>3, <1>5, <1>8

\* The ways the reader adds to the tree.
LEMMA WaysToGrow ==
  ASSUME owned \in Holding, NEW x \in Nat, NEW y \in Nat
  PROVE  /\ owned = Grown(owned, 0, 0, 0, 0)
         /\ [owned EXCEPT !.texts = @ + x] = Grown(owned, x, 0, 0, 0)
         /\ [owned EXCEPT !.media = @ + x] = Grown(owned, 0, x, 0, 0)
         /\ [owned EXCEPT !.value = @ + x, !.property = @ + y] = Grown(owned, 0, 0, y, x)
         /\ [owned EXCEPT !.texts = @ + x, !.property = @ + y] = Grown(owned, x, 0, y, 0)
<1>. PICK a, b, c, d, e \in Nat : owned = [texts |-> a, media |-> b, record |-> c, property |-> d, value |-> e]
  BY DEF Holding
<1>1. a + 0 = a /\ b + 0 = b /\ d + 0 = d /\ e + 0 = e
  OBVIOUS
<1>2. owned = Grown(owned, 0, 0, 0, 0)
  BY <1>1 DEF Grown
<1>3. [owned EXCEPT !.texts = @ + x] = Grown(owned, x, 0, 0, 0)
  BY <1>1 DEF Grown
<1>4. [owned EXCEPT !.media = @ + x] = Grown(owned, 0, x, 0, 0)
  BY <1>1 DEF Grown
<1>5. [owned EXCEPT !.value = @ + x, !.property = @ + y] = Grown(owned, 0, 0, y, x)
  <2>1. owned.value = e /\ owned.property = d
    OBVIOUS
  <2>2. [owned EXCEPT !.value = e + x, !.property = d + y]
        = [texts |-> a, media |-> b, record |-> c, property |-> d + y, value |-> e + x]
    <3>1. [owned EXCEPT !.value = e + x, !.property = d + y]
          = [[owned EXCEPT !.value = e + x] EXCEPT !.property = d + y]
      OBVIOUS
    <3>2. [owned EXCEPT !.value = e + x] = [texts |-> a, media |-> b, record |-> c, property |-> d, value |-> e + x]
      OBVIOUS
    <3>3. \A n : [[texts |-> a, media |-> b, record |-> c, property |-> d, value |-> e + x] EXCEPT !.property = n]
                 = [texts |-> a, media |-> b, record |-> c, property |-> n, value |-> e + x]
      OBVIOUS
    <3>. QED BY <3>1, <3>2, <3>3
  <2>3. Grown(owned, 0, 0, y, x) = [texts |-> a, media |-> b, record |-> c, property |-> d + y, value |-> e + x]
    BY <1>1 DEF Grown
  <2>. QED BY <2>1, <2>2, <2>3
<1>6. [owned EXCEPT !.texts = @ + x, !.property = @ + y] = Grown(owned, x, 0, y, 0)
  <2>1. owned.texts = a /\ owned.property = d
    OBVIOUS
  <2>2. [owned EXCEPT !.texts = a + x, !.property = d + y]
        = [texts |-> a + x, media |-> b, record |-> c, property |-> d + y, value |-> e]
    <3>1. [owned EXCEPT !.texts = a + x, !.property = d + y]
          = [[owned EXCEPT !.texts = a + x] EXCEPT !.property = d + y]
      OBVIOUS
    <3>2. [owned EXCEPT !.texts = a + x] = [texts |-> a + x, media |-> b, record |-> c, property |-> d, value |-> e]
      OBVIOUS
    <3>3. \A n : [[texts |-> a + x, media |-> b, record |-> c, property |-> d, value |-> e] EXCEPT !.property = n]
                 = [texts |-> a + x, media |-> b, record |-> c, property |-> n, value |-> e]
      OBVIOUS
    <3>. QED BY <3>1, <3>2, <3>3
  <2>3. Grown(owned, x, 0, y, 0) = [texts |-> a + x, media |-> b, record |-> c, property |-> d + y, value |-> e]
    BY <1>1 DEF Grown
  <2>. QED BY <2>1, <2>2, <2>3
<1>. QED BY <1>2, <1>3, <1>4, <1>5, <1>6

\* Tables that do not change cost what they did.
LEMMA TablesStay ==
  ASSUME UNCHANGED <<strings, externals, internals, ids>>, \A k \in {"strings", "externals", "internals"} : Ahead(k)' = Ahead(k)
  PROVE  TableCost' = TableCost
BY DEF TableCost, Weight

\* What was charged before it was kept.
LEMMA PaidKeeps ==
  ASSUME Shape, PaidInv, NEW amount \in Nat, amount <= MaxAllocation - allocation, allocation' = allocation + amount,
         NEW t \in Nat, t <= amount, TreeCost' = TreeCost + t, TableCost' = TableCost
  PROVE  PaidInv' /\ allocation' \in Nat
<1>1. TreeCost \in Nat /\ TableCost \in Nat /\ allocation \in Nat /\ MaxAllocation \in Nat
  BY CostsAreNat, ResourceAssumption DEF Shape
<1>. QED BY <1>1 DEF PaidInv

-----------------------------------------------------------------------------
(* A parser that is gone.                                                  *)

\* A parser that is gone owns nothing.
LEMMA DropKeeps ==
  ASSUME ResourceInv, NEW how, Drop(how)
  PROVE  ResourceInv'
<1>1. /\ pc' = "done" /\ position' = 0 /\ allocation' = 0 /\ size' = size
      /\ strings' = <<>> /\ externals' = 0 /\ internals' = <<>> /\ ids' = {}
      /\ left' = Unknown /\ row' = 0 /\ stack' = <<>> /\ owned' = Nothing /\ handed' = {}
  BY DEF Drop
<1>2. Shape'
  BY <1>1, FS_EmptySet DEF ResourceInv, Shape, Nothing, Holding
<1>3. RefInv'
  BY <1>1 DEF RefInv
<1>4. \A k \in Priced : Weight(k, 0) = 0
  BY Weights
<1>5. TreeCost' = 0
  <2>1. TreeCost' = 0 + 0 + Weight("record", 0) + Weight("property", 0) + Weight("value", 0)
    BY <1>1 DEF TreeCost, Nothing, Weight
  <2>. QED BY <1>4, <2>1 DEF Priced
<1>6. TableCost' = 0
  <2>1. Cardinality(ids') = 0 /\ Len(strings') = 0 /\ Len(internals') = 0
    BY <1>1, FS_EmptySet
  <2>2. \A k : Ahead(k)' = 0
    BY <1>1 DEF Ahead
  <2>3. TableCost' = Weight("strings", 0) + Weight("externals", 0) + Weight("internals", 0) + Weight("id", 0)
    BY <1>1, <2>1, <2>2 DEF TableCost, Weight
  <2>. QED BY <1>4, <2>3 DEF Priced
<1>7. PaidInv'
  BY <1>1, <1>5, <1>6, ResourceAssumption DEF PaidInv
<1>. QED BY <1>2, <1>3, <1>7 DEF ResourceInv

\* A refusal leaves nothing behind.
LEMMA FailKeeps == ResourceInv /\ Fail => ResourceInv'
BY DropKeeps DEF Fail

\* Before the first byte nothing is charged and nothing is held.
LEMMA ResourceInvInit == ResourceInit => ResourceInv
<1>. SUFFICES ASSUME ResourceInit PROVE ResourceInv
  OBVIOUS
<1>1. /\ pc = "header" /\ position = 0 /\ allocation = 0 /\ size \in Nat
      /\ strings = <<>> /\ externals = 0 /\ internals = <<>> /\ ids = {}
      /\ left = Unknown /\ row = 0 /\ stack = <<>> /\ owned = Nothing /\ handed = {}
  BY ResourceAssumption DEF ResourceInit
<1>2. Shape
  BY <1>1, FS_EmptySet DEF Shape, Nothing, Holding
<1>3. RefInv
  BY <1>1 DEF RefInv
<1>4. \A k \in Priced : Weight(k, 0) = 0
  BY Weights
<1>5. TreeCost = 0
  <2>1. TreeCost = 0 + 0 + Weight("record", 0) + Weight("property", 0) + Weight("value", 0)
    BY <1>1 DEF TreeCost, Nothing
  <2>. QED BY <1>4, <2>1 DEF Priced
<1>6. TableCost = 0
  <2>1. Cardinality(ids) = 0 /\ Len(strings) = 0 /\ Len(internals) = 0
    BY <1>1, FS_EmptySet
  <2>2. \A k : Ahead(k) = 0
    BY <1>1 DEF Ahead
  <2>3. TableCost = Weight("strings", 0) + Weight("externals", 0) + Weight("internals", 0) + Weight("id", 0)
    BY <1>1, <2>1, <2>2 DEF TableCost
  <2>. QED BY <1>4, <2>3 DEF Priced
<1>7. PaidInv
  BY <1>1, <1>5, <1>6, ResourceAssumption DEF PaidInv
<1>. QED BY <1>2, <1>3, <1>7 DEF ResourceInv

-----------------------------------------------------------------------------
(* Frames.                                                                 *)

\* What is read next in a frame of a kind.
LEMMA FirstIsDue == ASSUME NEW k PROVE First(k) \in {"name", "key", "value"}
BY DEF First

\* A frame one step further is a frame.
LEMMA AdvancedIsFrame ==
  ASSUME stack \in Seq(AFrame), stack # <<>>, NEW text \in Said
  PROVE  Advanced(text) \in AFrame /\ Front(stack) \in Seq(AFrame) /\ Top \in AFrame
<1>1. Len(stack) \in Nat /\ Len(stack) >= 1 /\ Len(stack) \in 1..Len(stack)
  OBVIOUS
<1>2. Top \in AFrame
  BY <1>1 DEF Top, Last
<1>3. Front(stack) \in Seq(AFrame)
  <2>1. \A i \in 1..(Len(stack) - 1) : stack[i] \in AFrame
    BY <1>1
  <2>. QED BY <1>1, <2>1, SubSeqProperties DEF Front
<1>4. PICK f \in AFrame : f = Top
  BY <1>2
<1>5. f.keys \in SUBSET Said /\ IsFiniteSet(f.keys) /\ f.left \in Int
  BY DEF AFrame
<1>6. PICK K : K = f.keys \union {text} /\ K \in {S \in SUBSET Said : IsFiniteSet(S)}
  <2>1. IsFiniteSet(f.keys \union {text}) /\ f.keys \union {text} \in SUBSET Said
    BY <1>5, FS_AddElement
  <2>. QED BY <2>1
<1>7. CASE f.next = "name" /\ f.kind = "record"
  <2>1. Advanced(text) = [f EXCEPT !.next = "value"]
    BY <1>4, <1>7 DEF Advanced
  <2>. QED BY <1>3, <1>2, <2>1 DEF AFrame
<1>8. CASE f.next = "key"
  <2>1. PICK a, b : a = (f.plain /\ text # "") /\ b = (f.twice \/ text \in f.keys) /\ a \in BOOLEAN /\ b \in BOOLEAN
    BY Zenon
  <2>2. Advanced(text) = [f EXCEPT !.next = "value", !.plain = a, !.keys = K, !.twice = b]
    BY <1>4, <1>6, <1>8, <2>1 DEF Advanced
  <2>3. [f EXCEPT !.next = "value", !.plain = a, !.keys = K, !.twice = b] \in AFrame
    BY <1>6, <2>1 DEF AFrame
  <2>. QED BY <1>3, <1>2, <2>2, <2>3
<1>9. CASE f.next # "key" /\ ~ (f.next = "name" /\ f.kind = "record")
  <2>1. PICK n : n = (IF f.kind \in {"path", "strings"} THEN f.next ELSE First(f.kind)) /\ n \in {"name", "key", "value"}
    BY FirstIsDue DEF AFrame
  <2>2. Advanced(text) = [f EXCEPT !.left = f.left - 1, !.next = n]
    BY <1>4, <1>9, <2>1 DEF Advanced
  <2>3. f.left - 1 \in Int
    BY <1>5
  <2>4. [f EXCEPT !.left = f.left - 1, !.next = n] \in AFrame
    BY <2>1, <2>3 DEF AFrame
  <2>. QED BY <1>2, <1>3, <2>2, <2>4
<1>. QED BY <1>7, <1>8, <1>9

\* A new frame.
LEMMA FramesAreFrames ==
  ASSUME NEW kind \in {"record", "dictionary", "array", "strings", "path"}, NEW count \in Nat, NEW next \in {"name", "key", "value"}
  PROVE  Frame(kind, count, next) \in AFrame
BY FS_EmptySet DEF Frame, AFrame

\* A frame that has its value is a frame.
LEMMA ReturnKeeps ==
  ASSUME stack \in Seq(AFrame), stack # <<>>, NEW text \in Said, Return(text)
  PROVE  stack' \in Seq(AFrame)
<1>1. Front(stack) \in Seq(AFrame) /\ Advanced(text) \in AFrame
  BY AdvancedIsFrame
<1>. QED BY <1>1, AppendProperties DEF Return

\* A frame that is entered joins those that wait.
LEMMA EnterKeeps ==
  ASSUME stack \in Seq(AFrame), stack # <<>>, NEW frame \in AFrame, Enter(frame)
  PROVE  stack' \in Seq(AFrame)
<1>1. "" \in Said
  BY DEF Said
<1>2. PICK s, a : s = Front(stack) /\ a = Advanced("") /\ s \in Seq(AFrame) /\ a \in AFrame
  BY <1>1, AdvancedIsFrame
<1>3. Append(s, a) \in Seq(AFrame)
  BY <1>2, AppendProperties
<1>4. Append(Append(s, a), frame) \in Seq(AFrame)
  BY <1>3, AppendProperties
<1>. QED BY <1>2, <1>4 DEF Enter

-----------------------------------------------------------------------------
(* References.                                                             *)

\* A reference that resolved goes on resolving while the tables stay.
LEMMA ResolvesKeeps ==
  ASSUME UNCHANGED <<size, header, externals, internals>>
  PROVE  \A h : Resolves(h) => Resolves(h)'
BY DEF Resolves, LegacyIdMode, Modern

\* While the directories stay as they are, what resolved still does.
LEMMA TablesKeepRefs ==
  ASSUME RefInv, pc = "records", UNCHANGED <<size, pc, header, externals, internals, ids>>,
         \A h \in handed' \ handed : Resolves(h)
  PROVE  RefInv'
<1>1. \A h \in handed' : Resolves(h)'
  BY ResolvesKeeps DEF RefInv
<1>2. IdsAreRows'
  BY DEF RefInv, IdsAreRows, IdsAreClear, Subresources, LegacyIdMode, Modern
<1>. QED BY <1>1, <1>2 DEF RefInv

\* A step of the reader that pays for what it adds to the tree and hands out
\* only what resolves.
LEMMA ReaderKeeps ==
  ASSUME ResourceInv, pc = "records", UNCHANGED <<size, pc, header, strings, externals, internals, ids, left>>,
         row' \in Nat, row' >= 1, stack' \in Seq(AFrame), position' \in Nat,
         NEW amount \in Nat, amount <= MaxAllocation - allocation, allocation' = allocation + amount,
         NEW t \in Nat, NEW m \in Nat, NEW p \in Nat, NEW v \in Nat, owned' = Grown(owned, t, m, p, v),
         t + m + Weight("property", p) + Weight("value", v) <= amount,
         \A h \in handed' \ handed : Resolves(h)
  PROVE  ResourceInv'
<1>1. Shape /\ PaidInv /\ RefInv
  BY DEF ResourceInv
<1>2. owned' \in Holding /\ TreeCost' = TreeCost + (t + m + Weight("property", p) + Weight("value", v))
  BY <1>1, GrownCosts
<1>3. TableCost' = TableCost
  <2>1. \A k \in {"strings", "externals", "internals"} : Ahead(k)' = Ahead(k)
    BY DEF Ahead
  <2>. QED BY <2>1, TablesStay
<1>4. PICK w \in Nat : w = t + m + Weight("property", p) + Weight("value", v)
  <2>1. Weight("property", p) \in Nat /\ Weight("value", v) \in Nat
    BY Weights DEF Priced
  <2>. QED BY <2>1
<1>5. PaidInv' /\ allocation' \in Nat
  BY <1>1, <1>2, <1>3, <1>4, PaidKeeps
<1>6. Shape'
  BY <1>1, <1>2, <1>5 DEF Shape
<1>7. RefInv'
  BY <1>1, TablesKeepRefs
<1>. QED BY <1>5, <1>6, <1>7 DEF ResourceInv

\* The same for a read of the next bytes.
LEMMA ReadKeeps ==
  ASSUME ResourceInv, pc = "records", UNCHANGED Kind, stack' \in Seq(AFrame),
         NEW bytes \in Nat, NEW amount \in Nat, Fits(bytes, amount), Take(bytes, amount),
         NEW t \in Nat, NEW m \in Nat, NEW p \in Nat, NEW v \in Nat, owned' = Grown(owned, t, m, p, v),
         t + m + Weight("property", p) + Weight("value", v) <= amount,
         \A h \in handed' \ handed : Resolves(h)
  PROVE  ResourceInv'
<1>1. UNCHANGED <<size, pc, header, strings, externals, internals, ids, left, row>>
  BY DEF Kind
<1>2. row' \in Nat /\ row' >= 1 /\ position \in Nat
  BY <1>1 DEF ResourceInv, Shape
<1>3. amount <= MaxAllocation - allocation /\ allocation' = allocation + amount /\ position' = position + bytes
  BY DEF Fits, Take
<1>4. position' \in Nat
  BY <1>2, <1>3
<1>. QED BY <1>1, <1>2, <1>3, <1>4, ReaderKeeps

\* A value without children.
LEMMA LeafKeeps ==
  ASSUME ResourceInv, pc = "records", stack # <<>>, NEW text \in Said, Return(text), UNCHANGED Kind,
         NEW bytes \in Nat, NEW amount \in Nat, Fits(bytes, amount), Take(bytes, amount),
         NEW t \in Nat, NEW m \in Nat, owned' = Grown(owned, t, m, 0, 0), t + m <= amount,
         \A h \in handed' \ handed : Resolves(h)
  PROVE  ResourceInv'
<1>1. stack' \in Seq(AFrame)
  BY ReturnKeeps DEF ResourceInv, Shape
<1>2. Weight("property", 0) = 0 /\ Weight("value", 0) = 0
  BY Weights DEF Priced
<1>3. t + m + Weight("property", 0) + Weight("value", 0) <= amount
  BY <1>2
<1>. QED BY <1>1, <1>3, ReadKeeps

-----------------------------------------------------------------------------
(* The header and the tables.                                              *)

\* A text that is kept is no longer than the bytes it was charged for.
LEMMA KeptFacts ==
  ASSUME NEW text \in Texts \union Types
  PROVE  text.length \in Nat /\ Kept(text) \in Nat /\ Kept(text) <= text.length
<1>1. PICK n \in Nat : n = text.length
  BY ResourceAssumption
<1>. QED BY <1>1 DEF Kept

\* The header pays for its types.
LEMMA HeaderKeeps == ResourceInv /\ Header => ResourceInv'
<1>. SUFFICES ASSUME ResourceInv, Header PROVE ResourceInv'
  OBVIOUS
<1>1. PICK h \in Headers, magic \in {"RSRC", "other", "none"}, type \in Types, script \in Types, import \in Offsets :
        LET bytes == (IF magic = "none" THEN 0 ELSE 4) + 20 + 4 + type.length + 8
                     + (IF h.major = 4 THEN 12 + (IF h.script THEN 4 + script.length ELSE 0) + 44 ELSE 56)
            paid  == type.length + IF h.script THEN script.length ELSE 0
        IN \/ Fail
           \/ Drop("unwanted")
           \/ /\ Fits(bytes, paid)
              /\ header' = h /\ Take(bytes, paid) /\ owned' = [owned EXCEPT !.texts = @ + Kept(type)]
              /\ pc' = "strings" /\ UNCHANGED <<size, mode, nodes, Tables, left, result>>
  BY DEF Header
<1>. DEFINE bytes == (IF magic = "none" THEN 0 ELSE 4) + 20 + 4 + type.length + 8
                     + (IF h.major = 4 THEN 12 + (IF h.script THEN 4 + script.length ELSE 0) + 44 ELSE 56)
            paid  == type.length + IF h.script THEN script.length ELSE 0
<1>2. CASE Fail
  BY <1>2, FailKeeps
<1>3. CASE Drop("unwanted")
  BY <1>3, DropKeeps
<1>4. CASE /\ Fits(bytes, paid)
           /\ Take(bytes, paid) /\ owned' = [owned EXCEPT !.texts = @ + Kept(type)]
           /\ pc' = "strings" /\ UNCHANGED <<size, mode, nodes, Tables, left, result>>
  <2>1. /\ type.length \in Nat /\ script.length \in Nat /\ Kept(type) \in Nat /\ Kept(type) <= type.length
    BY KeptFacts
  <2>2. paid \in Nat /\ Kept(type) <= paid
    BY <2>1
  <2>3. bytes \in Nat
    <3>1. PICK a \in Nat : a = (IF magic = "none" THEN 0 ELSE 4)
      OBVIOUS
    <3>2. PICK b \in Nat : b = (IF h.script THEN 4 + script.length ELSE 0)
      BY <2>1
    <3>3. PICK c \in Nat : c = (IF h.major = 4 THEN 12 + b + 44 ELSE 56)
      OBVIOUS
    <3>4. bytes = a + 20 + 4 + type.length + 8 + c
      BY <3>1, <3>2, <3>3
    <3>. QED BY <2>1, <3>4
  <2>. HIDE DEF bytes, paid
  <2>4. /\ pc = "header" /\ pc' = "strings" /\ left = Unknown /\ left' = Unknown /\ size' = size
        /\ UNCHANGED <<strings, externals, internals, ids, row, stack, handed>>
        /\ paid <= MaxAllocation - allocation /\ allocation' = allocation + paid /\ position' = position + bytes
    BY <1>4 DEF ResourceInv, Shape, Header, Fits, Take, Tables
  <2>5. Shape /\ PaidInv /\ handed = {}
    BY <2>4 DEF ResourceInv, RefInv
  <2>6. owned' = Grown(owned, Kept(type), 0, 0, 0)
    BY <1>4, <2>1, <2>5, WaysToGrow DEF Shape
  <2>7. owned' \in Holding /\ TreeCost' = TreeCost + Kept(type)
    <3>1. owned' \in Holding /\ TreeCost' = TreeCost + (Kept(type) + 0 + Weight("property", 0) + Weight("value", 0))
      BY <2>1, <2>5, <2>6, GrownCosts
    <3>2. Weight("property", 0) = 0 /\ Weight("value", 0) = 0
      BY Weights DEF Priced
    <3>3. Kept(type) + 0 + 0 + 0 = Kept(type)
      BY <2>1
    <3>. QED BY <3>1, <3>2, <3>3
  <2>8. TableCost' = TableCost
    <3>1. \A k \in {"strings", "externals", "internals"} : Ahead(k)' = Ahead(k)
      BY <2>4 DEF Ahead
    <3>. QED BY <2>4, <3>1, TablesStay
  <2>9. PaidInv' /\ allocation' \in Nat
    BY <2>1, <2>2, <2>4, <2>5, <2>7, <2>8, PaidKeeps
  <2>10. position' \in Nat
    BY <2>3, <2>4, <2>5 DEF Shape
  <2>11. Shape'
    BY <2>4, <2>5, <2>7, <2>9, <2>10 DEF Shape
  <2>12. RefInv'
    BY <2>4, <2>5 DEF RefInv
  <2>. QED BY <2>9, <2>11, <2>12 DEF ResourceInv
<1>. QED BY <1>1, <1>2, <1>3, <1>4

\* The tables that are counted.
LEMMA CountedTables ==
  /\ DOMAIN After = {"strings", "externals", "internals"}
  /\ \A k \in {"strings", "externals", "internals"} :
       Minimum[k] \in Nat /\ After[k] \in {"externals", "internals", "ids"}
BY DEF After, Minimum

\* Every row of a table is paid for before the first one is read.
LEMMA TableCountKeeps == ResourceInv /\ TableCount => ResourceInv'
<1>. SUFFICES ASSUME ResourceInv, TableCount PROVE ResourceInv'
  OBVIOUS
<1>1. PICK count \in Counts :
        \/ Fail
        \/ /\ Fits(4, count * Cost[pc])
           /\ Take(4, count * Cost[pc]) /\ left' = count
           /\ UNCHANGED <<size, mode, pc, nodes, header, Tables, owned, result>>
  BY DEF TableCount
<1>2. CASE Fail
  BY <1>2, FailKeeps
<1>3. CASE /\ Fits(4, count * Cost[pc])
           /\ Take(4, count * Cost[pc]) /\ left' = count
           /\ UNCHANGED <<size, mode, pc, nodes, header, Tables, owned, result>>
  <2>1. count \in Nat
    BY ResourceAssumption
  <2>2. /\ pc \in {"strings", "externals", "internals"} /\ left = Unknown
        /\ left' = count /\ UNCHANGED <<size, pc, strings, externals, internals, ids, row, stack, handed, owned>>
        /\ Weight(pc, count) <= MaxAllocation - allocation /\ allocation' = allocation + Weight(pc, count)
        /\ position' = position + 4
    BY <1>3, CountedTables DEF TableCount, Fits, Take, Tables, Weight
  <2>3. Shape /\ PaidInv /\ handed = {}
    BY <2>2 DEF ResourceInv, RefInv
  <2>4. TreeCost' = TreeCost
    BY <2>2 DEF TreeCost, Weight
  <2>5. /\ Len(strings) \in Nat /\ Len(internals) \in Nat /\ externals \in Nat
        /\ \A k \in {"strings", "externals", "internals"} : Ahead(k) = 0
    BY <2>2, <2>3, CostsAreNat DEF Shape, Ahead
  <2>6. \A k \in {"strings", "externals", "internals"} : Ahead(k)' = IF k = pc THEN count ELSE 0
    BY <2>1, <2>2 DEF Ahead, Unknown
  <2>7. TableCost' = TableCost + Weight(pc, count) /\ Weight(pc, count) \in Nat
    <3>1. \A k \in {"strings", "externals", "internals"} : \A n \in Nat :
             Weight(k, n + Ahead(k)') = Weight(k, n + Ahead(k)) + (IF k = pc THEN Weight(pc, count) ELSE 0)
      <4>. SUFFICES ASSUME NEW k \in {"strings", "externals", "internals"}, NEW n \in Nat
                    PROVE  Weight(k, n + Ahead(k)') = Weight(k, n + Ahead(k)) + (IF k = pc THEN Weight(pc, count) ELSE 0)
        OBVIOUS
      <4>1. n + 0 = n /\ Ahead(k) = 0 /\ k \in Priced
        BY <2>5 DEF Priced
      <4>2. Weight(k, n + count) = Weight(k, n) + Weight(k, count) /\ Weight(k, n) \in Nat
        BY <2>1, <4>1, Weights
      <4>3. CASE k = pc
        BY <2>6, <4>1, <4>2, <4>3
      <4>4. CASE k # pc
        BY <2>6, <4>1, <4>2, <4>4
      <4>. QED BY <4>3, <4>4
    <3>2. Weight(pc, count) \in Nat
      BY <2>1, <2>2, Weights DEF Priced
    <3>3. PICK a, b, c, d : /\ a = Weight("strings", Len(strings) + Ahead("strings"))
                            /\ b = Weight("externals", externals + Ahead("externals"))
                            /\ c = Weight("internals", Len(internals) + Ahead("internals"))
                            /\ d = Weight("id", Cardinality(ids))
                            /\ a \in Nat /\ b \in Nat /\ c \in Nat /\ d \in Nat
      <4>1. /\ Len(strings) + Ahead("strings") \in Nat /\ externals + Ahead("externals") \in Nat
            /\ Len(internals) + Ahead("internals") \in Nat /\ Cardinality(ids) \in Nat
        BY <2>3, <2>5 DEF Shape
      <4>2. /\ Weight("strings", Len(strings) + Ahead("strings")) \in Nat
            /\ Weight("externals", externals + Ahead("externals")) \in Nat
            /\ Weight("internals", Len(internals) + Ahead("internals")) \in Nat
            /\ Weight("id", Cardinality(ids)) \in Nat
        BY <4>1, Weights DEF Priced
      <4>. QED BY <4>2
    <3>4. TableCost = a + b + c + d
      BY <3>3 DEF TableCost
    <3>5. TableCost' = Weight("strings", Len(strings) + Ahead("strings")') + Weight("externals", externals + Ahead("externals")')
                       + Weight("internals", Len(internals) + Ahead("internals")') + d
      BY <2>2, <3>3 DEF TableCost, Weight
    <3>6. /\ Weight("strings", Len(strings) + Ahead("strings")') = a + (IF pc = "strings" THEN Weight(pc, count) ELSE 0)
          /\ Weight("externals", externals + Ahead("externals")') = b + (IF pc = "externals" THEN Weight(pc, count) ELSE 0)
          /\ Weight("internals", Len(internals) + Ahead("internals")') = c + (IF pc = "internals" THEN Weight(pc, count) ELSE 0)
      BY <2>5, <3>1, <3>3
    <3>7. PICK w \in Nat : w = Weight(pc, count)
      BY <3>2
    <3>8. PICK x, y, z : /\ x = Weight("strings", Len(strings) + Ahead("strings")')
                         /\ y = Weight("externals", externals + Ahead("externals")')
                         /\ z = Weight("internals", Len(internals) + Ahead("internals")')
                         /\ TableCost' = x + y + z + d
      BY <3>5
    <3>9. PICK n : n = TableCost' /\ n = x + y + z + d
      BY <3>8
    <3>10. a \in Nat /\ b \in Nat /\ c \in Nat /\ d \in Nat /\ w \in Nat
      BY <3>3
    <3>11. n = a + b + c + d + w
      <4>1. CASE pc = "strings"
        <5>1. x = a + w /\ y = b + 0 /\ z = c + 0
          BY <3>6, <3>7, <3>8, <4>1
        <5>. QED BY ONLY <3>9, <3>10, <5>1
      <4>2. CASE pc = "externals"
        <5>1. x = a + 0 /\ y = b + w /\ z = c + 0
          BY <3>6, <3>7, <3>8, <4>2
        <5>. QED BY ONLY <3>9, <3>10, <5>1
      <4>3. CASE pc = "internals"
        <5>1. x = a + 0 /\ y = b + 0 /\ z = c + w
          BY <3>6, <3>7, <3>8, <4>3
        <5>. QED BY ONLY <3>9, <3>10, <5>1
      <4>. QED BY <2>2, <4>1, <4>2, <4>3
    <3>12. TableCost' = a + b + c + d + w
      BY <3>9, <3>11
    <3>. QED BY <3>4, <3>7, <3>12
  <2>8. TreeCost \in Nat /\ TableCost \in Nat /\ allocation \in Nat /\ MaxAllocation \in Nat
    BY <2>3, CostsAreNat, ResourceAssumption DEF Shape
  <2>9. PaidInv' /\ allocation' \in Nat
    BY <2>2, <2>3, <2>4, <2>7, <2>8 DEF PaidInv
  <2>10. Shape'
    BY <2>1, <2>2, <2>3, <2>9 DEF Shape
  <2>11. RefInv'
    BY <2>2, <2>3 DEF RefInv
  <2>. QED BY <2>9, <2>10, <2>11 DEF ResourceInv
<1>. QED BY <1>1, <1>2, <1>3

\* A row takes the place that was paid for it.
LEMMA TableRowKeeps == ResourceInv /\ TableRow => ResourceInv'
<1>. SUFFICES ASSUME ResourceInv, TableRow PROVE ResourceInv'
  OBVIOUS
<1>1. PICK text \in Texts, path \in Types, offset \in Offsets :
        LET read == IF pc = "externals" THEN text.length + path.length ELSE text.length
        IN \/ Fail
           \/ /\ Fits(read + Minimum[pc], read)
              /\ Take(read + Minimum[pc], read) /\ left' = left - 1
              /\ strings' = IF pc = "strings" THEN Append(strings, text) ELSE strings
              /\ externals' = IF pc = "externals" THEN externals + 1 ELSE externals
              /\ internals' = IF pc = "internals" THEN Append(internals, [path |-> text, offset |-> offset]) ELSE internals
              /\ owned' = [owned EXCEPT !.texts = @ + Kept(text) + IF pc = "externals" THEN Kept(path) ELSE 0]
              /\ UNCHANGED <<size, mode, pc, nodes, header, ids, row, stack, handed, result>>
  BY DEF TableRow
<1>. DEFINE read == IF pc = "externals" THEN text.length + path.length ELSE text.length
            kept == Kept(text) + IF pc = "externals" THEN Kept(path) ELSE 0
<1>2. CASE Fail
  BY <1>2, FailKeeps
<1>3. CASE ~Fail
  <2>1. /\ Fits(read + Minimum[pc], read)
        /\ Take(read + Minimum[pc], read) /\ left' = left - 1
        /\ strings' = IF pc = "strings" THEN Append(strings, text) ELSE strings
        /\ externals' = IF pc = "externals" THEN externals + 1 ELSE externals
        /\ internals' = IF pc = "internals" THEN Append(internals, [path |-> text, offset |-> offset]) ELSE internals
        /\ owned' = [owned EXCEPT !.texts = @ + Kept(text) + IF pc = "externals" THEN Kept(path) ELSE 0]
        /\ UNCHANGED <<size, mode, pc, nodes, header, ids, row, stack, handed, result>>
    BY <1>1, <1>3
  <2>2. /\ text.length \in Nat /\ path.length \in Nat /\ Kept(text) \in Nat /\ Kept(text) <= text.length
        /\ Kept(path) \in Nat /\ Kept(path) <= path.length
    BY KeptFacts
  <2>3. read \in Nat /\ kept \in Nat /\ kept <= read
    BY <2>2
  <2>4. pc \in {"strings", "externals", "internals"} /\ left > 0 /\ Minimum[pc] \in Nat
    BY CountedTables DEF TableRow
  <2>5. Shape /\ PaidInv /\ handed = {} /\ left \in Nat
    BY <2>4 DEF ResourceInv, RefInv, Shape, Unknown
  <2>6. owned' = Grown(owned, kept, 0, 0, 0)
    <3>1. [owned EXCEPT !.texts = @ + kept] = Grown(owned, kept, 0, 0, 0)
      BY <2>3, <2>5, WaysToGrow DEF Shape
    <3>2. owned.texts + Kept(text) + (IF pc = "externals" THEN Kept(path) ELSE 0) = owned.texts + kept
      BY <2>2, <2>5 DEF Shape, Holding
    <3>. QED BY <2>1, <3>1, <3>2
  <2>. HIDE DEF read, kept
  <2>7. owned' \in Holding /\ TreeCost' = TreeCost + kept
    <3>1. owned' \in Holding /\ TreeCost' = TreeCost + (kept + 0 + Weight("property", 0) + Weight("value", 0))
      BY <2>3, <2>5, <2>6, GrownCosts
    <3>2. Weight("property", 0) = 0 /\ Weight("value", 0) = 0
      BY Weights DEF Priced
    <3>3. kept + 0 + 0 + 0 = kept
      BY <2>3
    <3>. QED BY <3>1, <3>2, <3>3
  <2>8. /\ Len(strings') + Ahead("strings")' = Len(strings) + Ahead("strings")
        /\ externals' + Ahead("externals")' = externals + Ahead("externals")
        /\ Len(internals') + Ahead("internals")' = Len(internals) + Ahead("internals")
        /\ strings' \in Seq(Texts) /\ internals' \in Seq([path : Texts, offset : Offsets]) /\ externals' \in Nat
    <3>1. Len(strings) \in Nat /\ Len(internals) \in Nat /\ externals \in Nat
          /\ strings \in Seq(Texts) /\ internals \in Seq([path : Texts, offset : Offsets])
      BY <2>5 DEF Shape
    <3>2. left' \in Nat /\ left' = left - 1
      BY <2>1, <2>4, <2>5
    <3>3. \A k : Ahead(k) = (IF pc = k THEN left ELSE 0) /\ Ahead(k)' = (IF pc = k THEN left - 1 ELSE 0)
      BY <2>1, <2>5, <3>2 DEF Ahead, Unknown
    <3>4. CASE pc = "strings"
      <4>1. strings' = Append(strings, text) /\ externals' = externals /\ internals' = internals
        BY <2>1, <3>4
      <4>2. Len(strings') = Len(strings) + 1 /\ strings' \in Seq(Texts)
        BY <3>1, <4>1, AppendProperties
      <4>3. Len(strings') + (left - 1) = Len(strings) + left
        BY <2>5, <3>1, <4>2
      <4>. QED BY <3>1, <3>3, <3>4, <4>1, <4>2, <4>3
    <3>5. CASE pc = "externals"
      <4>1. strings' = strings /\ externals' = externals + 1 /\ internals' = internals
        BY <2>1, <3>5
      <4>2. externals' + (left - 1) = externals + left /\ externals' \in Nat
        BY <2>5, <3>1, <4>1
      <4>. QED BY <3>1, <3>3, <3>5, <4>1, <4>2
    <3>6. CASE pc = "internals"
      <4>1. strings' = strings /\ externals' = externals /\ internals' = Append(internals, [path |-> text, offset |-> offset])
        BY <2>1, <3>6
      <4>2. Len(internals') = Len(internals) + 1 /\ internals' \in Seq([path : Texts, offset : Offsets])
        BY <3>1, <4>1, AppendProperties
      <4>3. Len(internals') + (left - 1) = Len(internals) + left
        BY <2>5, <3>1, <4>2
      <4>. QED BY <3>1, <3>3, <3>6, <4>1, <4>2, <4>3
    <3>. QED BY <2>4, <3>4, <3>5, <3>6
  <2>9. TableCost' = TableCost
    <3>1. ids' = ids
      BY <2>1
    <3>. QED BY <2>8, <3>1 DEF TableCost, Weight
  <2>10. /\ read <= MaxAllocation - allocation /\ allocation' = allocation + read
         /\ position' = position + (read + Minimum[pc])
    BY <2>1 DEF Fits, Take
  <2>11. PaidInv' /\ allocation' \in Nat
    BY <2>3, <2>5, <2>7, <2>9, <2>10, PaidKeeps
  <2>12. position' \in Nat
    BY <2>3, <2>4, <2>5, <2>10 DEF Shape
  <2>13. Shape'
    <3>1. left' \in Nat
      BY <2>1, <2>4, <2>5
    <3>2. UNCHANGED <<size, pc, ids, row, stack>>
      BY <2>1
    <3>. QED BY <2>4, <2>5, <2>7, <2>8, <2>11, <2>12, <3>1, <3>2 DEF Shape
  <2>14. RefInv'
    BY <2>1, <2>4, <2>5 DEF RefInv
  <2>. QED BY <2>11, <2>13, <2>14 DEF ResourceInv
<1>. QED BY <1>2, <1>3

\* A table that is complete has no row ahead of it.
LEMMA TableEndsKeeps == ResourceInv /\ TableEnds => ResourceInv'
<1>. SUFFICES ASSUME ResourceInv, TableEnds PROVE ResourceInv'
  OBVIOUS
<1>1. /\ pc \in {"strings", "externals", "internals"} /\ left = 0 /\ left' = Unknown
      /\ pc' \in {"externals", "internals", "ids"}
      /\ UNCHANGED <<size, position, allocation, strings, externals, internals, ids, row, stack, handed, owned>>
  BY CountedTables DEF TableEnds, Tables
<1>2. Shape /\ PaidInv /\ handed = {}
  BY <1>1 DEF ResourceInv, RefInv
<1>3. TreeCost' = TreeCost
  BY <1>1 DEF TreeCost, Weight
<1>4. TableCost' = TableCost
  <2>1. \A k \in {"strings", "externals", "internals"} : Ahead(k)' = Ahead(k)
    BY <1>1 DEF Ahead
  <2>. QED BY <1>1, <2>1, TablesStay
<1>5. PaidInv'
  BY <1>1, <1>2, <1>3, <1>4 DEF PaidInv
<1>6. Shape'
  BY <1>1, <1>2 DEF Shape
<1>7. RefInv'
  BY <1>1, <1>2 DEF RefInv
<1>. QED BY <1>5, <1>6, <1>7 DEF ResourceInv

-----------------------------------------------------------------------------
(* The records.                                                            *)

\* There are fewer ids than rows.
LEMMA IdsAreFew ==
  ASSUME internals \in Seq([path : Texts, offset : Offsets]), NEW T,
         T = {[id |-> internals[i].path.id, row |-> i] : i \in Subresources}
  PROVE  /\ Cardinality(T) \in Nat
         /\ IF Len(internals) > 0 THEN Cardinality(T) <= Len(internals) - 1 ELSE Cardinality(T) = 0
<1>1. Len(internals) \in Nat
  OBVIOUS
<1>2. Subresources \in SUBSET (1..(Len(internals) - 1))
  BY DEF Subresources
<1>3. /\ IsFiniteSet(1..(Len(internals) - 1))
      /\ Cardinality(1..(Len(internals) - 1)) = IF Len(internals) > 0 THEN Len(internals) - 1 ELSE 0
  <2>1. Len(internals) - 1 \in Int
    BY <1>1
  <2>2. PICK b \in Int : b = Len(internals) - 1
    BY <2>1
  <2>3. IsFiniteSet(1..b) /\ Cardinality(1..b) = IF 1 > b THEN 0 ELSE b - 1 + 1
    BY FS_Interval
  <2>. QED BY <1>1, <2>2, <2>3
<1>4. IsFiniteSet(Subresources) /\ Cardinality(Subresources) <= Cardinality(1..(Len(internals) - 1))
  BY <1>2, <1>3, FS_Subset
<1>. DEFINE f == [i \in Subresources |-> [id |-> internals[i].path.id, row |-> i]]
<1>5. f \in Surjection(Subresources, T)
  BY DEF Surjection
<1>6. IsFiniteSet(T) /\ Cardinality(T) <= Cardinality(Subresources)
  BY <1>4, <1>5, FS_Surjection
<1>7. Cardinality(T) \in Nat /\ Cardinality(Subresources) \in Nat
  BY <1>4, <1>6, FS_CardinalityType
<1>. QED BY <1>1, <1>3, <1>4, <1>6, <1>7

\* Every record and every id is paid for before the first one is read.
LEMMA BeginRecordsKeeps == ResourceInv /\ BeginRecords => ResourceInv'
<1>. SUFFICES ASSUME ResourceInv, BeginRecords PROVE ResourceInv'
  OBVIOUS
<1>. DEFINE rows == Len(internals)
            more == IF LegacyIdMode /\ rows > 0 THEN (rows - 1) * Cost["id"] ELSE 0
            paid == rows * Cost["record"] + more
<1>1. CASE Fail
  BY <1>1, FailKeeps
<1>2. CASE ~Fail
  <2>1. /\ pc = "ids" /\ (LegacyIdMode => IdsAreClear) /\ Fits(0, paid) /\ Take(0, paid)
        /\ ids' = IF LegacyIdMode THEN {[id |-> internals[i].path.id, row |-> i] : i \in Subresources} ELSE {}
        /\ owned' = [owned EXCEPT !.record = rows]
        /\ pc' = "records" /\ row' = 1
        /\ UNCHANGED <<size, mode, nodes, header, strings, externals, internals, left, stack, handed, result>>
    BY <1>2 DEF BeginRecords
  <2>2. Shape /\ PaidInv /\ handed = {} /\ internals \in Seq([path : Texts, offset : Offsets]) /\ rows \in Nat
    BY <2>1 DEF ResourceInv, RefInv, Shape
  <2>3. Cardinality(ids') \in Nat /\ more \in Nat /\ Weight("id", Cardinality(ids')) <= more
    <3>1. CASE LegacyIdMode
      <4>1. /\ Cardinality(ids') \in Nat
            /\ IF rows > 0 THEN Cardinality(ids') <= rows - 1 ELSE Cardinality(ids') = 0
        BY <2>1, <2>2, <3>1, IdsAreFew
      <4>2. CASE rows > 0
        <5>1. PICK n \in Nat : n = rows - 1
          BY <2>2, <4>2
        <5>2. Weight("id", Cardinality(ids')) <= Weight("id", n) /\ Weight("id", n) \in Nat
          BY <4>1, <4>2, <5>1, WeightsGrow, Weights DEF Priced
        <5>3. more = Weight("id", n)
          BY <3>1, <4>2, <5>1 DEF Weight
        <5>. QED BY <4>1, <5>2, <5>3
      <4>3. CASE ~ (rows > 0)
        <5>1. Weight("id", 0) = 0
          BY Weights DEF Priced
        <5>2. more = 0
          BY <4>3
        <5>. QED BY <4>1, <4>3, <5>1, <5>2
      <4>. QED BY <4>2, <4>3
    <3>2. CASE ~LegacyIdMode
      <4>1. Cardinality(ids') = 0
        BY <2>1, <3>2, FS_EmptySet
      <4>2. Weight("id", 0) = 0 /\ more = 0
        BY <3>2, Weights DEF Priced
      <4>. QED BY <4>1, <4>2
    <3>. QED BY <3>1, <3>2
  <2>. HIDE DEF more
  <2>4. Weight("record", rows) \in Nat /\ paid = Weight("record", rows) + more
    BY <2>2, Weights DEF Priced, Weight
  <2>5. PICK a, b, c, d, e \in Nat : /\ a = owned.texts /\ b = owned.media /\ c = owned.record
                                     /\ d = owned.property /\ e = owned.value
    BY <2>2 DEF Shape, Holding
  <2>6. /\ owned'.texts = a /\ owned'.media = b /\ owned'.record = rows /\ owned'.property = d /\ owned'.value = e
        /\ owned' \in Holding
    BY <2>1, <2>2, <2>5 DEF Shape, Holding
  <2>7. TreeCost' <= TreeCost + Weight("record", rows) /\ TreeCost' \in Nat
    <3>1. PICK wr, wd, we, wn \in Nat : /\ wr = Weight("record", c) /\ wd = Weight("property", d)
                                        /\ we = Weight("value", e) /\ wn = Weight("record", rows)
      <4>1. Weight("record", c) \in Nat /\ Weight("property", d) \in Nat /\ Weight("value", e) \in Nat
        BY Weights DEF Priced
      <4>. QED BY <2>4, <4>1
    <3>2. TreeCost = a + b + wr + wd + we
      BY <2>5, <3>1 DEF TreeCost
    <3>3. TreeCost' = a + b + wn + wd + we
      <4>1. TreeCost' = owned'.texts + owned'.media + Weight("record", owned'.record)
                        + Weight("property", owned'.property) + Weight("value", owned'.value)
        BY DEF TreeCost, Weight
      <4>. QED BY <2>6, <3>1, <4>1
    <3>4. PICK x, y : x = TreeCost /\ y = TreeCost' /\ x = a + b + wr + wd + we /\ y = a + b + wn + wd + we
      BY <3>2, <3>3
    <3>5. a \in Nat /\ b \in Nat /\ wr \in Nat /\ wn \in Nat /\ wd \in Nat /\ we \in Nat
      OBVIOUS
    <3>6. y <= x + wn /\ y \in Nat
      BY ONLY <3>4, <3>5
    <3>. QED BY <3>1, <3>4, <3>6
  <2>8. TableCost' <= TableCost + more /\ TableCost' \in Nat
    <3>1. \A k \in {"strings", "externals", "internals"} : Ahead(k)' = Ahead(k)
      BY <2>1 DEF Ahead
    <3>2. PICK a1, b1, c1 : /\ a1 = Weight("strings", Len(strings) + Ahead("strings"))
                            /\ b1 = Weight("externals", externals + Ahead("externals"))
                            /\ c1 = Weight("internals", Len(internals) + Ahead("internals"))
                            /\ a1 \in Nat /\ b1 \in Nat /\ c1 \in Nat
      <4>1. /\ Len(strings) + Ahead("strings") \in Nat /\ externals + Ahead("externals") \in Nat
            /\ Len(internals) + Ahead("internals") \in Nat
        BY <2>2, CostsAreNat DEF Shape
      <4>2. /\ Weight("strings", Len(strings) + Ahead("strings")) \in Nat
            /\ Weight("externals", externals + Ahead("externals")) \in Nat
            /\ Weight("internals", Len(internals) + Ahead("internals")) \in Nat
        BY <4>1, Weights DEF Priced
      <4>. QED BY <4>2
    <3>3. PICK d1, e1 : /\ d1 = Weight("id", Cardinality(ids)) /\ e1 = Weight("id", Cardinality(ids'))
                        /\ d1 \in Nat /\ e1 \in Nat /\ e1 <= more
      <4>1. Cardinality(ids) \in Nat
        BY <2>2 DEF Shape
      <4>2. Weight("id", Cardinality(ids)) \in Nat /\ Weight("id", Cardinality(ids')) \in Nat
        BY <2>3, <4>1, Weights DEF Priced
      <4>. QED BY <2>3, <4>2
    <3>4. TableCost = a1 + b1 + c1 + d1
      BY <3>2, <3>3 DEF TableCost
    <3>5. TableCost' = a1 + b1 + c1 + e1
      <4>1. TableCost' = Weight("strings", Len(strings') + Ahead("strings")') + Weight("externals", externals' + Ahead("externals")')
                         + Weight("internals", Len(internals') + Ahead("internals")') + Weight("id", Cardinality(ids'))
        BY DEF TableCost, Weight
      <4>2. strings' = strings /\ externals' = externals /\ internals' = internals
        BY <2>1
      <4>. QED BY <3>1, <3>2, <3>3, <4>1, <4>2
    <3>6. PICK x, y, n : /\ x = TableCost /\ y = TableCost' /\ n = more
                         /\ x = a1 + b1 + c1 + d1 /\ y = a1 + b1 + c1 + e1
      BY <3>4, <3>5
    <3>7. /\ a1 \in Nat /\ b1 \in Nat /\ c1 \in Nat /\ d1 \in Nat /\ e1 \in Nat /\ n \in Nat /\ e1 <= n
      BY <2>3, <3>2, <3>3, <3>6
    <3>8. y <= x + n /\ y \in Nat
      BY ONLY <3>6, <3>7
    <3>. QED BY <3>6, <3>8
  <2>9. paid <= MaxAllocation - allocation /\ allocation' = allocation + paid /\ position' = position + 0
    BY <2>1 DEF Fits, Take
  <2>10. PaidInv' /\ allocation' \in Nat
    <3>1. PICK x, y, x1, y1, r : /\ x = TreeCost /\ y = TableCost /\ x1 = TreeCost' /\ y1 = TableCost'
                                 /\ r = Weight("record", rows)
      OBVIOUS
    <3>2. x \in Nat /\ y \in Nat /\ x1 \in Nat /\ y1 \in Nat /\ r \in Nat /\ more \in Nat
          /\ x1 <= x + r /\ y1 <= y + more
      BY <2>2, <2>3, <2>4, <2>7, <2>8, <3>1, CostsAreNat
    <3>3. PICK q : q = paid /\ q = r + more
      BY <2>4, <3>1
    <3>4. /\ allocation \in Nat /\ MaxAllocation \in Nat /\ x + y <= allocation
          /\ q <= MaxAllocation - allocation /\ allocation' = allocation + q
      BY <2>2, <2>9, <3>1, <3>3, ResourceAssumption DEF Shape, PaidInv
    <3>5. allocation' \in Nat /\ allocation' <= MaxAllocation /\ x1 + y1 <= allocation'
      BY <3>2, <3>3, <3>4
    <3>. QED BY <3>1, <3>5 DEF PaidInv
  <2>11. Shape'
    <3>1. position' \in Nat
      BY <2>2, <2>9 DEF Shape
    <3>. QED BY <2>1, <2>2, <2>3, <2>6, <2>10, <3>1 DEF Shape
  <2>12. RefInv'
    <3>1. IdsAreRows'
      BY <2>1 DEF IdsAreRows, IdsAreClear, Subresources, LegacyIdMode, Modern
    <3>. QED BY <2>1, <2>2, <3>1 DEF RefInv
  <2>. QED BY <2>10, <2>11, <2>12 DEF ResourceInv
<1>. QED BY <1>1, <1>2

\* A record pays for its names and its properties.
LEMMA BeginRecordKeeps == ResourceInv /\ BeginRecord => ResourceInv'
<1>. SUFFICES ASSUME ResourceInv, BeginRecord PROVE ResourceInv'
  OBVIOUS
<1>. DEFINE start == internals[row].offset
            path == Kept(internals[row].path) + 1
<1>1. PICK type \in Types, count \in Counts :
        \/ Fail
        \/ LET paid == path + type.length + count * Cost["property"]
           IN /\ Fits(0, paid)
              /\ position' = start + (4 + type.length + 4) /\ allocation' = allocation + paid
              /\ stack' = <<Frame("record", count, "name")>>
              /\ owned' = [owned EXCEPT !.texts = @ + path - 1 + Kept(type), !.property = @ + count]
              /\ UNCHANGED <<size, mode, pc, nodes, header, strings, externals, internals, ids, left, row, handed, result>>
  BY DEF BeginRecord
<1>2. CASE Fail
  BY <1>2, FailKeeps
<1>3. CASE ~Fail
  <2>. DEFINE paid == path + type.length + count * Cost["property"]
  <2>1. /\ Fits(0, paid)
        /\ position' = start + (4 + type.length + 4) /\ allocation' = allocation + paid
        /\ stack' = <<Frame("record", count, "name")>>
        /\ owned' = [owned EXCEPT !.texts = @ + path - 1 + Kept(type), !.property = @ + count]
        /\ UNCHANGED <<size, mode, pc, nodes, header, strings, externals, internals, ids, left, row, handed, result>>
    BY <1>1, <1>3
  <2>2. pc = "records" /\ row <= Len(internals)
    BY DEF BeginRecord
  <2>3. Shape /\ row \in 1..Len(internals)
    BY <2>2 DEF ResourceInv, Shape
  <2>4. internals[row] \in [path : Texts, offset : Offsets]
    <3>1. internals \in Seq([path : Texts, offset : Offsets])
      BY <2>3 DEF Shape
    <3>2. PICK D : D = [path : Texts, offset : Offsets]
      OBVIOUS
    <3>3. internals \in Seq(D)
      BY <3>1, <3>2
    <3>4. internals[row] \in D
      BY ONLY <2>3, <3>3, ElementOfSeq, Zenon
    <3>. QED BY <3>2, <3>4
  <2>5. start \in Nat /\ internals[row].path \in Texts /\ count \in Nat
    BY <2>4, ResourceAssumption
  <2>6. /\ Kept(internals[row].path) \in Nat /\ Kept(type) \in Nat /\ Kept(type) <= type.length /\ type.length \in Nat
    BY <2>5, KeptFacts
  <2>7. PICK k, j, n, w, o : /\ k = Kept(internals[row].path) /\ j = Kept(type) /\ n = type.length
                             /\ w = Weight("property", count) /\ o = owned.texts
                             /\ k \in Nat /\ j \in Nat /\ n \in Nat /\ w \in Nat /\ o \in Nat /\ j <= n
    <3>1. Weight("property", count) \in Nat
      BY <2>5, Weights DEF Priced
    <3>2. owned.texts \in Nat
      BY <2>3 DEF Shape, Holding
    <3>. QED BY <2>6, <3>1, <3>2
  <2>8. PICK a \in Nat : a = paid /\ a = (k + 1) + n + w
    BY <2>7 DEF Weight
  <2>9. owned' = Grown(owned, k + j, 0, count, 0)
    <3>1. o + (k + 1) - 1 + j = o + (k + j) /\ k + j \in Nat
      BY <2>7
    <3>2. owned' = [owned EXCEPT !.texts = owned.texts + (k + j), !.property = @ + count]
      BY <2>1, <2>7, <3>1
    <3>3. [owned EXCEPT !.texts = @ + (k + j), !.property = @ + count] = Grown(owned, k + j, 0, count, 0)
      BY <2>3, <2>5, <3>1, WaysToGrow DEF Shape
    <3>. QED BY <3>2, <3>3
  <2>10. stack' \in Seq(AFrame)
    BY <2>1, <2>5, FramesAreFrames
  <2>11. position' \in Nat
    BY <2>1, <2>5, <2>6
  <2>12. a <= MaxAllocation - allocation /\ allocation' = allocation + a
    BY <2>1, <2>8 DEF Fits
  <2>13. (k + j) + 0 + Weight("property", count) + Weight("value", 0) <= a /\ k + j \in Nat
    <3>1. Weight("value", 0) = 0
      BY Weights DEF Priced
    <3>2. (k + j) + 0 + w + 0 <= a /\ k + j \in Nat
      BY <2>7, <2>8
    <3>. QED BY <2>7, <3>1, <3>2
  <2>14. row' \in Nat /\ row' >= 1
    BY <2>1, <2>3
  <2>15. PICK g \in Nat : g = k + j
    BY <2>13
  <2>. HIDE DEF path, start, paid
  <2>. QED BY <2>1, <2>2, <2>5, <2>9, <2>10, <2>11, <2>12, <2>13, <2>14, <2>15, ReaderKeeps
<1>. QED BY <1>2, <1>3

-----------------------------------------------------------------------------
(* Names and values.                                                       *)

\* What a step of the reader needs of the state.
LEMMA ReadingFacts ==
  ASSUME ResourceInv
  PROVE  /\ \A next : Due(next) => pc = "records" /\ stack # <<>>
         /\ owned \in Holding /\ stack \in Seq(AFrame)
         /\ position \in Nat /\ size \in Nat /\ externals \in Nat /\ Len(internals) \in Nat /\ Len(strings) \in Nat
         /\ "" \in Said /\ "empty" \in Said
BY DEF ResourceInv, Shape, Due, Said

\* The copy of a name is paid for, whether it is kept or not.
LEMMA ReadNameKeeps == ResourceInv /\ ReadName => ResourceInv'
<1>. SUFFICES ASSUME ResourceInv, ReadName PROVE ResourceInv'
  OBVIOUS
<1>. DEFINE keep == IF Top.kind = "record" THEN 1 ELSE 0
<1>1. \/ Fail
      \/ \E i \in Indexes : /\ ~ (i >= Len(strings)) /\ Fits(4, NamePrice(strings[i + 1]))
                            /\ Take(4, NamePrice(strings[i + 1])) /\ Return("")
                            /\ owned' = [owned EXCEPT !.texts = @ + keep * Kept(strings[i + 1])]
                            /\ UNCHANGED <<nodes, handed, Kind>>
      \/ \E text \in Texts : /\ Fits(4 + text.length, text.length)
                             /\ Take(4 + text.length, text.length) /\ Return("")
                             /\ owned' = [owned EXCEPT !.texts = @ + keep * Kept(text)]
                             /\ UNCHANGED <<nodes, handed, Kind>>
  BY DEF ReadName
<1>2. pc = "records" /\ stack # <<>> /\ owned \in Holding /\ "" \in Said /\ Len(strings) \in Nat
  BY ReadingFacts DEF ReadName
<1>3. ASSUME NEW n \in Nat PROVE keep * n \in Nat /\ keep * n <= n
  OBVIOUS
<1>. HIDE DEF keep
<1>4. CASE Fail
  BY <1>4, FailKeeps
<1>5. ASSUME NEW i \in Indexes, ~ (i >= Len(strings)), Fits(4, NamePrice(strings[i + 1])),
             Take(4, NamePrice(strings[i + 1])), Return(""),
             owned' = [owned EXCEPT !.texts = @ + keep * Kept(strings[i + 1])],
             UNCHANGED <<nodes, handed, Kind>>
      PROVE  ResourceInv'
  <2>1. strings \in Seq(Texts) /\ i \in Nat
    BY ResourceAssumption DEF ResourceInv, Shape
  <2>2. strings[i + 1] \in Texts
    <3>1. PICK n \in Nat : n = Len(strings)
      BY <1>2
    <3>2. i < n
      <4>1. ~ (i >= n)
        BY <1>5, <3>1
      <4>. QED BY ONLY <2>1, <3>1, <4>1
    <3>3. i + 1 \in 1..n
      BY ONLY <2>1, <3>1, <3>2, PlaceOfIndex
    <3>. QED BY ONLY <2>1, <3>1, <3>3, ElementOfSeq
  <2>3. PICK k \in Nat : k = Kept(strings[i + 1])
    BY <2>2, KeptFacts
  <2>4. PICK t \in Nat : t = keep * k /\ t <= k
    BY <1>3
  <2>5. PICK a \in Nat : a = NamePrice(strings[i + 1]) /\ a = k + 1
    BY <2>3 DEF NamePrice
  <2>6. owned' = Grown(owned, t, 0, 0, 0)
    BY <1>2, <1>5, <2>3, <2>4, WaysToGrow
  <2>7. t + 0 <= a /\ 4 \in Nat /\ 0 \in Nat
    BY <2>4, <2>5
  <2>. QED BY <1>2, <1>5, <2>5, <2>6, <2>7, LeafKeeps
<1>6. ASSUME NEW text \in Texts, Fits(4 + text.length, text.length), Take(4 + text.length, text.length), Return(""),
             owned' = [owned EXCEPT !.texts = @ + keep * Kept(text)], UNCHANGED <<nodes, handed, Kind>>
      PROVE  ResourceInv'
  <2>1. PICK n, k \in Nat : n = text.length /\ k = Kept(text) /\ k <= n
    BY KeptFacts
  <2>2. PICK t \in Nat : t = keep * k /\ t <= k
    BY <1>3
  <2>3. PICK b \in Nat : b = 4 + n
    OBVIOUS
  <2>4. owned' = Grown(owned, t, 0, 0, 0)
    BY <1>2, <1>6, <2>1, <2>2, WaysToGrow
  <2>5. t + 0 <= n /\ 0 \in Nat
    BY <2>1, <2>2
  <2>6. Fits(b, n) /\ Take(b, n) /\ handed' = handed /\ UNCHANGED Kind
    BY <1>6, <2>1, <2>3
  <2>. QED BY <1>2, <1>6, <2>4, <2>5, <2>6, LeafKeeps
<1>. QED BY <1>1, <1>4, <1>5, <1>6

\* A value that is read at once: its bytes behind a tag.
LEMMA ValueKeeps ==
  ASSUME ResourceInv, ValueDue, NEW text \in Said, Return(text), UNCHANGED Kind,
         NEW bytes \in Nat, NEW amount \in Nat, Reads(bytes, amount), Read(bytes, amount),
         NEW t \in Nat, NEW m \in Nat, owned' = Grown(owned, t, m, 0, 0), t + m <= amount,
         \A h \in handed' \ handed : Resolves(h)
  PROVE  ResourceInv'
<1>1. pc = "records" /\ stack # <<>>
  BY ReadingFacts DEF ValueDue
<1>2. Fits(4 + bytes, amount) /\ Take(4 + bytes, amount)
  BY DEF Reads, Read
<1>3. PICK b \in Nat : b = 4 + bytes
  OBVIOUS
<1>. QED BY <1>1, <1>2, <1>3, LeafKeeps

\* A value that adds nothing.
LEMMA EmptyValueKeeps ==
  ASSUME ResourceInv, ValueDue, Return(""), UNCHANGED Kind, NEW bytes \in Nat, Reads(bytes, 0), Read(bytes, 0),
         owned' = owned, \A h \in handed' \ handed : Resolves(h)
  PROVE  ResourceInv'
<1>1. owned' = Grown(owned, 0, 0, 0, 0) /\ "" \in Said
  BY ReadingFacts, WaysToGrow
<1>. QED BY <1>1, NothingIsFree, ValueKeeps

\* Plain values add nothing to the tree.
LEMMA ReadPlainKeeps == ResourceInv /\ ReadPlain => ResourceInv'
<1>. SUFFICES ASSUME ResourceInv, ReadPlain PROVE ResourceInv'
  OBVIOUS
<1>1. \/ Fail
      \/ \E width \in Widths : /\ Reads(width, 0) /\ Read(width, 0) /\ Return("") /\ UNCHANGED <<owned, handed, Kind>>
      \/ \E count \in Counts, width \in Widths :
           /\ Reads(4 + count * width, 0) /\ Read(4 + count * width, 0) /\ Return("") /\ UNCHANGED <<owned, handed, Kind>>
  BY DEF ReadPlain
<1>2. ValueDue
  BY DEF ReadPlain
<1>3. CASE Fail
  BY <1>3, FailKeeps
<1>4. ASSUME NEW width \in Widths, Reads(width, 0), Read(width, 0), Return(""), UNCHANGED <<owned, handed, Kind>>
      PROVE  ResourceInv'
  <2>1. width \in Nat
    BY ResourceAssumption
  <2>. QED BY <1>2, <1>4, <2>1, EmptyValueKeeps
<1>5. ASSUME NEW count \in Counts, NEW width \in Widths, Reads(4 + count * width, 0), Read(4 + count * width, 0),
             Return(""), UNCHANGED <<owned, handed, Kind>>
      PROVE  ResourceInv'
  <2>1. count \in Nat /\ width \in Nat
    BY ResourceAssumption
  <2>2. PICK b \in Nat : b = 4 + count * width
    BY <2>1
  <2>. QED BY <1>2, <1>5, <2>2, EmptyValueKeeps
<1>. QED BY <1>1, <1>3, <1>4, <1>5

\* Numbers are paid for at their widest.
LEMMA ReadNumbersKeeps == ResourceInv /\ ReadNumbers => ResourceInv'
<1>. SUFFICES ASSUME ResourceInv, ReadNumbers PROVE ResourceInv'
  OBVIOUS
<1>1. PICK count \in Counts, width \in {4, 8} :
        \/ Fail
        \/ /\ Reads(4 + count * width, count * 8) /\ Read(4 + count * width, count * 8) /\ Return("")
           /\ owned' = [owned EXCEPT !.media = @ + count * 8]
           /\ UNCHANGED <<handed, Kind>>
  BY DEF ReadNumbers
<1>2. ValueDue /\ owned \in Holding /\ "" \in Said
  BY ReadingFacts DEF ReadNumbers
<1>3. CASE Fail
  BY <1>3, FailKeeps
<1>4. CASE ~Fail
  <2>1. count \in Nat
    BY ResourceAssumption
  <2>2. PICK a, b \in Nat : a = count * 8 /\ b = 4 + count * width
    BY <2>1
  <2>3. Reads(b, a) /\ Read(b, a) /\ Return("") /\ handed' = handed /\ UNCHANGED Kind
    BY <1>1, <1>4, <2>2
  <2>4. owned' = Grown(owned, 0, a, 0, 0)
    BY <1>1, <1>2, <1>4, <2>2, WaysToGrow
  <2>5. 0 + a <= a /\ 0 \in Nat
    OBVIOUS
  <2>. QED BY <1>2, <2>3, <2>4, <2>5, ValueKeeps
<1>. QED BY <1>3, <1>4

\* A text is paid for with its terminator.
LEMMA ReadStringKeeps == ResourceInv /\ ReadString => ResourceInv'
<1>. SUFFICES ASSUME ResourceInv, ReadString PROVE ResourceInv'
  OBVIOUS
<1>1. PICK text \in Texts :
        \/ Fail
        \/ /\ Reads(4 + text.length, text.length) /\ Read(4 + text.length, text.length)
           /\ Return(IF text.length = 0 THEN "empty" ELSE text.text)
           /\ owned' = [owned EXCEPT !.texts = @ + Kept(text)]
           /\ UNCHANGED <<handed, Kind>>
  BY DEF ReadString
<1>2. ValueDue /\ owned \in Holding
  BY ReadingFacts DEF ReadString
<1>3. CASE Fail
  BY <1>3, FailKeeps
<1>4. CASE ~Fail
  <2>1. PICK n, k \in Nat : n = text.length /\ k = Kept(text) /\ k <= n
    BY KeptFacts
  <2>2. PICK said \in Said : said = IF text.length = 0 THEN "empty" ELSE text.text
    BY DEF Said
  <2>3. PICK b \in Nat : b = 4 + n
    OBVIOUS
  <2>4. Reads(b, n) /\ Read(b, n) /\ Return(said) /\ handed' = handed /\ UNCHANGED Kind
    BY <1>1, <1>4, <2>1, <2>2, <2>3
  <2>5. owned' = Grown(owned, k, 0, 0, 0)
    BY <1>1, <1>2, <1>4, <2>1, WaysToGrow
  <2>6. k + 0 <= n /\ 0 \in Nat
    BY <2>1
  <2>. QED BY <1>2, <2>4, <2>5, <2>6, ValueKeeps
<1>. QED BY <1>3, <1>4

\* A medium resolves where it ends inside the input.
LEMMA MediumResolves ==
  ASSUME NEW i, NEW w, i + w <= size PROVE Resolves([what |-> "medium", index |-> i, wire |-> w])
BY DEF Resolves

\* The same of an external reference.
LEMMA ExternalResolves ==
  ASSUME NEW i \in 1..externals, NEW w PROVE Resolves([what |-> "external", index |-> i, wire |-> w])
BY DEF Resolves

\* Padding is never negative.
LEMMA PaddingIsNat == ASSUME NEW count \in Nat PROVE Padding(count) \in Nat
<1>1. \A x \in Int : x % 4 \in 0..3
  OBVIOUS
<1>2. 4 - (count % 4) \in Int
  BY <1>1
<1>. QED BY <1>1, <1>2 DEF Padding

\* A medium lies where it was read, and only its copied bytes are kept.
LEMMA ReadMediumKeeps == ResourceInv /\ ReadMedium => ResourceInv'
<1>. SUFFICES ASSUME ResourceInv, ReadMedium PROVE ResourceInv'
  OBVIOUS
<1>1. PICK count \in Counts, before \in IF Modern THEN {0} ELSE {0, 4, 20} :
        LET bytes == before + 4 + count + Padding(count)
            start == position + 4 + before + 4
        IN \/ Fail
           \/ /\ Reads(bytes, Copied(count)) /\ Read(bytes, Copied(count)) /\ Return("")
              /\ owned' = [owned EXCEPT !.media = @ + Copied(count)]
              /\ handed' = handed \union {[what |-> "medium", index |-> start, wire |-> count]}
              /\ UNCHANGED Kind
  BY DEF ReadMedium
<1>2. ValueDue /\ owned \in Holding /\ "" \in Said /\ position \in Nat /\ size \in Nat
  BY ReadingFacts DEF ReadMedium
<1>3. CASE Fail
  BY <1>3, FailKeeps
<1>4. CASE ~Fail
  <2>1. count \in Nat /\ before \in Nat /\ Padding(count) \in Nat
    BY ResourceAssumption, PaddingIsNat
  <2>2. PICK b, s, d \in Nat : /\ d = Padding(count) /\ b = before + 4 + count + Padding(count)
                               /\ s = position + 4 + before + 4 /\ b = before + 4 + count + d
    <3>1. PICK d \in Nat : d = Padding(count)
      BY <2>1
    <3>2. before + 4 + count + d \in Nat /\ position + 4 + before + 4 \in Nat
      <4>1. position \in Nat /\ d \in Nat
        BY <1>2
      <4>. QED BY ONLY <2>1, <4>1
    <3>3. /\ before + 4 + count + Padding(count) = before + 4 + count + d
          /\ before + 4 + count + Padding(count) \in Nat
      BY <3>1, <3>2
    <3>. QED BY <3>1, <3>2, <3>3, Zenon
  <2>3. PICK a \in Nat : a = Copied(count)
    <3>1. Prefix \in Int /\ count \in Int /\ Prefix \in Nat
      BY <2>1, ResourceAssumption
    <3>2. Min({Prefix, count}) \in {Prefix, count}
      BY <3>1, MinOfTwo, Zenon
    <3>. QED BY <2>1, <3>1, <3>2 DEF Copied
  <2>4. /\ Reads(b, a) /\ Read(b, a) /\ Return("") /\ UNCHANGED Kind
        /\ owned' = [owned EXCEPT !.media = @ + a]
        /\ handed' = handed \union {[what |-> "medium", index |-> s, wire |-> count]}
    BY <1>1, <1>4, <2>2, <2>3
  <2>5. owned' = Grown(owned, 0, a, 0, 0)
    BY <1>2, <2>4, WaysToGrow
  <2>6. 0 + a <= a /\ 0 \in Nat
    OBVIOUS
  <2>7. s + count <= size
    <3>1. position + (4 + b) <= size
      BY <2>4 DEF Reads, Fits
    <3>2. position + (4 + (before + 4 + count + d)) <= size
      BY <2>2, <3>1
    <3>3. position \in Nat /\ size \in Nat /\ d \in Nat
      BY <1>2
    <3>4. (position + 4 + before + 4) + count <= size
      BY ONLY <2>1, <3>2, <3>3, MediumEnds
    <3>. QED BY <2>2, <3>4
  <2>8. \A h \in handed' \ handed : Resolves(h)
    BY <2>4, <2>7, MediumResolves
  <2>. QED BY <1>2, <2>4, <2>5, <2>6, <2>8, ValueKeeps
<1>. QED BY <1>3, <1>4

\* An internal reference that resolves names its row, and no other.
LEMMA ResolveIsRight ==
  ASSUME ResourceInv, pc = "records", NEW wire \in Nat, Resolve(wire) # 0
  PROVE  Resolves([what |-> "internal", index |-> Resolve(wire), wire |-> wire])
<1>1. IdsAreRows /\ Len(internals) \in Nat
  BY ReadingFacts DEF ResourceInv, RefInv
<1>2. CASE LegacyIdMode
  <2>1. IdsAreClear /\ ids = {[id |-> internals[i].path.id, row |-> i] : i \in Subresources}
    BY <1>1, <1>2 DEF IdsAreRows
  <2>2. \E e \in ids : e.id = wire
    BY <1>2 DEF Resolve
  <2>3. PICK e \in ids : e.id = wire /\ Resolve(wire) = e.row
    BY <1>2, <2>2 DEF Resolve
  <2>4. PICK i \in Subresources : e = [id |-> internals[i].path.id, row |-> i]
    BY <2>1
  <2>5. Resolve(wire) = i /\ internals[i].path.id = wire
    BY <2>3, <2>4
  <2>6. i \in 1..(Len(internals) - 1) /\ internals[i].path.local = "id"
    BY <2>1, <2>4 DEF Subresources, IdsAreClear
  <2>7. \A j \in 1..(Len(internals) - 1) : internals[j].path.local = "id" /\ internals[j].path.id = wire => j = i
    <3>. SUFFICES ASSUME NEW j \in 1..(Len(internals) - 1), internals[j].path.local = "id", internals[j].path.id = wire
                  PROVE  j = i
      OBVIOUS
    <3>1. j \in Subresources
      BY DEF Subresources
    <3>. QED BY <2>1, <2>4, <2>5, <3>1 DEF IdsAreClear
  <2>8. {i} = {j \in 1..(Len(internals) - 1) : internals[j].path.local = "id" /\ internals[j].path.id = wire}
    BY <2>5, <2>6, <2>7
  <2>9. i \in 1..Len(internals)
    BY <1>1, <2>6
  <2>. QED BY <2>5, <2>8, <2>9 DEF Resolves
<1>3. CASE ~LegacyIdMode
  <2>1. wire < Len(internals) /\ Resolve(wire) = wire + 1
    BY <1>3 DEF Resolve
  <2>2. Resolve(wire) \in 1..Len(internals)
    BY <1>1, <2>1
  <2>. QED BY <1>3, <2>2 DEF Resolves
<1>. QED BY <1>2, <1>3

\* Objects: null, an internal row, an inline external, an external row.
LEMMA ReadObjectKeeps == ResourceInv /\ ReadObject => ResourceInv'
<1>. SUFFICES ASSUME ResourceInv, ReadObject PROVE ResourceInv'
  OBVIOUS
<1>1. \/ Fail
      \/ Reads(4, 0) /\ Read(4, 0) /\ Return("") /\ UNCHANGED <<owned, handed, Kind>>
      \/ \E wire \in Indexes :
           /\ Reads(8, 0) /\ Resolve(wire) # 0 /\ Read(8, 0) /\ Return("")
           /\ handed' = handed \union {[what |-> "internal", index |-> Resolve(wire), wire |-> wire]}
           /\ UNCHANGED <<owned, Kind>>
      \/ \E type, path \in Types :
           LET bytes == type.length + path.length
           IN /\ Reads(12 + bytes, bytes) /\ Read(12 + bytes, bytes) /\ Return("")
              /\ owned' = [owned EXCEPT !.texts = @ + Kept(type) + Kept(path)]
              /\ UNCHANGED <<handed, Kind>>
      \/ \E wire \in Indexes :
           /\ Reads(8, 0) /\ wire < externals /\ Read(8, 0) /\ Return("")
           /\ handed' = handed \union {[what |-> "external", index |-> wire + 1, wire |-> wire]}
           /\ UNCHANGED <<owned, Kind>>
  BY DEF ReadObject
<1>2. ValueDue /\ owned \in Holding /\ "" \in Said /\ pc = "records" /\ externals \in Nat
  BY ReadingFacts DEF ReadObject, ValueDue
<1>3. CASE Fail
  BY <1>3, FailKeeps
<1>4. CASE Reads(4, 0) /\ Read(4, 0) /\ Return("") /\ UNCHANGED <<owned, handed, Kind>>
  BY <1>2, <1>4, EmptyValueKeeps
<1>5. ASSUME NEW wire \in Indexes, Reads(8, 0), Resolve(wire) # 0, Read(8, 0), Return(""),
             handed' = handed \union {[what |-> "internal", index |-> Resolve(wire), wire |-> wire]},
             UNCHANGED <<owned, Kind>>
      PROVE  ResourceInv'
  <2>1. wire \in Nat
    BY ResourceAssumption
  <2>2. Resolves([what |-> "internal", index |-> Resolve(wire), wire |-> wire])
    BY <1>2, <1>5, <2>1, ResolveIsRight
  <2>3. \A h \in handed' \ handed : Resolves(h)
    BY <1>5, <2>2
  <2>. QED BY <1>2, <1>5, <2>3, EmptyValueKeeps
<1>6. ASSUME NEW type \in Types, NEW path \in Types,
             Reads(12 + (type.length + path.length), type.length + path.length),
             Read(12 + (type.length + path.length), type.length + path.length), Return(""),
             owned' = [owned EXCEPT !.texts = @ + Kept(type) + Kept(path)], UNCHANGED <<handed, Kind>>
      PROVE  ResourceInv'
  <2>1. PICK n, k, o, j \in Nat : n = type.length /\ k = Kept(type) /\ k <= n /\ o = path.length /\ j = Kept(path) /\ j <= o
    BY KeptFacts
  <2>2. PICK a, b, t \in Nat : a = n + o /\ b = 12 + a /\ t = k + j /\ t <= a
    <3>1. k \in Nat /\ n \in Nat /\ j \in Nat /\ o \in Nat /\ k <= n /\ j <= o
      BY <2>1
    <3>2. n + o \in Nat /\ 12 + (n + o) \in Nat /\ k + j \in Nat /\ k + j <= n + o
      BY ONLY <3>1
    <3>. QED BY <3>2
  <2>3. Reads(b, a) /\ Read(b, a) /\ handed' = handed /\ UNCHANGED Kind
    BY <1>6, <2>1, <2>2
  <2>4. owned' = Grown(owned, t, 0, 0, 0)
    <3>1. owned.texts + Kept(type) + Kept(path) = owned.texts + t
      <4>1. PICK o1 \in Nat : o1 = owned.texts
        BY <1>2 DEF Holding
      <4>2. k \in Nat /\ j \in Nat /\ t = k + j
        BY <2>2
      <4>3. o1 + k + j = o1 + t
        BY ONLY <4>1, <4>2
      <4>. QED BY <2>1, <4>1, <4>3
    <3>2. [owned EXCEPT !.texts = @ + t] = Grown(owned, t, 0, 0, 0)
      BY <1>2, WaysToGrow
    <3>. QED BY <1>6, <3>1, <3>2
  <2>5. t + 0 <= a /\ 0 \in Nat
    BY <2>2
  <2>. QED BY <1>2, <1>6, <2>3, <2>4, <2>5, ValueKeeps
<1>7. ASSUME NEW wire \in Indexes, Reads(8, 0), wire < externals, Read(8, 0), Return(""),
             handed' = handed \union {[what |-> "external", index |-> wire + 1, wire |-> wire]},
             UNCHANGED <<owned, Kind>>
      PROVE  ResourceInv'
  <2>1. wire + 1 \in 1..externals
    <3>1. wire \in Nat /\ externals \in Nat /\ wire < externals
      BY <1>2, <1>7, ResourceAssumption
    <3>. QED BY ONLY <3>1, PlaceOfIndex
  <2>2. \A h \in handed' \ handed : Resolves(h)
    BY <1>7, <2>1, ExternalResolves
  <2>. QED BY <1>2, <1>7, <2>2, EmptyValueKeeps
<1>. QED BY <1>1, <1>3, <1>4, <1>5, <1>6, <1>7

\* A node path has no slots of its own.
LEMMA ReadPathKeeps == ResourceInv /\ ReadPath => ResourceInv'
<1>. SUFFICES ASSUME ResourceInv, ReadPath PROVE ResourceInv'
  OBVIOUS
<1>1. PICK count \in Counts :
        \/ Fail
        \/ /\ Reads(4, 0) /\ Read(4, 0) /\ UNCHANGED <<owned, handed, Kind>>
           /\ Enter(Frame("path", count + (IF header.format < 3 THEN 1 ELSE 0), "name"))
  BY DEF ReadPath
<1>2. pc = "records" /\ stack # <<>> /\ owned \in Holding /\ stack \in Seq(AFrame)
  BY ReadingFacts DEF ReadPath, ValueDue
<1>3. CASE Fail
  BY <1>3, FailKeeps
<1>4. CASE ~Fail
  <2>1. PICK n \in Nat : n = count + (IF header.format < 3 THEN 1 ELSE 0)
    BY ResourceAssumption
  <2>2. PICK f \in AFrame : f = Frame("path", n, "name")
    BY FramesAreFrames
  <2>3. Enter(f) /\ Reads(4, 0) /\ Read(4, 0) /\ owned' = owned /\ handed' = handed /\ UNCHANGED Kind
    BY <1>1, <1>4, <2>1, <2>2
  <2>4. stack' \in Seq(AFrame)
    BY <1>2, <2>3, EnterKeeps
  <2>5. PICK b \in Nat : b = 4 + 4
    OBVIOUS
  <2>6. Fits(b, 0) /\ Take(b, 0)
    BY <2>3, <2>5 DEF Reads, Read
  <2>7. owned' = Grown(owned, 0, 0, 0, 0)
    BY <1>2, <2>3, WaysToGrow
  <2>8. 0 + 0 + Weight("property", 0) + Weight("value", 0) <= 0 /\ 0 \in Nat
    <3>1. Weight("property", 0) = 0 /\ Weight("value", 0) = 0
      BY Weights DEF Priced
    <3>. QED BY <3>1
  <2>. QED BY <1>2, <2>3, <2>4, <2>6, <2>7, <2>8, ReadKeeps
<1>. QED BY <1>3, <1>4

\* A container pays for the slots of its children before the first.
LEMMA ReadContainerKeeps == ResourceInv /\ ReadContainer => ResourceInv'
<1>. SUFFICES ASSUME ResourceInv, ReadContainer PROVE ResourceInv'
  OBVIOUS
<1>1. PICK kind \in {"array", "strings", "dictionary"}, count \in Counts :
        LET pairs == kind = "dictionary"
            paid  == count * (Cost["value"] + IF pairs THEN Cost["property"] ELSE 0)
        IN \/ Fail
           \/ /\ Reads(4, paid) /\ Read(4, paid) /\ Enter(Frame(kind, count, First(kind)))
              /\ owned' = [owned EXCEPT !.value = @ + count, !.property = @ + IF pairs THEN count ELSE 0]
              /\ UNCHANGED <<handed, Kind>>
  BY DEF ReadContainer
<1>2. pc = "records" /\ stack # <<>> /\ owned \in Holding /\ stack \in Seq(AFrame)
  BY ReadingFacts DEF ReadContainer, ValueDue
<1>3. CASE Fail
  BY <1>3, FailKeeps
<1>4. CASE ~Fail
  <2>1. count \in Nat
    BY ResourceAssumption
  <2>2. PICK p \in Nat : p = IF kind = "dictionary" THEN count ELSE 0
    BY <2>1
  <2>3. PICK a \in Nat : /\ a = count * (Cost["value"] + IF kind = "dictionary" THEN Cost["property"] ELSE 0)
                         /\ a = Weight("property", p) + Weight("value", count)
    <3>1. PICK x, y \in Nat : x = Cost["value"] /\ y = Cost["property"]
      BY ResourceAssumption
    <3>2. count * (x + y) = count * y + count * x /\ count * (x + 0) = 0 * y + count * x
          /\ count * (x + y) \in Nat /\ count * (x + 0) \in Nat
      BY <2>1
    <3>3. CASE kind = "dictionary"
      BY <2>2, <3>1, <3>2, <3>3 DEF Weight
    <3>4. CASE kind # "dictionary"
      BY <2>2, <3>1, <3>2, <3>4 DEF Weight
    <3>. QED BY <3>3, <3>4
  <2>4. PICK f \in AFrame : f = Frame(kind, count, First(kind))
    BY <2>1, FramesAreFrames, FirstIsDue
  <2>5. Enter(f) /\ Reads(4, a) /\ Read(4, a) /\ handed' = handed /\ UNCHANGED Kind
    BY <1>1, <1>4, <2>3, <2>4
  <2>6. owned' = [owned EXCEPT !.value = @ + count, !.property = @ + p]
    BY <1>1, <1>4, <2>2
  <2>7. owned' = Grown(owned, 0, 0, p, count)
    BY <1>2, <2>1, <2>6, WaysToGrow
  <2>8. stack' \in Seq(AFrame)
    BY <1>2, <2>5, EnterKeeps
  <2>9. PICK b \in Nat : b = 4 + 4
    OBVIOUS
  <2>10. Fits(b, a) /\ Take(b, a)
    BY <2>5, <2>9 DEF Reads, Read
  <2>11. 0 + 0 + Weight("property", p) + Weight("value", count) <= a /\ 0 \in Nat
    <3>1. Weight("property", p) \in Nat /\ Weight("value", count) \in Nat
      BY <2>1, Weights DEF Priced
    <3>. QED BY <2>3, <3>1
  <2>. QED BY <1>2, <2>1, <2>5, <2>7, <2>8, <2>10, <2>11, ReadKeeps
<1>. QED BY <1>3, <1>4

\* An element of an array of strings has its slot already.
LEMMA ReadElementKeeps == ResourceInv /\ ReadElement => ResourceInv'
<1>. SUFFICES ASSUME ResourceInv, ReadElement PROVE ResourceInv'
  OBVIOUS
<1>1. PICK text \in Texts :
        \/ Fail
        \/ /\ Fits(4 + text.length, text.length)
           /\ Take(4 + text.length, text.length) /\ Return("")
           /\ owned' = [owned EXCEPT !.texts = @ + Kept(text)]
           /\ UNCHANGED <<handed, Kind>>
  BY DEF ReadElement
<1>2. pc = "records" /\ stack # <<>> /\ owned \in Holding /\ "" \in Said
  BY ReadingFacts DEF ReadElement
<1>3. CASE Fail
  BY <1>3, FailKeeps
<1>4. CASE ~Fail
  <2>1. PICK n, k \in Nat : n = text.length /\ k = Kept(text) /\ k <= n
    BY KeptFacts
  <2>2. PICK b \in Nat : b = 4 + n
    OBVIOUS
  <2>3. Fits(b, n) /\ Take(b, n) /\ Return("") /\ handed' = handed /\ UNCHANGED Kind
    BY <1>1, <1>4, <2>1, <2>2
  <2>4. owned' = Grown(owned, k, 0, 0, 0)
    BY <1>1, <1>2, <1>4, <2>1, WaysToGrow
  <2>5. k + 0 <= n /\ 0 \in Nat
    BY <2>1
  <2>. QED BY <1>2, <2>3, <2>4, <2>5, LeafKeeps
<1>. QED BY <1>3, <1>4

\* The order of a dictionary's keys is paid for, and forgotten with its frame.
LEMMA ValueEndsKeeps == ResourceInv /\ ValueEnds => ResourceInv'
<1>. SUFFICES ASSUME ResourceInv, ValueEnds PROVE ResourceInv'
  OBVIOUS
<1>. DEFINE sorts == Top.kind = "dictionary" /\ Top.plain
            index == IF sorts THEN Cardinality(Top.keys) * Cost["order"] ELSE 0
<1>1. /\ pc = "records" /\ stack # <<>>
      /\ \/ Fail
         \/ /\ sorts => Fits(0, index)
            /\ stack' = Front(stack) /\ allocation' = allocation + index
            /\ row' = IF Len(stack) = 1 THEN row + 1 ELSE row
            /\ UNCHANGED <<size, mode, pc, position, nodes, header, strings, externals, internals, ids, left, owned, handed, result>>
  BY Zenon DEF ValueEnds
<1>2. stack \in Seq(AFrame) /\ owned \in Holding /\ position \in Nat /\ row \in Nat /\ row >= 1
  BY <1>1 DEF ResourceInv, Shape
<1>3. Front(stack) \in Seq(AFrame) /\ Top \in AFrame
  <2>1. "" \in Said
    BY DEF Said
  <2>. QED BY <1>1, <1>2, <2>1, AdvancedIsFrame
<1>4. PICK a \in Nat : a = index
  <2>1. IsFiniteSet(Top.keys)
    BY <1>3 DEF AFrame
  <2>2. Cardinality(Top.keys) \in Nat
    BY <2>1, FS_CardinalityType
  <2>3. Weight("order", Cardinality(Top.keys)) \in Nat
    BY <2>2, Weights DEF Priced
  <2>. QED BY <2>3 DEF Weight
<1>5. ~sorts => a = 0
  BY <1>4
<1>. HIDE DEF index, sorts
<1>6. CASE Fail
  BY <1>6, FailKeeps
<1>7. CASE ~Fail
  <2>1. /\ sorts => Fits(0, a)
        /\ stack' = Front(stack) /\ allocation' = allocation + a
        /\ row' = IF Len(stack) = 1 THEN row + 1 ELSE row
        /\ UNCHANGED <<size, pc, position, header, strings, externals, internals, ids, left, owned, handed>>
    BY <1>1, <1>4, <1>7
  <2>2. a <= MaxAllocation - allocation
    <3>1. CASE sorts
      BY <2>1, <3>1 DEF Fits
    <3>2. CASE ~sorts
      <4>1. allocation <= MaxAllocation /\ allocation \in Nat /\ MaxAllocation \in Nat
        BY ResourceAssumption DEF ResourceInv, PaidInv, Shape
      <4>. QED BY <1>5, <3>2, <4>1
    <3>. QED BY <3>1, <3>2
  <2>3. owned' = Grown(owned, 0, 0, 0, 0)
    BY <1>2, <2>1, WaysToGrow
  <2>4. 0 + 0 + Weight("property", 0) + Weight("value", 0) <= a /\ 0 \in Nat
    <3>1. Weight("property", 0) = 0 /\ Weight("value", 0) = 0
      BY Weights DEF Priced
    <3>. QED BY <3>1
  <2>5. row' \in Nat /\ row' >= 1 /\ position' \in Nat /\ stack' \in Seq(AFrame)
    BY <1>2, <1>3, <2>1
  <2>6. UNCHANGED <<size, pc, header, strings, externals, internals, ids, left>> /\ handed' = handed
    BY <2>1
  <2>. QED BY <1>1, <2>1, <2>2, <2>3, <2>4, <2>5, <2>6, ReaderKeeps
<1>. QED BY <1>1, <1>6, <1>7

\* A resource that was read stays as it is.
LEMMA StillKeeps ==
  ASSUME ResourceInv, pc' = pc \/ (pc = "records" /\ pc' = "done"),
         UNCHANGED <<size, position, allocation, header, strings, externals, internals, ids, left, row, stack, owned, handed>>
  PROVE  ResourceInv'
<1>1. Shape /\ PaidInv /\ RefInv
  BY DEF ResourceInv
<1>2. TreeCost' = TreeCost
  BY DEF TreeCost, Weight
<1>3. TableCost' = TableCost
  <2>1. \A k \in {"strings", "externals", "internals"} : Ahead(k)' = Ahead(k)
    BY DEF Ahead
  <2>. QED BY <2>1, TablesStay
<1>4. PaidInv'
  BY <1>1, <1>2, <1>3 DEF PaidInv
<1>5. Shape'
  BY <1>1 DEF Shape
<1>6. RefInv'
  <2>1. \A h \in handed' : Resolves(h)'
    BY <1>1, ResolvesKeeps DEF RefInv
  <2>2. pc' = "records" => IdsAreRows'
    BY <1>1 DEF RefInv, IdsAreRows, IdsAreClear, Subresources, LegacyIdMode, Modern
  <2>. QED BY <1>1, <2>1, <2>2 DEF RefInv
<1>. QED BY <1>4, <1>5, <1>6 DEF ResourceInv

\* Every step of the reader keeps all of it.
LEMMA ResourceStep == ResourceInv /\ [ResourceNext]_vars => ResourceInv'
<1>. SUFFICES ASSUME ResourceInv, [ResourceNext]_vars PROVE ResourceInv'
  OBVIOUS
<1>1. CASE ResourceRead
  BY <1>1, StillKeeps DEF ResourceRead, Tables
<1>2. CASE UNCHANGED vars
  BY <1>2, StillKeeps DEF vars
<1>3. CASE UnknownTag
  BY <1>3, FailKeeps DEF UnknownTag
<1>. QED
  BY <1>1, <1>2, <1>3, HeaderKeeps, TableCountKeeps, TableRowKeeps, TableEndsKeeps, BeginRecordsKeeps, BeginRecordKeeps,
     ReadNameKeeps, ReadPlainKeeps, ReadNumbersKeeps, ReadStringKeeps, ReadMediumKeeps, ReadObjectKeeps, ReadPathKeeps,
     ReadContainerKeeps, ReadElementKeeps, ValueEndsKeeps DEF ResourceNext, Value

\* The inductive invariant holds in every reachable state.
LEMMA ResourceInvariance == ResourceSpec => []ResourceInv
BY ResourceInvInit, ResourceStep, PTL DEF ResourceSpec

\* What is held costs no more than what was charged.
LEMMA PaidIsPaidFor == ResourceInv => TreeIsPaidFor
<1>. SUFFICES ASSUME ResourceInv PROVE TreeIsPaidFor
  OBVIOUS
<1>1. Shape /\ PaidInv
  BY DEF ResourceInv
<1>2. /\ Len(strings) \in Nat /\ Len(internals) \in Nat /\ externals \in Nat /\ Cardinality(ids) \in Nat
      /\ \A k \in {"strings", "externals", "internals"} : Ahead(k) \in Nat
  BY <1>1, CostsAreNat DEF Shape
<1>3. ASSUME NEW k \in {"strings", "externals", "internals"}, NEW n \in Nat
      PROVE  Weight(k, n) \in Nat /\ Weight(k, n + Ahead(k)) \in Nat /\ Weight(k, n) <= Weight(k, n + Ahead(k))
  <2>1. PICK e \in Nat : e = n + Ahead(k) /\ n <= e
    BY <1>2
  <2>2. k \in Priced
    BY DEF Priced
  <2>. QED BY <2>1, <2>2, Weights, WeightsGrow
<1>4. PICK a, b, c, d, a1, b1, c1 \in Nat :
        /\ a = Weight("strings", Len(strings)) /\ a1 = Weight("strings", Len(strings) + Ahead("strings")) /\ a <= a1
        /\ b = Weight("externals", externals) /\ b1 = Weight("externals", externals + Ahead("externals")) /\ b <= b1
        /\ c = Weight("internals", Len(internals)) /\ c1 = Weight("internals", Len(internals) + Ahead("internals")) /\ c <= c1
        /\ d = Weight("id", Cardinality(ids))
  <2>1. Weight("id", Cardinality(ids)) \in Nat
    BY <1>2, Weights DEF Priced
  <2>. QED BY <1>2, <1>3, <2>1
<1>5. PICK t \in Nat : t = TreeCost
  BY <1>1, CostsAreNat
<1>6. PICK w : w = TableCost /\ w = a1 + b1 + c1 + d
  BY <1>4 DEF TableCost
<1>7. t + w <= allocation /\ allocation <= MaxAllocation /\ allocation \in Nat
  BY <1>1, <1>5, <1>6 DEF PaidInv, Shape
<1>8. t + a + b + c + d <= allocation
  <2>1. /\ a \in Nat /\ b \in Nat /\ c \in Nat /\ d \in Nat /\ a1 \in Nat /\ b1 \in Nat /\ c1 \in Nat /\ t \in Nat
        /\ a <= a1 /\ b <= b1 /\ c <= c1
    BY <1>4
  <2>2. t + (a1 + b1 + c1 + d) <= allocation /\ allocation \in Nat
    BY <1>6, <1>7
  <2>. QED BY ONLY <2>1, <2>2
<1>9. t = owned.texts + owned.media + owned.record * Cost["record"] + owned.property * Cost["property"] + owned.value * Cost["value"]
  BY <1>5 DEF TreeCost, Weight
<1>10. /\ a = Len(strings) * Cost["strings"] /\ b = externals * Cost["externals"]
       /\ c = Len(internals) * Cost["internals"] /\ d = Cardinality(ids) * Cost["id"]
  BY <1>4 DEF Weight
<1>. QED BY <1>7, <1>8, <1>9, <1>10 DEF TreeIsPaidFor

(***************************************************************************)
(* TreeIsPaidFor: whatever counts, names and references a file holds, in   *)
(* whatever order they are refused, the reader never holds more than it    *)
(* was charged for, and never more than its limit.                         *)
(***************************************************************************)
THEOREM TreeIsAlwaysPaidFor == ResourceSpec => []TreeIsPaidFor
BY ResourceInvariance, PaidIsPaidFor, PTL

(***************************************************************************)
(* ReferencesResolve: what converters are handed exists, under every       *)
(* generation of the format; an id names one row, and not the main one.    *)
(***************************************************************************)
THEOREM ReferencesAlwaysResolve == ResourceSpec => []ReferencesResolve
<1>1. ResourceInv => ReferencesResolve
  BY DEF ResourceInv, RefInv, Resolves, ReferencesResolve
<1>. QED BY <1>1, ResourceInvariance, PTL
=============================================================================
