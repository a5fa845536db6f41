--------------------------- MODULE ObserverProofs ---------------------------
(***************************************************************************)
(* Proofs about Archive and Observer: what the archive object's invariants *)
(* need to be inductive, for every set of archives, sources, paths and     *)
(* listings; then the boundary's handles, settings and rows, for every     *)
(* module, every host and every set of sources.                            *)
(***************************************************************************)
EXTENDS Observer, SequenceTheorems, TLAPS

(***************************************************************************)
(* The strengthening, one object at a time.  RowsOf: an object's rows are  *)
(* those of the source it has open.  CallOK: the copy loop's locals agree  *)
(* with the destination (the key index and the stream cursor stand just    *)
(* past the pieces written).  Running calls own different destinations.    *)
(***************************************************************************)
RowsOf(A) ==
  /\ A.opened => A.source \in Sources
  /\ ~Sessioned => A.decode = FALSE
  /\ A.files # <<>> => A.opened /\ A.files = Listing[A.source][A.decode]

CallOK(A, C, D) ==
  C.pc # "idle" =>
    /\ C.dest \in Paths
    /\ C.pc \in {"header", "copy"} => ~C.item.custom
    /\ C.pc = "handler" => C.item.custom
    /\ C.pc = "header" => C.done = 0
    /\ C.done <= C.item.chunks
    /\ ~C.item.custom /\ C.pc # "header" =>
         C.key = C.done + 1 /\ A.cursor = <<C.item.id, C.done + 1>>
    /\ D[C.dest].is = "output"
    /\ D[C.dest].data = IF C.pc = "header" THEN <<>> ELSE Prefix(C.item, C.done)

OwnDestinations ==
  \A a, b \in Archives : Running(a) /\ Running(b) /\ a # b => call[a].dest # call[b].dest

IndInv ==
  /\ TypeOK
  /\ \A a \in Archives : RowsOf(arch[a])
  /\ \A a \in Archives : CallOK(arch[a], call[a], disk)
  /\ OwnDestinations

-----------------------------------------------------------------------------
(***************************************************************************)
(* Prefixes of a row.                                                      *)
(***************************************************************************)
LEMMA PrefixType ==
  ASSUME NEW it \in Item, NEW n \in Nat
  PROVE  /\ Prefix(it, n) \in Seq(Pieces)
         /\ Len(Prefix(it, n)) = HeaderLen(it) + n
         /\ \A j \in 1..(HeaderLen(it) + n) :
              Prefix(it, n)[j] = Piece(it.id, j - HeaderLen(it), j - HeaderLen(it))
<1> DEFINE h == HeaderLen(it)
           e(j) == Piece(it.id, j - h, j - h)
<1>1. h \in {0, 1} /\ it.id \in Nat
  BY DEF HeaderLen, Item
<1>2. \A j \in 1..(h + n) : e(j) \in Pieces
  BY <1>1 DEF Piece, Pieces
<1>3. h + n \in Nat
  BY <1>1
<1>4. Prefix(it, n) \in [1..(h + n) -> Pieces]
  BY <1>2 DEF Prefix
<1>5. Prefix(it, n) \in Seq(Pieces) /\ Len(Prefix(it, n)) = h + n
  BY <1>3, <1>4
<1> QED
  BY <1>5 DEF Prefix

LEMMA PrefixExtends ==
  ASSUME NEW it \in Item, NEW n \in Nat
  PROVE  Append(Prefix(it, n), Piece(it.id, n + 1, n + 1)) = Prefix(it, n + 1)
<1> DEFINE s == Prefix(it, n)
           p == Piece(it.id, n + 1, n + 1)
           h == HeaderLen(it)
<1>1. h \in {0, 1} /\ it.id \in Nat /\ p \in Pieces
  BY DEF HeaderLen, Item, Piece, Pieces
<1>2. /\ s \in Seq(Pieces) /\ Len(s) = h + n
      /\ \A j \in 1..(h + n) : s[j] = Piece(it.id, j - h, j - h)
  BY PrefixType
<1>3. /\ Prefix(it, n + 1) \in Seq(Pieces) /\ Len(Prefix(it, n + 1)) = h + (n + 1)
      /\ \A j \in 1..(h + (n + 1)) : Prefix(it, n + 1)[j] = Piece(it.id, j - h, j - h)
  BY PrefixType, n + 1 \in Nat
<1> HIDE DEF s, p, h
<1>4. Append(s, p) \in Seq(Pieces) /\ Len(Append(s, p)) = h + n + 1
  BY <1>1, <1>2
<1>5. ASSUME NEW j \in 1..Len(Append(s, p))
      PROVE  Append(s, p)[j] = Prefix(it, n + 1)[j]
  <2>1. CASE j <= h + n
    BY <1>1, <1>2, <1>3, <1>4, <2>1
  <2>2. CASE j = h + n + 1
    <3>1. j - h = n + 1
      BY <1>1, <2>2
    <3>2. Append(s, p)[j] = p
      BY <1>1, <1>2, <2>2
    <3> QED
      BY <1>1, <1>3, <1>4, <3>1, <3>2 DEF p
  <2> QED
    BY <1>1, <1>4, <2>1, <2>2
<1>6. Len(Append(s, p)) = Len(Prefix(it, n + 1))
  BY <1>1, <1>3, <1>4
<1>7. Append(s, p) = Prefix(it, n + 1)
  BY <1>3, <1>4, <1>5, <1>6, SeqEqual
<1> QED
  BY <1>7 DEF s, p

LEMMA PrefixBegins ==
  ASSUME NEW it \in Item
  PROVE  IF HeaderLen(it) = 1 THEN Append(<<>>, Piece(it.id, 0, 0)) = Prefix(it, 0)
                              ELSE <<>> = Prefix(it, 0)
<1>1. it.id \in Nat /\ HeaderLen(it) \in {0, 1}
  BY DEF Item, HeaderLen
<1>2. /\ Prefix(it, 0) \in Seq(Pieces) /\ Len(Prefix(it, 0)) = HeaderLen(it) + 0
      /\ \A j \in 1..(HeaderLen(it) + 0) :
           Prefix(it, 0)[j] = Piece(it.id, j - HeaderLen(it), j - HeaderLen(it))
  BY PrefixType
<1>3. CASE HeaderLen(it) = 0
  BY <1>2, <1>3, EmptySeq
<1>4. CASE HeaderLen(it) = 1
  <2> DEFINE one == Append(<<>>, Piece(it.id, 0, 0))
  <2>1. Piece(it.id, 0, 0) \in Pieces
    BY <1>1 DEF Piece, Pieces
  <2>2. one \in Seq(Pieces) /\ Len(one) = 1 /\ one[1] = Piece(it.id, 0, 0)
    BY <2>1, EmptySeq
  <2>3. Prefix(it, 0)[1] = Piece(it.id, 0, 0)
    BY <1>2, <1>4
  <2> QED
    BY <1>2, <1>4, <2>2, <2>3, SeqEqual
<1> QED
  BY <1>1, <1>3, <1>4

-----------------------------------------------------------------------------
LEMMA NewTypes ==
  /\ NewArchive \in ArchiveType /\ RowsOf(NewArchive)
  /\ NewCall \in CallType /\ NewCall.pc = "idle"
  /\ NoItem \in Item
<1>1. <<>> \in Seq(Item)
  BY EmptySeq
<1>2. NewArchive \in ArchiveType /\ RowsOf(NewArchive)
  BY <1>1, Zenon DEF NewArchive, ArchiveType, RowsOf
<1>3. NoItem \in Item
  BY DEF NoItem, Item, Extents
<1>4. NewCall \in CallType /\ NewCall.pc = "idle"
  BY <1>3 DEF NewCall, CallType, Outcomes, Causes
<1> QED
  BY <1>2, <1>3, <1>4

LEMMA InitInv == Init => IndInv
<1> SUFFICES ASSUME Init PROVE IndInv
  OBVIOUS
<1>1. disk \in [Paths -> FileType]
  <2>1. <<>> \in Seq(Pieces)
    BY EmptySeq
  <2>2. /\ [is |-> "absent", data |-> <<>>] \in FileType
        /\ [is |-> "prior", data |-> <<>>] \in FileType
    BY <2>1, Zenon DEF FileType
  <2> QED
    BY <2>2 DEF Init
<1>2. TypeOK
  BY <1>1, NewTypes DEF Init, TypeOK
<1>3. \A a \in Archives : RowsOf(arch[a]) /\ CallOK(arch[a], call[a], disk)
  BY NewTypes DEF Init, CallOK
<1>4. OwnDestinations
  BY NewTypes DEF Init, OwnDestinations, Running, Idle
<1> QED
  BY <1>2, <1>3, <1>4 DEF IndInv

-----------------------------------------------------------------------------
(***************************************************************************)
(* The results of open and prepare_files keep an object's rows and its     *)
(* source together.                                                        *)
(***************************************************************************)
LEMMA OpenKeepsRows ==
  ASSUME NEW A \in ArchiveType, NEW s \in Sources, NEW sniffed \in BOOLEAN,
         NEW o \in BOOLEAN, RowsOf(A), NEW r \in OpenResults(A, s, sniffed, o)
  PROVE  r.arch \in ArchiveType /\ RowsOf(r.arch)
<1> DEFINE R == Reset(A, s, o)
<1>1. R \in ArchiveType /\ RowsOf(R) /\ R.files = <<>> /\ R.source = s
  BY EmptySeq, ListingAssumption DEF Reset, ArchiveType, RowsOf
<1> HIDE DEF R
<1>2. [R EXCEPT !.opened = TRUE] \in ArchiveType /\ RowsOf([R EXCEPT !.opened = TRUE])
  BY <1>1 DEF ArchiveType, RowsOf
<1>3. r.arch \in {A, R, [R EXCEPT !.opened = TRUE]}
  BY DEF OpenResults, Result, R
<1> QED
  BY <1>1, <1>2, <1>3

LEMMA PrepareKeepsRows ==
  ASSUME NEW A \in ArchiveType, RowsOf(A), NEW r \in PrepareResults(A)
  PROVE  r.arch \in ArchiveType /\ RowsOf(r.arch)
<1>1. ASSUME NEW t \in Sources, NEW d \in BOOLEAN
      PROVE  Listing[t][d] \in Seq(Item)
  <2>1. Listing[t] \in [BOOLEAN -> Seq(Item)]
    BY ListingAssumption
  <2> QED
    BY <2>1
<1>2. CASE r.arch = A
  BY <1>2
<1>3. CASE A.opened /\ Sessioned /\ r.arch = [A EXCEPT !.files = Listing[A.source][A.decode]]
  <2>1. A.source \in Sources /\ A.decode \in BOOLEAN
    BY <1>3 DEF ArchiveType, RowsOf
  <2>2. Listing[A.source][A.decode] \in Seq(Item)
    BY <1>1, <2>1
  <2> QED
    BY <1>3, <2>1, <2>2 DEF ArchiveType, RowsOf
<1>4. CASE /\ A.opened /\ ~Sessioned
           /\ r.arch = [A EXCEPT !.files = Listing[A.source][FALSE], !.cursor = <<0, 0>>]
  <2>1. A.source \in Sources /\ A.decode = FALSE
    BY <1>4 DEF RowsOf
  <2>2. Listing[A.source][FALSE] \in Seq(Item)
    BY <1>1, <2>1
  <2> DEFINE R == [A EXCEPT !.files = Listing[A.source][FALSE], !.cursor = <<0, 0>>]
  <2>3. R \in ArchiveType
    BY <2>2 DEF ArchiveType
  <2>4. /\ R.source = A.source /\ R.decode = A.decode /\ R.opened = A.opened
        /\ R.files = Listing[A.source][FALSE]
    BY DEF ArchiveType
  <2>5. RowsOf(R)
    BY <1>4, <2>1, <2>4 DEF RowsOf
  <2> QED
    BY <1>4, <2>3, <2>5
<1>5. CASE r.arch = [A EXCEPT !.stream = "failed"]
  BY <1>5 DEF ArchiveType, RowsOf
<1>6. A.opened /\ r \in ListFailures(A) =>
        r.arch = A \/ r.arch = [A EXCEPT !.stream = "failed"]
  BY DEF ListFailures, Result
<1>7. A.opened /\ r \in Listed(A) =>
        \/ Sessioned /\ r.arch = [A EXCEPT !.files = Listing[A.source][A.decode]]
        \/ /\ ~Sessioned
           /\ r.arch = [A EXCEPT !.files = Listing[A.source][FALSE], !.cursor = <<0, 0>>]
  BY DEF Listed, Result
<1>8. r.arch = A \/ (A.opened /\ r \in ListFailures(A) \cup Listed(A))
  BY DEF PrepareResults, Result
<1> QED
  BY <1>2, <1>3, <1>4, <1>5, <1>6, <1>7, <1>8

(***************************************************************************)
(* A step touches one object, its call, and no destination but that call's.*)
(***************************************************************************)
LEMMA OneCall ==
  ASSUME IndInv, NEW a \in Archives, NEW A \in ArchiveType, NEW C \in CallType,
         RowsOf(A),
         arch' = [arch EXCEPT ![a] = A],
         call' = [call EXCEPT ![a] = C],
         disk' \in [Paths -> FileType],
         \A p \in Paths : disk'[p] # disk[p] =>
           \/ Running(a) /\ call[a].dest = p
           \/ C.pc # "idle" /\ C.dest = p,
         C.pc # "idle" => IF Running(a) THEN C.dest = call[a].dest ELSE PathFree(C.dest),
         CallOK(A, C, disk')
  PROVE  IndInv'
<1> USE DEF IndInv
<1>1. TypeOK'
  BY DEF TypeOK
<1>2. /\ arch'[a] = A /\ call'[a] = C
      /\ \A b \in Archives \ {a} : arch'[b] = arch[b] /\ call'[b] = call[b]
  BY DEF TypeOK
<1>3. (\A b \in Archives : RowsOf(arch[b]))'
  BY <1>2, Zenon
<1>4. ASSUME NEW b \in Archives \ {a}, call[b].pc # "idle", call[b].dest \in Paths
      PROVE  /\ disk'[call[b].dest] = disk[call[b].dest]
             /\ C.pc # "idle" => C.dest # call[b].dest
  BY <1>4 DEF OwnDestinations, Running, Idle, PathFree
<1>5. (\A b \in Archives : CallOK(arch[b], call[b], disk))'
  <2> SUFFICES ASSUME NEW b \in Archives PROVE CallOK(arch'[b], call'[b], disk')
    OBVIOUS
  <2>1. CASE b = a
    BY <1>2, <2>1
  <2>2. CASE b # a
    BY <1>2, <1>4, <2>2 DEF CallOK
  <2> QED
    BY <2>1, <2>2
<1>6. OwnDestinations'
  BY <1>2, <1>4 DEF OwnDestinations, Running, Idle, CallOK
<1> QED
  BY <1>1, <1>3, <1>5, <1>6
LEMMA Facts ==
  ASSUME IndInv, NEW a \in Archives
  PROVE  /\ arch[a] \in ArchiveType /\ RowsOf(arch[a])
         /\ call[a] \in CallType /\ CallOK(arch[a], call[a], disk)
         /\ disk \in [Paths -> FileType]
         /\ arch = [arch EXCEPT ![a] = arch[a]]
         /\ call = [call EXCEPT ![a] = call[a]]
         /\ Running(a) => call[a].dest \in Paths
  BY DEF IndInv, TypeOK, CallOK, Running, Idle

\* A call that ends keeps the invariant whatever it did to its destination.
LEMMA EndKeeps ==
  ASSUME IndInv, NEW a \in Archives, NEW A \in ArchiveType, RowsOf(A),
         NEW outcome \in Outcomes, NEW why \in Causes, End(a, outcome, why),
         arch' = [arch EXCEPT ![a] = A],
         disk' \in [Paths -> FileType],
         \A p \in Paths : disk'[p] # disk[p] => Running(a) /\ call[a].dest = p
  PROVE  IndInv'
<1> DEFINE C == [NewCall EXCEPT !.outcome = outcome, !.cause = why]
<1>1. C \in CallType /\ C.pc = "idle"
  BY NewTypes DEF CallType
<1>2. CallOK(A, C, disk')
  BY <1>1 DEF CallOK
<1>3. call' = [call EXCEPT ![a] = C]
  BY DEF End
<1> HIDE DEF C
<1> QED
  BY <1>1, <1>2, <1>3, OneCall

LEMMA DiscardKeepsTypes ==
  ASSUME disk \in [Paths -> FileType], NEW p \in Paths, DiscardPartial(p)
  PROVE  /\ disk' \in [Paths -> FileType]
         /\ \A q \in Paths : disk'[q] # disk[q] => q = p
<1>1. [is |-> "absent", data |-> <<>>] \in FileType
  BY EmptySeq, <<>> \in Seq(Pieces), Zenon DEF FileType
<1> QED
  BY <1>1 DEF DiscardPartial

LEMMA FailKeeps ==
  ASSUME IndInv, NEW a \in Archives, NEW A \in ArchiveType, RowsOf(A), Running(a),
         NEW outcome \in Outcomes, NEW why \in Causes, Fail(a, outcome, why),
         arch' = [arch EXCEPT ![a] = A]
  PROVE  IndInv'
<1>1. /\ disk' \in [Paths -> FileType]
      /\ \A q \in Paths : disk'[q] # disk[q] => q = call[a].dest
  BY Facts, DiscardKeepsTypes DEF Fail
<1> QED
  BY <1>1, EndKeeps DEF Fail

LEMMA WriteAppends ==
  ASSUME IndInv, NEW a \in Archives, Running(a), NEW piece \in Pieces, Write(a, piece)
  PROVE  /\ disk' \in [Paths -> FileType]
         /\ \A q \in Paths : disk'[q] # disk[q] => q = call[a].dest
         /\ disk'[call[a].dest].is = disk[call[a].dest].is
         /\ disk'[call[a].dest].data = Append(disk[call[a].dest].data, piece)
<1> DEFINE d == call[a].dest
           f == [disk[d] EXCEPT !.data = Append(@, piece)]
<1>1. d \in Paths /\ disk \in [Paths -> FileType]
  BY Facts
<1>2. disk' = [disk EXCEPT ![d] = f]
  BY DEF Write
<1>3. Append(disk[d].data, piece) \in Seq(Pieces)
  BY <1>1 DEF FileType
<1>4. f \in FileType /\ f.is = disk[d].is /\ f.data = Append(disk[d].data, piece)
  BY <1>1, <1>3 DEF FileType
<1> HIDE DEF d, f
<1> QED
  BY <1>1, <1>2, <1>4 DEF d, f

LEMMA NextPieceWritten ==
  ASSUME IndInv, NEW a \in Archives, Running(a), call[a].pc # "header",
         Write(a, Piece(call[a].item.id, call[a].done + 1, call[a].done + 1))
  PROVE  /\ disk' \in [Paths -> FileType]
         /\ \A q \in Paths : disk'[q] # disk[q] => q = call[a].dest
         /\ disk'[call[a].dest].is = "output"
         /\ disk'[call[a].dest].data = Prefix(call[a].item, call[a].done + 1)
<1>1. /\ call[a].item \in Item /\ call[a].item.id \in Nat /\ call[a].done \in Nat
      /\ disk[call[a].dest].is = "output"
      /\ disk[call[a].dest].data = Prefix(call[a].item, call[a].done)
  BY Facts DEF CallOK, CallType, Item, Running, Idle
<1>2. Piece(call[a].item.id, call[a].done + 1, call[a].done + 1) \in Pieces
  BY <1>1 DEF Piece, Pieces
<1>3. Append(disk[call[a].dest].data, Piece(call[a].item.id, call[a].done + 1, call[a].done + 1))
        = Prefix(call[a].item, call[a].done + 1)
  BY <1>1, PrefixExtends
<1> QED
  BY <1>1, <1>2, <1>3, WriteAppends

LEMMA CursorMoves ==
  ASSUME NEW A \in ArchiveType, RowsOf(A), NEW c \in Nat \X Nat
  PROVE  /\ [A EXCEPT !.cursor = c] \in ArchiveType
         /\ RowsOf([A EXCEPT !.cursor = c])
         /\ [A EXCEPT !.cursor = c].cursor = c
<1> DEFINE B == [A EXCEPT !.cursor = c]
<1>1. B \in ArchiveType /\ B.cursor = c
  BY DEF ArchiveType
<1>2. B.opened = A.opened /\ B.files = A.files /\ B.source = A.source /\ B.decode = A.decode
  BY DEF ArchiveType
<1> HIDE DEF B
<1>3. RowsOf(B)
  BY <1>2 DEF RowsOf
<1> QED
  BY <1>1, <1>3 DEF B

LEMMA CallMoves ==
  ASSUME NEW c \in CallType, NEW n \in Nat
  PROVE  LET C == [c EXCEPT !.pc = "report", !.done = n] IN
         /\ C \in CallType /\ C.pc = "report" /\ C.dest = c.dest /\ C.item = c.item
         /\ C.done = n
  BY DEF CallType

-----------------------------------------------------------------------------
LEMMA OpenStep ==
  ASSUME IndInv, NEW a \in Archives, NEW s \in Sources, NEW sniffed \in BOOLEAN,
         NEW o \in BOOLEAN, Open(a, s, sniffed, o)
  PROVE  IndInv'
<1> PICK r \in OpenResults(arch[a], s, sniffed, o) : arch' = [arch EXCEPT ![a] = r.arch]
  BY DEF Open
<1>1. r.arch \in ArchiveType /\ RowsOf(r.arch)
  BY Facts, OpenKeepsRows
<1>2. call[a].pc = "idle" /\ call' = call /\ disk' = disk
  BY DEF Open, Idle
<1>3. CallOK(r.arch, call[a], disk')
  BY <1>2 DEF CallOK
<1> QED
  BY <1>1, <1>2, <1>3, Facts, OneCall

LEMMA PrepareStep ==
  ASSUME IndInv, NEW a \in Archives, PrepareFiles(a)
  PROVE  IndInv'
<1> PICK r \in PrepareResults(arch[a]) : arch' = [arch EXCEPT ![a] = r.arch]
  BY DEF PrepareFiles
<1>1. r.arch \in ArchiveType /\ RowsOf(r.arch)
  BY Facts, PrepareKeepsRows
<1>2. call[a].pc = "idle" /\ call' = call /\ disk' = disk
  BY DEF PrepareFiles, Idle
<1>3. CallOK(r.arch, call[a], disk')
  BY <1>2 DEF CallOK
<1> QED
  BY <1>1, <1>2, <1>3, Facts, OneCall

LEMMA RefusedStep ==
  ASSUME IndInv, NEW a \in Archives, NEW outcome \in Outcomes, NEW why \in Causes,
         Refused(a, outcome, why)
  PROVE  IndInv'
<1>1. End(a, outcome, why) /\ arch' = arch /\ disk' = disk
  BY DEF Refused
<1> QED
  BY <1>1, Facts, EndKeeps

LEMMA OutputOpenedStep ==
  ASSUME IndInv, NEW a \in Archives, NEW i \in Nat \ {0}, NEW p \in Paths, OutputOpened(a, i, p)
  PROVE  IndInv'
<1> DEFINE it == arch[a].files[i]
           C == [pc |-> IF it.custom THEN "handler" ELSE "header", dest |-> p, item |-> it,
                 done |-> 0, key |-> 0, outcome |-> "none", cause |-> "none"]
           f == [is |-> "output", data |-> <<>>]
<1>1. it \in Item
  <2>1. arch[a].files \in Seq(Item) /\ i \in 1..Len(arch[a].files)
    BY Facts DEF OutputOpened, ArchiveType
  <2> QED
    BY <2>1, ElementOfSeq
<1>2. C \in CallType /\ C.pc # "idle" /\ C.dest = p
  BY <1>1 DEF CallType, Outcomes, Causes, Item
<1>3. f \in FileType
  BY EmptySeq, <<>> \in Seq(Pieces), Zenon DEF FileType
<1>4. disk' = [disk EXCEPT ![p] = f] /\ call' = [call EXCEPT ![a] = C] /\ arch' = arch
  BY DEF OutputOpened
<1>5. /\ disk' \in [Paths -> FileType]
      /\ \A q \in Paths : disk'[q] # disk[q] => q = p
      /\ disk'[p].is = "output" /\ disk'[p].data = <<>>
  BY <1>3, <1>4, Facts
<1>6. it.custom => Prefix(it, 0) = <<>>
  BY <1>1, PrefixBegins DEF HeaderLen
<1>7. CallOK(arch[a], C, disk')
  BY <1>1, <1>5, <1>6, ListingAssumption DEF CallOK, Item
<1>8. ~Running(a) /\ PathFree(p)
  BY DEF OutputOpened, Running
<1> HIDE DEF C, it, f
<1> QED
  BY <1>2, <1>4, <1>5, <1>7, <1>8, Facts, OneCall
LEMMA HeaderStep ==
  ASSUME IndInv, NEW a \in Archives, HeaderAndSeek(a) \/ SeekFails(a)
  PROVE  IndInv'
<1> DEFINE it == call[a].item
           d == call[a].dest
           A == [arch[a] EXCEPT !.cursor = <<it.id, 1>>]
           C == [call[a] EXCEPT !.pc = "copy", !.key = 1]
<1>1. /\ Running(a) /\ call[a].pc = "header" /\ d \in Paths /\ ~it.custom
      /\ it \in Item /\ it.id \in Nat /\ call[a].done = 0 /\ 0 <= it.chunks
      /\ disk[d].is = "output" /\ disk[d].data = <<>>
  BY Facts DEF HeaderAndSeek, SeekFails, Running, Idle, CallOK, CallType, Item
<1>2. Piece(it.id, 0, 0) \in Pieces
  BY <1>1 DEF Piece, Pieces
<1>3. /\ disk' \in [Paths -> FileType]
      /\ \A q \in Paths : disk'[q] # disk[q] => q = d
      /\ disk'[d].is = "output"
      /\ disk'[d].data = Prefix(it, 0)
  <2>1. CASE it.header
    <3>1. Write(a, Piece(it.id, 0, 0))
      BY <2>1 DEF HeaderAndSeek, SeekFails
    <3> QED
      BY <1>1, <1>2, <2>1, <3>1, WriteAppends, PrefixBegins DEF HeaderLen
  <2>2. CASE ~it.header
    <3>1. disk' = disk
      BY <2>2 DEF HeaderAndSeek, SeekFails
    <3> QED
      BY <1>1, <2>2, <3>1, Facts, PrefixBegins DEF HeaderLen
  <2> QED
    BY <2>1, <2>2
<1>4. CASE HeaderAndSeek(a)
  <2>1. A \in ArchiveType /\ RowsOf(A) /\ A.cursor = <<it.id, 1>>
    BY <1>1, Facts, CursorMoves, <<it.id, 1>> \in Nat \X Nat
  <2>2. /\ C \in CallType /\ C.pc = "copy" /\ C.dest = d /\ C.item = it
        /\ C.done = 0 /\ C.key = 1
    BY <1>1, Facts DEF CallType
  <2>3. arch' = [arch EXCEPT ![a] = A] /\ call' = [call EXCEPT ![a] = C]
    BY <1>4, Facts DEF HeaderAndSeek
  <2> HIDE DEF A, C, it, d
  <2>4. CallOK(A, C, disk')
    BY <1>1, <1>3, <2>1, <2>2 DEF CallOK
  <2> QED
    BY <1>1, <1>3, <2>1, <2>2, <2>3, <2>4, OneCall DEF d
<1>5. CASE SeekFails(a)
  <2> DEFINE F == [arch[a] EXCEPT !.stream = "failed"]
  <2>1. F \in ArchiveType /\ RowsOf(F)
    BY Facts DEF ArchiveType, RowsOf
  <2>2. arch' = [arch EXCEPT ![a] = F]
    BY <1>5, Facts DEF SeekFails
  <2> DEFINE why == IF it.extent = "negative" THEN "source" ELSE "earlier"
  <2>3. End(a, "read_error", why)
    BY <1>5 DEF SeekFails
  <2>4. why \in Causes /\ "read_error" \in Outcomes
    BY DEF Causes, Outcomes
  <2> HIDE DEF F, why
  <2> QED
    BY <1>1, <1>3, <2>1, <2>2, <2>3, <2>4, EndKeeps
<1> QED
  BY <1>4, <1>5

LEMMA CopyChunkStep ==
  ASSUME IndInv, NEW a \in Archives, CopyChunk(a)
  PROVE  IndInv'
<1> DEFINE it == call[a].item
           d == call[a].dest
           n == call[a].done
           A == [arch[a] EXCEPT !.cursor = <<arch[a].cursor[1], arch[a].cursor[2] + 1>>]
           m == call[a].done + 1
           k == call[a].key + 1
           C == [call[a] EXCEPT !.pc = "report", !.done = m, !.key = k]
<1>1. /\ Running(a) /\ d \in Paths /\ ~it.custom /\ it \in Item /\ it.id \in Nat
      /\ n \in Nat /\ it.chunks \in Nat /\ n < it.chunks
      /\ disk[d].is = "output" /\ disk[d].data = Prefix(it, n)
      /\ call[a].key = n + 1 /\ arch[a].cursor = <<it.id, n + 1>>
  BY Facts DEF CopyChunk, BytesLeft, Running, Idle, CallOK, CallType, Item
<1>2. Write(a, Piece(it.id, n + 1, n + 1))
  BY <1>1 DEF CopyChunk
<1>3. call[a].pc # "header"
  BY DEF CopyChunk
<1>4. /\ disk' \in [Paths -> FileType]
      /\ \A q \in Paths : disk'[q] # disk[q] => q = d
      /\ disk'[d].is = "output"
      /\ disk'[d].data = Prefix(it, n + 1)
  BY <1>1, <1>2, <1>3, NextPieceWritten
<1>5. A \in ArchiveType /\ RowsOf(A) /\ A.cursor = <<it.id, n + 2>>
  <2>1. <<arch[a].cursor[1], arch[a].cursor[2] + 1>> = <<it.id, n + 2>>
    BY <1>1
  <2> HIDE DEF it, n
  <2>2. <<it.id, n + 2>> \in Nat \X Nat
    BY <1>1
  <2> QED
    BY <2>1, <2>2, Facts, CursorMoves
<1>6. /\ C \in CallType /\ C.pc = "report" /\ C.dest = d /\ C.item = it
      /\ C.done = n + 1 /\ C.key = n + 2
  <2>1. call[a] \in CallType /\ m \in Nat /\ k \in Nat /\ m = n + 1 /\ k = n + 2
    BY <1>1, Facts
  <2> HIDE DEF m, k
  <2>2. /\ C \in CallType /\ C.pc = "report" /\ C.dest = call[a].dest /\ C.item = call[a].item
        /\ C.done = m /\ C.key = k
    BY <2>1 DEF CallType
  <2> HIDE DEF C
  <2> QED
    BY <2>1, <2>2
<1>7. arch' = [arch EXCEPT ![a] = A]
  BY DEF CopyChunk
<1>8. call' = [call EXCEPT ![a] = C]
  BY DEF CopyChunk
<1> HIDE DEF A, C, it, d, n
<1>9. CallOK(A, C, disk')
  BY <1>1, <1>4, <1>5, <1>6 DEF CallOK
<1> QED
  BY <1>1, <1>4, <1>5, <1>6, <1>7, <1>8, <1>9, OneCall DEF d

LEMMA HandlerWritesStep ==
  ASSUME IndInv, NEW a \in Archives, HandlerWrites(a)
  PROVE  IndInv'
<1> DEFINE it == call[a].item
           d == call[a].dest
           n == call[a].done
           C == [call[a] EXCEPT !.pc = "report", !.done = n + 1]
<1>1. /\ Running(a) /\ d \in Paths /\ it.custom /\ it \in Item /\ it.id \in Nat
      /\ n \in Nat /\ it.chunks \in Nat /\ n < it.chunks
      /\ disk[d].is = "output" /\ disk[d].data = Prefix(it, n)
  BY Facts DEF HandlerWrites, BytesLeft, Running, Idle, CallOK, CallType, Item
<1>2. Write(a, Piece(it.id, n + 1, n + 1))
  BY DEF HandlerWrites
<1>3. call[a].pc # "header"
  BY DEF HandlerWrites
<1>4. /\ disk' \in [Paths -> FileType]
      /\ \A q \in Paths : disk'[q] # disk[q] => q = d
      /\ disk'[d].is = "output"
      /\ disk'[d].data = Prefix(it, n + 1)
  BY <1>1, <1>2, <1>3, NextPieceWritten
<1>5. C \in CallType /\ C.pc = "report" /\ C.dest = d /\ C.item = it /\ C.done = n + 1
  <2>1. call[a] \in CallType /\ n + 1 \in Nat
    BY <1>1, Facts
  <2> QED
    BY <2>1, CallMoves
<1>6. PICK st \in {"good", "failed"} : arch' = [arch EXCEPT ![a].stream = st]
  BY DEF HandlerWrites, StreamLent
<1> DEFINE A == [arch[a] EXCEPT !.stream = st]
<1>7. A \in ArchiveType /\ RowsOf(A)
  BY Facts DEF ArchiveType, RowsOf
<1>8. arch' = [arch EXCEPT ![a] = A] /\ call' = [call EXCEPT ![a] = C]
  BY <1>6, Facts DEF HandlerWrites
<1> HIDE DEF A, C, it, d, n
<1>9. CallOK(A, C, disk')
  BY <1>1, <1>4, <1>5 DEF CallOK
<1> QED
  BY <1>1, <1>4, <1>5, <1>7, <1>8, <1>9, OneCall DEF d

LEMMA ContinueStep ==
  ASSUME IndInv, NEW a \in Archives, Progress(a, TRUE)
  PROVE  IndInv'
<1> DEFINE C == [call[a] EXCEPT !.pc = IF call[a].item.custom THEN "handler" ELSE "copy"]
<1>1. call[a].pc = "report" /\ Running(a) /\ arch' = arch /\ disk' = disk
  BY DEF Progress, Running, Idle
<1>2. call' = [call EXCEPT ![a] = C]
  BY DEF Progress
<1>3. /\ C \in CallType /\ C.pc = (IF call[a].item.custom THEN "handler" ELSE "copy")
      /\ C.dest = call[a].dest /\ C.item = call[a].item
      /\ C.done = call[a].done /\ C.key = call[a].key
  BY Facts, ListingAssumption DEF CallType
<1> HIDE DEF C
<1>4. CallOK(arch[a], C, disk')
  BY <1>1, <1>3, Facts, ListingAssumption DEF CallOK
<1> QED
  BY <1>1, <1>2, <1>3, <1>4, Facts, OneCall

LEMMA FailureStep ==
  ASSUME IndInv, NEW a \in Archives,
         AllocationFails(a) \/ ReadFails(a) \/ HandlerFails(a) \/ OutputFails(a) \/ Progress(a, FALSE)
  PROVE  IndInv'
<1> DEFINE F(st) == [arch[a] EXCEPT !.stream = st]
<1>1. \A st \in {"good", "failed"} : F(st) \in ArchiveType /\ RowsOf(F(st))
  BY Facts DEF ArchiveType, RowsOf
<1>2. Running(a)
  BY DEF AllocationFails, ReadFails, HandlerFails, OutputFails, Progress, Running, Idle
<1>3. PICK outcome \in Outcomes, why \in Causes : Fail(a, outcome, why)
  BY DEF AllocationFails, ReadFails, HandlerFails, OutputFails, Progress, Outcomes, Causes
<1>4. arch' = arch \/ \E st \in {"good", "failed"} : arch' = [arch EXCEPT ![a] = F(st)]
  BY Facts DEF AllocationFails, ReadFails, HandlerFails, StreamLent, OutputFails, Progress
<1> HIDE DEF F
<1> QED
  BY <1>1, <1>2, <1>3, <1>4, Facts, FailKeeps

LEMMA ReturnStep ==
  ASSUME IndInv, NEW a \in Archives, Returns(a)
  PROVE  IndInv'
<1>1. End(a, "returned", "none") /\ arch' = arch /\ disk' = disk
  BY DEF Returns
<1>2. "returned" \in Outcomes /\ "none" \in Causes
  BY DEF Outcomes, Causes
<1> QED
  BY <1>1, <1>2, Facts, EndKeeps

LEMMA NextKeepsInv == IndInv /\ [Next]_vars => IndInv'
<1> SUFFICES ASSUME IndInv, [Next]_vars PROVE IndInv'
  OBVIOUS
<1>1. CASE UNCHANGED vars
  BY <1>1 DEF vars, IndInv, TypeOK, OwnDestinations, Running, Idle
<1>2. ASSUME NEW a \in Archives, ExtractFile(a)
      PROVE  IndInv'
  <2> PICK i \in 1..(Len(arch[a].files) + 1) :
        IndexRefused(a, i) \/ OutputRefused(a, i) \/ \E p \in Paths : OutputOpened(a, i, p)
    BY <1>2 DEF ExtractFile
  <2>1. i \in Nat \ {0}
    BY Facts DEF ArchiveType
  <2>2. CASE IndexRefused(a, i)
    BY <2>2, RefusedStep DEF IndexRefused, Outcomes, Causes
  <2>3. CASE OutputRefused(a, i)
    BY <2>3, RefusedStep DEF OutputRefused, Outcomes, Causes
  <2> QED
    BY <2>1, <2>2, <2>3, OutputOpenedStep
<1>3. ASSUME NEW a \in Archives, Resume(a)
      PROVE  IndInv'
  BY <1>3, FailureStep, HeaderStep, CopyChunkStep, HandlerWritesStep, ContinueStep, ReturnStep
     DEF Resume
<1> QED
  BY <1>1, <1>2, <1>3, OpenStep, PrepareStep DEF Next

-----------------------------------------------------------------------------
\* The invariant holds in every reachable state.
THEOREM Invariance == Spec => []IndInv
  BY InitInv, NextKeepsInv, PTL DEF Spec

\* The members of the objects, the activations and the files keep their types.
THEOREM TypeCorrect == Spec => []TypeOK
<1>1. IndInv => TypeOK
  BY DEF IndInv
<1> QED
  BY <1>1, Invariance, PTL

\* However opens, listings and their failures follow each other, an object
\* holds rows only of the source it has open, listed under its own option.
THEOREM RowsAreOfSource == Spec => []RowsBelongToSource
<1>1. IndInv => RowsBelongToSource
  BY DEF IndInv, RowsBelongToSource, RowsOf
<1> QED
  BY <1>1, Invariance, PTL

\* Whatever calls interleave, the destination of a running call holds exactly
\* the first pieces of its row, each decrypted with its own key.
THEOREM OutputStaysPrefix == Spec => []OutputIsPrefix
<1>1. IndInv => OutputIsPrefix
  BY DEF IndInv, OutputIsPrefix, CallOK, Running, Idle
<1> QED
  BY <1>1, Invariance, PTL

\* A step that ends a running call is a step of that call.
LEMMA OnlyItsOwnStepEndsIt ==
  ASSUME IndInv, [Next]_vars, NEW a \in Archives, call[a].pc # "idle", call'[a].pc = "idle"
  PROVE  Resume(a)
<1>1. ~UNCHANGED vars
  BY DEF vars
<1>2. PICK b \in Archives :
        \/ \E s \in Sources, sniffed, asked \in BOOLEAN : Open(b, s, sniffed, asked)
        \/ PrepareFiles(b)
        \/ ExtractFile(b)
        \/ Resume(b)
  BY <1>1 DEF Next
<1>3. call \in [Archives -> CallType]
  BY DEF IndInv, TypeOK
<1>4. b # a => call'[a] = call[a]
  BY <1>2, <1>3 DEF Open, PrepareFiles, ExtractFile, IndexRefused, OutputRefused, OutputOpened,
     Refused, End, Resume, AllocationFails, HeaderAndSeek, SeekFails, CopyChunk, ReadFails,
     HandlerWrites, HandlerFails, OutputFails, Progress, Returns, Fail
<1>5. b = a
  BY <1>4
<1> QED
  BY <1>2, <1>5 DEF Open, PrepareFiles, ExtractFile, IndexRefused, OutputRefused, OutputOpened, Idle

\* extract_file returns only with the whole row on disk.
THEOREM SuccessMeansWhole == Spec => SuccessIsWhole
<1>1. ASSUME IndInv, [Next]_vars, NEW a \in Archives, Ended(a, {"returned"})
      PROVE  disk'[call[a].dest].data = Whole(call[a].item)
  <2>1. call[a].pc # "idle" /\ call'[a].pc = "idle" /\ call'[a].outcome = "returned"
    BY <1>1 DEF Ended, Running, Idle
  <2>2. Resume(a)
    BY <1>1, <2>1, OnlyItsOwnStepEndsIt
  <2>3. ASSUME NEW outcome, NEW why, End(a, outcome, why)
        PROVE  outcome = "returned"
    BY <1>1, <2>1, <2>3 DEF End, NewCall, IndInv, TypeOK
  <2>4. ~AllocationFails(a) /\ ~ReadFails(a) /\ ~HandlerFails(a) /\ ~OutputFails(a)
    BY <2>3 DEF AllocationFails, ReadFails, HandlerFails, OutputFails, Fail
  <2>5. ~SeekFails(a) /\ ~Progress(a, FALSE)
    BY <2>3 DEF SeekFails, Progress, Fail
  <2>6. call \in [Archives -> CallType]
    BY <1>1 DEF IndInv, TypeOK
  <2>7. ~HeaderAndSeek(a) /\ ~CopyChunk(a) /\ ~HandlerWrites(a) /\ ~Progress(a, TRUE)
    BY <2>1, <2>6 DEF HeaderAndSeek, CopyChunk, HandlerWrites, Progress, CallType
  <2>8. Returns(a)
    BY <2>2, <2>4, <2>5, <2>7 DEF Resume
  <2>9. /\ call[a].pc # "header" /\ disk' = disk /\ call[a].done \in Nat
        /\ call[a].item.chunks \in Nat /\ ~(call[a].done < call[a].item.chunks)
        /\ call[a].done <= call[a].item.chunks
        /\ disk[call[a].dest].data = Prefix(call[a].item, call[a].done)
    BY <1>1, <2>1, <2>8, Facts DEF Returns, BytesLeft, CallOK, CallType, Item
  <2> QED
    BY <2>9 DEF Whole
<1>2. ASSUME IndInv, [Next]_vars
      PROVE  \A a \in Archives :
               Ended(a, {"returned"}) => disk'[call[a].dest].data = Whole(call[a].item)
  BY <1>1, <1>2
<1> QED
  BY <1>2, Invariance, PTL DEF Spec, SuccessIsWhole

\* A handler that failed leaves no destination that could be removed.
THEOREM HandlersLeaveNothing == Spec => HandlerLeavesNothing
<1>1. ASSUME IndInv, [Next]_vars, NEW a \in Archives, call[a].item.custom,
             Ended(a, Outcomes \ {"returned"}), call[a].dest \in Deletable
      PROVE  disk'[call[a].dest].is = "absent"
  <2>1. call[a].pc # "idle" /\ call'[a].pc = "idle" /\ call'[a].outcome # "returned"
    BY <1>1 DEF Ended, Running, Idle
  <2>2. Resume(a)
    BY <1>1, <2>1, OnlyItsOwnStepEndsIt
  <2>3. call \in [Archives -> CallType] /\ disk \in [Paths -> FileType]
    BY <1>1 DEF IndInv, TypeOK
  <2>4. call[a].pc \notin {"header", "copy"} /\ call[a].dest \in Paths
    BY <1>1, <2>1 DEF IndInv, CallOK
  <2>5. ~HandlerWrites(a) /\ ~Progress(a, TRUE)
    BY <2>1, <2>3 DEF HandlerWrites, Progress, CallType
  <2>6. ~Returns(a)
    BY <2>1, <2>3 DEF Returns, End, NewCall
  <2>7. ~HeaderAndSeek(a) /\ ~SeekFails(a) /\ ~CopyChunk(a) /\ ~ReadFails(a)
    BY <2>4 DEF HeaderAndSeek, SeekFails, CopyChunk, ReadFails
  <2>8. PICK exc, why : Fail(a, exc, why)
    BY <2>2, <2>5, <2>6, <2>7 DEF Resume, AllocationFails, HandlerFails, OutputFails, Progress
  <2> QED
    BY <1>1, <2>3, <2>4, <2>8 DEF Fail, DiscardPartial, FileType
<1>2. ASSUME IndInv, [Next]_vars
      PROVE  \A a \in Archives :
               call[a].item.custom /\ Ended(a, Outcomes \ {"returned"}) /\ call[a].dest \in Deletable
                 => disk'[call[a].dest].is = "absent"
  BY <1>1, <1>2
<1> QED
  BY <1>2, Invariance, PTL DEF Spec, HandlerLeavesNothing

-----------------------------------------------------------------------------
\* How a call's own step leaves it: going on, or ended with a named outcome.
LEMMA ResumeShape ==
  ASSUME IndInv, NEW a \in Archives, Resume(a)
  PROVE  /\ Running(a)
         /\ \A q \in Paths : disk'[q] # disk[q] => q = call[a].dest
         /\ disk'[call[a].dest].is \in {"absent", "output"}
         /\ \/ /\ Running(a)' /\ call'[a].dest = call[a].dest /\ call'[a].item = call[a].item
               /\ call'[a].outcome = call[a].outcome
            \/ \E outcome \in Outcomes \ {"none", "returned"}, why \in Causes : End(a, outcome, why)
            \/ Returns(a)
<1> DEFINE d == call[a].dest
<1>1. Running(a)
  BY DEF Resume, AllocationFails, HeaderAndSeek, SeekFails, CopyChunk, ReadFails, HandlerWrites,
     HandlerFails, OutputFails, Progress, Returns, Running, Idle
<1>2. /\ d \in Paths /\ disk[d].is = "output" /\ disk \in [Paths -> FileType]
      /\ call[a] \in CallType /\ call \in [Archives -> CallType]
  BY <1>1, Facts DEF CallOK, Running, Idle, IndInv, TypeOK
<1>3. ASSUME NEW piece, Write(a, piece) \/ disk' = disk
      PROVE  /\ \A q \in Paths : disk'[q] # disk[q] => q = d
             /\ disk'[d].is \in {"absent", "output"}
  <2>1. CASE disk' = disk
    BY <1>2, <2>1
  <2>2. CASE Write(a, piece)
    BY <1>2, <2>2 DEF Write, FileType
  <2> QED
    BY <1>3, <2>1, <2>2
<1>4. ASSUME NEW outcome, NEW why, Fail(a, outcome, why)
      PROVE  /\ \A q \in Paths : disk'[q] # disk[q] => q = d
             /\ disk'[d].is \in {"absent", "output"}
             /\ End(a, outcome, why)
  <2>1. disk' = disk \/ disk' = [disk EXCEPT ![d] = [is |-> "absent", data |-> <<>>]]
    BY <1>4 DEF Fail, DiscardPartial
  <2> QED
    BY <1>2, <1>4, <2>1 DEF Fail
<1>5. CASE HeaderAndSeek(a)
  <2>1. \E piece : Write(a, piece) \/ disk' = disk
    BY <1>5 DEF HeaderAndSeek
  <2>2. call' = [call EXCEPT ![a] = [call[a] EXCEPT !.pc = "copy", !.key = 1]]
    BY <1>2, <1>5 DEF HeaderAndSeek
  <2>3. /\ call'[a].pc = "copy" /\ call'[a].dest = d /\ call'[a].item = call[a].item
        /\ call'[a].outcome = call[a].outcome
    BY <1>2, <2>2 DEF CallType
  <2> QED
    BY <1>1, <1>3, <2>1, <2>3 DEF Running, Idle
<1>6. CASE SeekFails(a)
  <2>1. \E piece : Write(a, piece) \/ disk' = disk
    BY <1>6 DEF SeekFails
  <2>2. \E why \in Causes : End(a, "read_error", why)
    BY <1>6 DEF SeekFails, Causes
  <2>3. "read_error" \in Outcomes \ {"none", "returned"}
    BY DEF Outcomes
  <2> QED
    BY <1>1, <1>3, <2>1, <2>2, <2>3
<1>7. CASE CopyChunk(a)
  <2>1. \E piece : Write(a, piece)
    BY <1>7 DEF CopyChunk
  <2>2. /\ call'[a].pc = "report" /\ call'[a].dest = d /\ call'[a].item = call[a].item
        /\ call'[a].outcome = call[a].outcome
    BY <1>2, <1>7 DEF CopyChunk, CallType
  <2> QED
    BY <1>1, <1>3, <2>1, <2>2 DEF Running, Idle
<1>8. CASE HandlerWrites(a)
  <2>1. \E piece : Write(a, piece)
    BY <1>8 DEF HandlerWrites
  <2>2. /\ call'[a].pc = "report" /\ call'[a].dest = d /\ call'[a].item = call[a].item
        /\ call'[a].outcome = call[a].outcome
    BY <1>2, <1>8 DEF HandlerWrites, CallType
  <2> QED
    BY <1>1, <1>3, <2>1, <2>2 DEF Running, Idle
<1>9. CASE AllocationFails(a) \/ ReadFails(a) \/ HandlerFails(a) \/ OutputFails(a) \/ Progress(a, FALSE)
  <2>1. \E outcome \in Outcomes \ {"none", "returned"}, why \in Causes : Fail(a, outcome, why)
    BY <1>9 DEF AllocationFails, ReadFails, HandlerFails, OutputFails, Progress, Outcomes, Causes
  <2> QED
    BY <1>1, <1>4, <2>1
<1>10. CASE Progress(a, TRUE)
  <2>1. disk' = disk
    BY <1>10 DEF Progress
  <2>2. /\ call'[a].pc \in {"handler", "copy"} /\ call'[a].dest = d /\ call'[a].item = call[a].item
        /\ call'[a].outcome = call[a].outcome
    BY <1>2, <1>10 DEF Progress, CallType
  <2> QED
    BY <1>1, <1>2, <2>1, <2>2 DEF Running, Idle
<1>11. CASE Returns(a)
  BY <1>1, <1>2, <1>11 DEF Returns
<1> QED
  BY <1>5, <1>6, <1>7, <1>8, <1>9, <1>10, <1>11 DEF Resume

-----------------------------------------------------------------------------
(***************************************************************************)
(* The safety half of ExtractionEnds: what is left of a running extraction *)
(* is a number that each step of its own lowers, whatever the step meets,  *)
(* and that no step of another object changes.  A row of n chunks is done  *)
(* after at most 2 * n + 2 steps: its header, two steps for each chunk, the*)
(* write and the report, and the return.                                   *)
(***************************************************************************)
Pending(at, rest) ==
  CASE at = "idle" -> 0
    [] at \in {"copy", "handler"} -> 2 * rest + 1
    [] at \in {"header", "report"} -> 2 * rest + 2

ExtractionMeasure(a) == Pending(call[a].pc, call[a].item.chunks - call[a].done)

ExtractionShrinks ==
  [][\A a \in Archives :
       Running(a) => IF Resume(a) THEN ExtractionMeasure(a)' < ExtractionMeasure(a)
                     ELSE ExtractionMeasure(a)' = ExtractionMeasure(a)]_vars

\* What is pending, place by place.
LEMMA PendingAt ==
  ASSUME NEW rest \in Int
  PROVE  /\ Pending("idle", rest) = 0
         /\ Pending("copy", rest) = 2 * rest + 1
         /\ Pending("handler", rest) = 2 * rest + 1
         /\ Pending("header", rest) = 2 * rest + 2
         /\ Pending("report", rest) = 2 * rest + 2
BY DEF Pending

\* What is left of a running call is something.
LEMMA SomethingPending ==
  ASSUME IndInv, NEW a \in Archives
  PROVE  /\ ExtractionMeasure(a) \in Nat
         /\ Running(a) => ExtractionMeasure(a) > 0
<1> DEFINE rest == call[a].item.chunks - call[a].done
<1>1. /\ call[a].pc \in {"idle", "header", "copy", "handler", "report"}
      /\ rest \in Int
      /\ Running(a) => rest >= 0
  BY Facts DEF CallType, Item, CallOK, Running, Idle
<1>2. ExtractionMeasure(a) = Pending(call[a].pc, rest)
  BY DEF ExtractionMeasure
<1>3. Running(a) <=> call[a].pc # "idle"
  BY DEF Running, Idle
<1> HIDE DEF rest
<1>4. CASE call[a].pc = "idle"
  <2>1. ExtractionMeasure(a) = 0
    BY <1>1, <1>2, <1>4, PendingAt
  <2> QED
    BY <1>3, <1>4, <2>1
<1>5. CASE call[a].pc \in {"copy", "handler"}
  <2>1. ExtractionMeasure(a) = 2 * rest + 1
    BY <1>1, <1>2, <1>5, PendingAt
  <2> QED
    BY <1>1, <1>3, <1>5, <2>1
<1>6. CASE call[a].pc \in {"header", "report"}
  <2>1. ExtractionMeasure(a) = 2 * rest + 2
    BY <1>1, <1>2, <1>6, PendingAt
  <2> QED
    BY <1>1, <1>3, <1>6, <2>1
<1> QED
  BY <1>1, <1>4, <1>5, <1>6

\* A step of a call leaves less of it.
LEMMA ResumeShrinks ==
  ASSUME IndInv, NEW a \in Archives, Resume(a)
  PROVE  ExtractionMeasure(a)' < ExtractionMeasure(a)
<1>1. Running(a) /\ ExtractionMeasure(a) \in Nat /\ ExtractionMeasure(a) > 0
  BY ResumeShape, SomethingPending
<1> DEFINE chunks == call[a].item.chunks
           done == call[a].done
<1>2. /\ chunks \in Nat /\ done \in Nat /\ chunks - done \in Int /\ chunks - (done + 1) \in Int
      /\ call[a] \in CallType /\ call \in [Archives -> CallType]
  BY Facts DEF CallType, Item, IndInv, TypeOK
<1>3. ASSUME call'[a].pc = "idle"  PROVE ExtractionMeasure(a)' < ExtractionMeasure(a)
  <2>1. PICK outcome, why : End(a, outcome, why)
    BY <1>1, <1>3, ResumeShape DEF Returns, Running, Idle
  <2>a. call'[a].item = NoItem /\ call'[a].done = 0
    BY <1>2, <2>1 DEF End, NewCall
  <2>b. NoItem.chunks = 0
    BY DEF NoItem
  <2>2. call'[a].item.chunks - call'[a].done = 0 - 0
    BY <2>a, <2>b
  <2>3. ExtractionMeasure(a)' = Pending("idle", 0 - 0)
    BY <1>3, <2>2 DEF ExtractionMeasure
  <2>4. ExtractionMeasure(a)' = 0
    BY <2>3, PendingAt
  <2> QED
    BY <1>1, <2>4
<1>4. CASE HeaderAndSeek(a)
  <2>1. /\ call[a].pc = "header" /\ call'[a].pc = "copy"
        /\ call'[a].item.chunks = chunks /\ call'[a].done = done
    BY <1>2, <1>4 DEF HeaderAndSeek, CallType
  <2>2. ExtractionMeasure(a) = Pending("header", chunks - done)
        /\ ExtractionMeasure(a)' = Pending("copy", chunks - done)
    BY <2>1 DEF ExtractionMeasure
  <2>3. ExtractionMeasure(a) = 2 * (chunks - done) + 2 /\ ExtractionMeasure(a)' = 2 * (chunks - done) + 1
    BY <1>2, <2>2, PendingAt
  <2> QED
    BY ONLY <1>2, <2>3
<1>5. CASE CopyChunk(a) \/ HandlerWrites(a)
  <2>1. /\ call[a].pc \in {"copy", "handler"} /\ call'[a].pc = "report"
        /\ call'[a].item.chunks = chunks /\ call'[a].done = done + 1
    BY <1>2, <1>5 DEF CopyChunk, HandlerWrites, CallType
  <2>2. ExtractionMeasure(a) = Pending(call[a].pc, chunks - done)
        /\ ExtractionMeasure(a)' = Pending("report", chunks - (done + 1))
    BY <2>1 DEF ExtractionMeasure
  <2>3. ExtractionMeasure(a) = 2 * (chunks - done) + 1
        /\ ExtractionMeasure(a)' = 2 * (chunks - (done + 1)) + 2
    BY <1>2, <2>1, <2>2, PendingAt
  <2> QED
    BY ONLY <1>2, <2>3
<1>6. CASE Progress(a, TRUE)
  <2>1. /\ call[a].pc = "report" /\ call'[a].pc \in {"copy", "handler"}
        /\ call'[a].item.chunks = chunks /\ call'[a].done = done
    BY <1>2, <1>6 DEF Progress, CallType
  <2>2. ExtractionMeasure(a) = Pending("report", chunks - done)
        /\ ExtractionMeasure(a)' = Pending(call'[a].pc, chunks - done)
    BY <2>1 DEF ExtractionMeasure
  <2>3. ExtractionMeasure(a) = 2 * (chunks - done) + 2 /\ ExtractionMeasure(a)' = 2 * (chunks - done) + 1
    BY <1>2, <2>1, <2>2, PendingAt
  <2> QED
    BY ONLY <1>2, <2>3
\* Every other step ends the call.
<1>7. CASE \/ AllocationFails(a) \/ SeekFails(a) \/ ReadFails(a) \/ HandlerFails(a)
           \/ OutputFails(a) \/ Progress(a, FALSE) \/ Returns(a)
  <2>1. \E outcome, why : End(a, outcome, why)
    BY <1>7 DEF AllocationFails, SeekFails, ReadFails, HandlerFails, OutputFails, Progress, Returns, Fail
  <2>2. call'[a].pc = "idle"
    BY <1>2, <2>1 DEF End, NewCall
  <2> QED
    BY <1>3, <2>2
<1> QED
  BY <1>4, <1>5, <1>6, <1>7 DEF Resume

\* A step that is not the call's own leaves the running call alone.
LEMMA OthersLeaveIt ==
  ASSUME IndInv, [Next]_vars, NEW a \in Archives, Running(a), ~Resume(a)
  PROVE  call'[a] = call[a]
<1>1. call \in [Archives -> CallType]
  BY DEF IndInv, TypeOK
<1>2. CASE UNCHANGED vars
  BY <1>2 DEF vars
<1>3. CASE Next
  <2>1. PICK b \in Archives :
          \/ \E s \in Sources, sniffed, asked \in BOOLEAN : Open(b, s, sniffed, asked)
          \/ PrepareFiles(b)
          \/ ExtractFile(b)
          \/ Resume(b)
    BY <1>3 DEF Next
  <2>2. b # a => call'[a] = call[a]
    BY <2>1, <1>1 DEF Open, PrepareFiles, ExtractFile, IndexRefused, OutputRefused, OutputOpened,
       Refused, End, Resume, AllocationFails, HeaderAndSeek, SeekFails, CopyChunk, ReadFails,
       HandlerWrites, HandlerFails, OutputFails, Progress, Returns, Fail
  <2>3. b # a
    BY <2>1 DEF Running, Open, PrepareFiles, ExtractFile, IndexRefused, OutputRefused, OutputOpened
  <2> QED
    BY <2>2, <2>3
<1> QED
  BY <1>2, <1>3

\* An extraction gets shorter with every step of its own and with no other: a
\* host that answers the callback sees each of its running calls end, however
\* many other objects work at the same time.
THEOREM ExtractionsShrink ==
  Spec => [](\A a \in Archives : ExtractionMeasure(a) \in Nat) /\ ExtractionShrinks
<1>1. IndInv => \A a \in Archives : ExtractionMeasure(a) \in Nat
  BY SomethingPending
<1>2. ASSUME IndInv, [Next]_vars, NEW a \in Archives, Running(a)
      PROVE  IF Resume(a) THEN ExtractionMeasure(a)' < ExtractionMeasure(a)
             ELSE ExtractionMeasure(a)' = ExtractionMeasure(a)
  <2>1. CASE Resume(a)
    BY <1>2, <2>1, ResumeShrinks
  <2>2. CASE ~Resume(a)
    <3>1. call'[a] = call[a]
      BY <1>2, <2>2, OthersLeaveIt
    <3> QED
      BY <2>2, <3>1 DEF ExtractionMeasure
  <2> QED
    BY <2>1, <2>2
<1>3. IndInv /\ [Next]_vars =>
        [\A a \in Archives :
           Running(a) => IF Resume(a) THEN ExtractionMeasure(a)' < ExtractionMeasure(a)
                         ELSE ExtractionMeasure(a)' = ExtractionMeasure(a)]_vars
  BY <1>2
<1> QED
  BY <1>1, <1>3, Invariance, PTL DEF Spec, ExtractionShrinks

-----------------------------------------------------------------------------
(***************************************************************************)
(* The archive object's invariant holds under the exported functions too,  *)
(* because each of them is a step of the object or resets its slot.  What  *)
(* the boundary adds is one fact per slot: a held slot is opened under the *)
(* option of its opening, a free slot holds nothing.                       *)
(***************************************************************************)

\* What a slot of the boundary is, held or free.
Slot(h, A, C, o) ==
  /\ IF h THEN A.opened ELSE A = NewArchive /\ C = NewCall
  /\ h => A.decode = o

RetType ==
  [fn : {"none", "OpenStorage", "PrepareFiles", "GetItem", "ExtractItem", "LoadSubModule"}, code : Codes]

BoundaryType ==
  /\ held \in [Archives -> BOOLEAN]
  /\ option \in BOOLEAN
  /\ fate \in {"running", "terminated"}
  /\ ret \in RetType
  /\ opt0 \in [Archives -> BOOLEAN]

\* The raw formats ignore the option.
RawIgnoresOption == ~Sessioned => option = FALSE

Slots == \A a \in Archives : Slot(held[a], arch[a], call[a], opt0[a])

BoundaryInv == IndInv /\ BoundaryType /\ RawIgnoresOption /\ Slots

-----------------------------------------------------------------------------
\* Every code an exported function returns is a documented one.
LEMMA ReturnedType ==
  ASSUME NEW fn \in {"none", "OpenStorage", "PrepareFiles", "GetItem", "ExtractItem", "LoadSubModule"},
         NEW code \in Codes, Returned(fn, code)
  PROVE  ret' \in RetType
BY DEF Returned, RetType

\* A freshly loaded module has no handle, no object and no option set.
LEMMA InitBoundary == ObserverInit => BoundaryInv
<1> SUFFICES ASSUME ObserverInit PROVE BoundaryInv
  OBVIOUS
<1>1. IndInv
  BY InitInv DEF ObserverInit
<1>2. BoundaryType
  BY DEF ObserverInit, BoundaryType, RetType, Codes
<1>3. RawIgnoresOption
  BY DEF ObserverInit, RawIgnoresOption
<1>4. Slots
  BY DEF ObserverInit, Init, Slots, Slot
<1> QED
  BY <1>1, <1>2, <1>3, <1>4 DEF BoundaryInv

\* A function that touches no object keeps the invariant.
LEMMA AsideKeeps ==
  ASSUME BoundaryInv, UNCHANGED <<vars, held, fate, opt0>>, option' \in BOOLEAN,
         ~Sessioned => option' = FALSE, ret' \in RetType
  PROVE  BoundaryInv'
<1>1. IndInv'
  BY NextKeepsInv DEF BoundaryInv
<1>2. BoundaryType' /\ RawIgnoresOption'
  BY DEF BoundaryInv, BoundaryType, RawIgnoresOption
<1>3. Slots'
  BY DEF BoundaryInv, Slots, vars
<1> QED
  BY <1>1, <1>2, <1>3 DEF BoundaryInv

\* One slot changes, in itself soundly.
LEMMA OneSlot ==
  ASSUME BoundaryInv, IndInv', BoundaryType', UNCHANGED option, NEW a \in Archives,
         \A b \in Archives \ {a} :
           /\ held'[b] = held[b] /\ opt0'[b] = opt0[b] /\ call'[b] = call[b] /\ arch'[b] = arch[b],
         Slot(held'[a], arch'[a], call'[a], opt0'[a])
  PROVE  BoundaryInv'
<1>1. RawIgnoresOption'
  BY DEF BoundaryInv, RawIgnoresOption
<1>2. ASSUME NEW b \in Archives PROVE Slot(held'[b], arch'[b], call'[b], opt0'[b])
  <2>1. CASE b = a
    BY <2>1
  <2>2. CASE b # a
    BY <2>2 DEF BoundaryInv, Slots
  <2> QED
    BY <2>1, <2>2
<1>3. Slots'
  BY <1>2 DEF Slots
<1> QED
  BY <1>1, <1>3 DEF BoundaryInv

-----------------------------------------------------------------------------
\* An object that opened is opened under the option in force, and one that did
\* not is destroyed.
LEMMA OpenStorageKeeps ==
  ASSUME BoundaryInv, NEW a \in Archives, NEW s \in Sources, NEW sniffed \in BOOLEAN,
         OpenStorage(a, s, sniffed)
  PROVE  BoundaryInv'
<1>1. /\ ~held[a] /\ arch[a] = NewArchive /\ call[a] = NewCall
      /\ call' = call /\ disk' = disk /\ option' = option /\ option \in BOOLEAN
      /\ Idle(a)
  BY NewTypes DEF OpenStorage, BoundaryInv, BoundaryType, Slots, Slot, Idle
<1>2. PICK r \in OpenResults(NewArchive, s, sniffed, option) :
        IF r.exc = "none"
        THEN /\ arch' = [arch EXCEPT ![a] = r.arch]
             /\ held' = [held EXCEPT ![a] = TRUE]
             /\ opt0' = [opt0 EXCEPT ![a] = option]
             /\ Returned("OpenStorage", "SOR_SUCCESS")
             /\ UNCHANGED fate
        ELSE /\ IF r.exc \in OpenCaught
                THEN /\ Returned("OpenStorage", IF r.exc = "password_required"
                                                THEN "SOR_PASSWORD_REQUIRED" ELSE "SOR_INVALID_FILE")
                     /\ UNCHANGED fate
                ELSE fate' = "terminated" /\ UNCHANGED ret
             /\ UNCHANGED <<arch, held, opt0>>
  BY DEF OpenStorage
<1>3. CASE r.exc = "none"
  <2>1. /\ arch' = [arch EXCEPT ![a] = r.arch] /\ held' = [held EXCEPT ![a] = TRUE]
        /\ opt0' = [opt0 EXCEPT ![a] = option] /\ Returned("OpenStorage", "SOR_SUCCESS") /\ fate' = fate
    BY <1>2, <1>3
  <2>2. r.arch = [Reset(NewArchive, s, option) EXCEPT !.opened = TRUE]
    <3> DEFINE R == Reset(NewArchive, s, option)
               O == [R EXCEPT !.opened = TRUE]
    <3>1. \/ r = Result(O, "none") \/ r = Result(NewArchive, "runtime_error")
          \/ \E exc \in InfoFailures : r = Result(R, exc)
      BY DEF OpenResults
    <3> HIDE DEF R, O
    <3>2. \A exc \in InfoFailures : exc # "none"
      BY DEF InfoFailures
    <3>3. r = Result(O, "none")
      BY <1>3, <3>1, <3>2 DEF Result
    <3>4. r.arch = O
      BY <3>3 DEF Result
    <3> QED
      BY <3>4 DEF R, O
  <2>3. r.arch.opened /\ r.arch.decode = (Sessioned /\ option)
    BY <2>2 DEF Reset
  <2>4. (Sessioned /\ option) = option
    BY <1>1, ListingAssumption DEF BoundaryInv, RawIgnoresOption
  <2>5. Open(a, s, sniffed, option)
    BY <1>1, <2>1 DEF Open
  <2>6. IndInv'
    BY <1>1, <2>5, OpenStep DEF BoundaryInv
  <2>7. "SOR_SUCCESS" \in Codes
    BY DEF Codes
  <2>8. BoundaryType'
    BY <1>1, <2>1, <2>7, ReturnedType DEF BoundaryInv, BoundaryType
  <2>9. arch'[a] = r.arch /\ held'[a] = TRUE /\ opt0'[a] = option
    BY <2>1 DEF BoundaryInv, BoundaryType, IndInv, TypeOK
  <2>10. Slot(held'[a], arch'[a], call'[a], opt0'[a])
    BY <2>3, <2>4, <2>9 DEF Slot
  <2>11. \A b \in Archives \ {a} :
           /\ held'[b] = held[b] /\ opt0'[b] = opt0[b] /\ call'[b] = call[b] /\ arch'[b] = arch[b]
    BY <1>1, <2>1 DEF BoundaryInv, BoundaryType, IndInv, TypeOK
  <2> QED
    BY <1>1, <2>6, <2>8, <2>10, <2>11, OneSlot
<1>4. CASE r.exc # "none"
  <2>1. UNCHANGED <<arch, held, opt0>>
    BY <1>2, <1>4
  <2>2. IndInv'
    BY <1>1, <2>1, NextKeepsInv DEF BoundaryInv, vars
  <2>3. ret' \in RetType /\ fate' \in {"running", "terminated"}
    BY <1>2, <1>4 DEF Returned, RetType, Codes, BoundaryInv, BoundaryType
  <2>4. BoundaryType'
    BY <1>1, <2>1, <2>3 DEF BoundaryInv, BoundaryType
  <2>5. RawIgnoresOption' /\ Slots'
    BY <1>1, <2>1 DEF BoundaryInv, RawIgnoresOption, Slots
  <2> QED
    BY <2>2, <2>4, <2>5 DEF BoundaryInv
<1> QED
  BY <1>3, <1>4

\* A closed handle leaves an empty slot and lets its destination go.
LEMMA CloseStorageKeeps ==
  ASSUME BoundaryInv, NEW a \in Archives, CloseStorage(a)
  PROVE  BoundaryInv'
<1>1. /\ held' = [held EXCEPT ![a] = FALSE] /\ arch' = [arch EXCEPT ![a] = NewArchive]
      /\ call' = [call EXCEPT ![a] = NewCall] /\ opt0' = [opt0 EXCEPT ![a] = FALSE]
      /\ UNCHANGED <<disk, option, fate, ret>>
  BY DEF CloseStorage
<1>2. IndInv'
  <2>1. disk' \in [Paths -> FileType] /\ IndInv
    BY <1>1 DEF BoundaryInv, IndInv, TypeOK
  <2>2. CallOK(NewArchive, NewCall, disk')
    BY NewTypes DEF CallOK
  <2>3. \A p \in Paths : disk'[p] = disk[p]
    BY <1>1
  <2> QED
    BY <1>1, <2>1, <2>2, <2>3, NewTypes, OneCall
<1>3. BoundaryType'
  BY <1>1 DEF BoundaryInv, BoundaryType
<1>4. /\ \A b \in Archives \ {a} :
           /\ held'[b] = held[b] /\ opt0'[b] = opt0[b] /\ call'[b] = call[b] /\ arch'[b] = arch[b]
      /\ held'[a] = FALSE /\ arch'[a] = NewArchive /\ call'[a] = NewCall
  BY <1>1 DEF BoundaryInv, BoundaryType, IndInv, TypeOK
<1>5. Slot(held'[a], arch'[a], call'[a], opt0'[a])
  BY <1>4 DEF Slot
<1> QED
  BY <1>1, <1>2, <1>3, <1>4, <1>5, OneSlot

\* prepare_files neither opens nor closes, and drops no row.
LEMMA PreparingLeaves ==
  ASSUME NEW A \in ArchiveType, NEW r \in PrepareResults(A)
  PROVE  /\ r.arch.opened = A.opened /\ r.arch.decode = A.decode
         /\ A.files # <<>> => r.arch.files = A.files
<1>1. CASE ~A.opened \/ A.files # <<>>
  BY <1>1 DEF PrepareResults, Result
<1>2. CASE A.opened /\ A.files = <<>> /\ r \in ListFailures(A)
  <2>1. r.arch \in {A, [A EXCEPT !.stream = "failed"]}
    BY <1>2 DEF ListFailures, Result
  <2> QED
    BY <1>2, <2>1 DEF ArchiveType
<1>3. CASE A.opened /\ A.files = <<>> /\ r \in Listed(A)
  <2>1. \/ r.arch = [A EXCEPT !.files = Listing[A.source][A.decode]]
        \/ r.arch = [A EXCEPT !.files = Listing[A.source][FALSE], !.cursor = <<0, 0>>]
    BY <1>3 DEF Listed, Result
  <2> QED
    BY <1>3, <2>1 DEF ArchiveType
<1> QED
  BY <1>1, <1>2, <1>3 DEF PrepareResults

\* PrepareFiles changes the rows of a held slot only, and leaves it opened.
LEMMA PrepareFilesKeeps ==
  ASSUME BoundaryInv, NEW a \in Archives, PrepareFilesOf(a)
  PROVE  BoundaryInv'
<1>1. /\ held[a] /\ Idle(a) /\ UNCHANGED <<call, disk, held, option, opt0>>
  BY DEF PrepareFilesOf
<1>2. PICK r \in PrepareResults(arch[a]) :
        /\ arch' = [arch EXCEPT ![a] = r.arch]
        /\ IF r.exc \in PrepareCaught \cup {"none"}
           THEN /\ Returned("PrepareFiles", IF r.exc = "none" THEN "TRUE" ELSE "FALSE")
                /\ UNCHANGED fate
           ELSE fate' = "terminated" /\ UNCHANGED ret
  BY DEF PrepareFilesOf
<1>3. PrepareFiles(a)
  BY <1>1, <1>2 DEF PrepareFiles
<1>4. IndInv'
  BY <1>3, PrepareStep DEF BoundaryInv
<1>5. ret' \in RetType /\ fate' \in {"running", "terminated"}
  BY <1>2 DEF Returned, RetType, Codes, BoundaryInv, BoundaryType
<1>6. BoundaryType'
  BY <1>1, <1>5 DEF BoundaryInv, BoundaryType
<1>7. arch[a] \in ArchiveType /\ arch'[a] = r.arch /\ \A b \in Archives \ {a} : arch'[b] = arch[b]
  BY <1>2 DEF BoundaryInv, IndInv, TypeOK
<1>8. arch'[a].opened = arch[a].opened /\ arch'[a].decode = arch[a].decode
  BY <1>7, PreparingLeaves
<1>9. Slot(held'[a], arch'[a], call'[a], opt0'[a])
  BY <1>1, <1>8 DEF BoundaryInv, Slots, Slot
<1> QED
  BY <1>1, <1>4, <1>6, <1>7, <1>9, OneSlot

\* extract_file changes nothing of any object but its stream, and no other call.
LEMMA ExtractingLeaves ==
  ASSUME IndInv, NEW a \in Archives, ExtractFile(a) \/ Resume(a)
  PROVE  \A b \in Archives :
           /\ b # a => arch'[b] = arch[b] /\ call'[b] = call[b]
           /\ arch'[b].opened = arch[b].opened /\ arch'[b].decode = arch[b].decode
           /\ arch'[b].files = arch[b].files
<1>1. arch \in [Archives -> ArchiveType] /\ call \in [Archives -> CallType]
  BY DEF IndInv, TypeOK
<1>2. \/ arch' = arch
      \/ \E c \in Nat \X Nat : arch' = [arch EXCEPT ![a].cursor = c]
      \/ \E st : arch' = [arch EXCEPT ![a].stream = st]
  <2>1. arch[a].cursor \in Nat \X Nat /\ call[a].item.id \in Nat
    BY <1>1 DEF ArchiveType, CallType, Item
  <2>2. CASE HeaderAndSeek(a)
    <3>1. <<call[a].item.id, 1>> \in Nat \X Nat
      BY <2>1
    <3> QED
      BY <2>2, <3>1 DEF HeaderAndSeek
  <2>3. CASE CopyChunk(a)
    <3>1. <<arch[a].cursor[1], arch[a].cursor[2] + 1>> \in Nat \X Nat
      BY <2>1
    <3> QED
      BY <2>3, <3>1 DEF CopyChunk
  <2>4. CASE HandlerWrites(a) \/ HandlerFails(a)
    BY <2>4 DEF HandlerWrites, HandlerFails, StreamLent
  <2>5. CASE SeekFails(a) \/ ReadFails(a)
    BY <2>5 DEF SeekFails, ReadFails
  <2> QED
    BY <2>2, <2>3, <2>4, <2>5 DEF ExtractFile, Resume, IndexRefused, OutputRefused, OutputOpened,
       Refused, AllocationFails, OutputFails, Progress, Returns
<1>3. \E C : call' = [call EXCEPT ![a] = C]
  <2>1. CASE ExtractFile(a)
    BY <2>1 DEF ExtractFile, IndexRefused, OutputRefused, OutputOpened, Refused, End
  <2>2. CASE HeaderAndSeek(a) \/ CopyChunk(a) \/ HandlerWrites(a)
    BY <2>2 DEF HeaderAndSeek, CopyChunk, HandlerWrites
  <2>3. CASE \E continue \in BOOLEAN : Progress(a, continue)
    BY <2>3 DEF Progress, Fail, End
  <2>4. CASE AllocationFails(a) \/ SeekFails(a) \/ ReadFails(a) \/ HandlerFails(a) \/ OutputFails(a) \/ Returns(a)
    BY <2>4 DEF AllocationFails, SeekFails, ReadFails, HandlerFails, OutputFails, Returns, Fail, End
  <2> QED
    BY <2>1, <2>2, <2>3, <2>4 DEF Resume
<1>4. \A b \in Archives : b # a => arch'[b] = arch[b] /\ call'[b] = call[b]
  BY <1>1, <1>2, <1>3
<1>5. /\ arch'[a].opened = arch[a].opened /\ arch'[a].decode = arch[a].decode
      /\ arch'[a].files = arch[a].files
  BY <1>1, <1>2 DEF ArchiveType
<1> QED
  BY <1>4, <1>5

\* Every way extract_file ends has its code.
LEMMA ExtractItemKeeps ==
  ASSUME BoundaryInv, NEW a \in Archives, ExtractItem(a)
  PROVE  BoundaryInv'
<1>1. /\ held[a] /\ (ExtractFile(a) \/ Resume(a)) /\ UNCHANGED <<held, option, fate, opt0>>
  BY DEF ExtractItem
<1>2. IndInv'
  BY <1>1, NextKeepsInv DEF BoundaryInv, Next
<1>3. ret' \in RetType
  <2>1. CASE Idle(a)'
    <3>1. ExtractCode(call'[a].outcome) \in Codes
      BY DEF ExtractCode, Codes
    <3> QED
      BY <2>1, <3>1, ReturnedType DEF ExtractItem
  <2>2. CASE ~Idle(a)'
    BY <2>2 DEF ExtractItem, BoundaryInv, BoundaryType
  <2> QED
    BY <2>1, <2>2
<1>4. BoundaryType'
  BY <1>1, <1>3 DEF BoundaryInv, BoundaryType
<1>5. \A b \in Archives :
        /\ b # a => arch'[b] = arch[b] /\ call'[b] = call[b]
        /\ arch'[b].opened = arch[b].opened /\ arch'[b].decode = arch[b].decode
  BY <1>1, ExtractingLeaves DEF BoundaryInv
<1>6. Slot(held'[a], arch'[a], call'[a], opt0'[a])
  BY <1>1, <1>5 DEF BoundaryInv, Slots, Slot
<1>7. \A b \in Archives \ {a} :
        /\ held'[b] = held[b] /\ opt0'[b] = opt0[b] /\ call'[b] = call[b] /\ arch'[b] = arch[b]
  BY <1>1, <1>5
<1> QED
  BY <1>1, <1>2, <1>4, <1>6, <1>7, OneSlot

\* The functions that touch no object.
LEMMA AsideStepsKeep ==
  ASSUME BoundaryInv,
         \/ OpenRefused \/ CallRefused \/ UnloadSubModule
         \/ \E decode \in BOOLEAN : LoadSubModule(decode)
         \/ \E a \in Archives, i \in Nat : GetItem(a, i)
  PROVE  BoundaryInv'
<1>1. UNCHANGED <<vars, held, fate, opt0>>
  BY DEF OpenRefused, CallRefused, UnloadSubModule, LoadSubModule, GetItem
<1>2. option' \in BOOLEAN /\ (~Sessioned => option' = FALSE)
  BY ListingAssumption DEF OpenRefused, CallRefused, UnloadSubModule, LoadSubModule, GetItem,
     BoundaryInv, BoundaryType, RawIgnoresOption
<1>3. ret' \in RetType
  <2>1. CASE UnloadSubModule
    BY <2>1 DEF UnloadSubModule, BoundaryInv, BoundaryType
  <2>2. CASE OpenRefused \/ \E decode \in BOOLEAN : LoadSubModule(decode)
    BY <2>2 DEF OpenRefused, LoadSubModule, Returned, RetType, Codes
  <2>3. CASE CallRefused
    <3>1. \/ Returned("PrepareFiles", "FALSE") \/ Returned("GetItem", "GET_ITEM_ERROR")
          \/ Returned("ExtractItem", "SER_ERROR_SYSTEM")
      BY <2>3 DEF CallRefused
    <3> QED
      BY <3>1 DEF Returned, RetType, Codes
  <2>4. CASE \E a \in Archives, i \in Nat : GetItem(a, i)
    BY <2>4 DEF GetItem, Returned, RetType, Codes
  <2> QED
    BY <2>1, <2>2, <2>3, <2>4
<1> QED
  BY <1>1, <1>2, <1>3, AsideKeeps

\* Every exported function keeps the invariant.
LEMMA NextKeepsBoundary == BoundaryInv /\ [ObserverNext]_allVars => BoundaryInv'
<1> SUFFICES ASSUME BoundaryInv, [ObserverNext]_allVars PROVE BoundaryInv'
  OBVIOUS
<1>1. CASE UNCHANGED allVars
  <2>1. UNCHANGED <<vars, held, fate, opt0>> /\ UNCHANGED <<option, ret>>
    BY <1>1 DEF allVars, vars
  <2> QED
    BY <2>1, AsideKeeps DEF BoundaryInv, BoundaryType, RawIgnoresOption
<1>2. ASSUME NEW a \in Archives, NEW i \in 1..(Len(arch[a].files) + 1), GetItem(a, i)
      PROVE  BoundaryInv'
  <2>1. i \in Nat
    BY Facts DEF ArchiveType, BoundaryInv
  <2> QED
    BY <1>2, <2>1, AsideStepsKeep
<1> QED
  BY <1>1, <1>2, AsideStepsKeep, OpenStorageKeeps, CloseStorageKeeps, PrepareFilesKeeps, ExtractItemKeeps
     DEF ObserverNext

-----------------------------------------------------------------------------
\* The invariant of the boundary holds in every reachable state.
THEOREM BoundaryInvariance == ObserverSpec => []BoundaryInv
BY InitBoundary, NextKeepsBoundary, PTL DEF ObserverSpec

\* A handle in the host's hands stands for an opened object, a free slot holds
\* nothing whichever way its calls failed, and every code is a documented one.
THEOREM HandlesStaySound == ObserverSpec => []HandlesAreSound
<1>1. BoundaryInv => HandlesAreSound
  BY DEF BoundaryInv, BoundaryType, RetType, Slots, Slot, IndInv, HandlesAreSound, ObserverTypeOK, HandlesAreOpen
<1> QED
  BY <1>1, BoundaryInvariance, PTL

\* The rows of a handle are those of the settings it was opened with, however
\* often the module is configured again.
THEOREM SettingsStaySnapshot == ObserverSpec => []SettingsAreSnapshot
<1>1. ASSUME BoundaryInv PROVE SettingsAreSnapshot
  BY <1>1 DEF BoundaryInv, IndInv, Slots, Slot, RowsOf, SettingsAreSnapshot
<1> QED
  BY <1>1, BoundaryInvariance, PTL

\* No call, and no failure of one, moves a row of an open handle to another index.
THEOREM IndexesStay == ObserverSpec => RowsKeepTheirIndex
<1>1. ASSUME BoundaryInv, [ObserverNext]_allVars, NEW a \in Archives,
             held[a], held'[a], arch[a].files # <<>>
      PROVE  arch'[a].files = arch[a].files
  <2>1. arch \in [Archives -> ArchiveType] /\ held \in [Archives -> BOOLEAN]
    BY <1>1 DEF BoundaryInv, IndInv, TypeOK, BoundaryType
  <2>2. CASE arch' = arch
    BY <2>2
  <2>3. ASSUME NEW b \in Archives, NEW s \in Sources, NEW sniffed \in BOOLEAN, OpenStorage(b, s, sniffed)
        PROVE  arch'[a].files = arch[a].files
    BY <1>1, <2>1, <2>3 DEF OpenStorage
  <2>4. ASSUME NEW b \in Archives, CloseStorage(b)
        PROVE  arch'[a].files = arch[a].files
    BY <1>1, <2>1, <2>4 DEF CloseStorage
  <2>5. ASSUME NEW b \in Archives, PrepareFilesOf(b)
        PROVE  arch'[a].files = arch[a].files
    <3>1. PICK r \in PrepareResults(arch[b]) : arch' = [arch EXCEPT ![b] = r.arch]
      BY <2>5 DEF PrepareFilesOf
    <3>2. arch[b].files # <<>> => r.arch.files = arch[b].files
      BY <2>1, PreparingLeaves
    <3> QED
      BY <1>1, <2>1, <3>1, <3>2
  <2>6. ASSUME NEW b \in Archives, ExtractItem(b)
        PROVE  arch'[a].files = arch[a].files
    BY <1>1, <2>6, ExtractingLeaves DEF ExtractItem, BoundaryInv
  <2>7. \/ arch' = arch
        \/ \E b \in Archives :
             \/ \E s \in Sources, sniffed \in BOOLEAN : OpenStorage(b, s, sniffed)
             \/ CloseStorage(b) \/ PrepareFilesOf(b) \/ ExtractItem(b)
    BY <1>1 DEF ObserverNext, allVars, vars, OpenRefused, CallRefused, UnloadSubModule, LoadSubModule, GetItem
  <2> QED
    BY <2>2, <2>3, <2>4, <2>5, <2>6, <2>7
<1>2. BoundaryInv /\ [ObserverNext]_allVars =>
        [\A a \in Archives :
           held[a] /\ held'[a] /\ arch[a].files # <<>> => arch'[a].files = arch[a].files]_allVars
  BY <1>1
<1> QED
  BY <1>2, BoundaryInvariance, PTL DEF ObserverSpec, RowsKeepTheirIndex

-----------------------------------------------------------------------------
(***************************************************************************)
(* The refinement.  What the contract sees of the boundary: the job and    *)
(* the verdict of each handle, and the files no running call writes.       *)
(***************************************************************************)
Job == [a \in Archives |->
          IF Running(a) THEN [row |-> call[a].item, path |-> call[a].dest] ELSE NoJob]
Verdict == [a \in Archives |-> ExtractCode(call[a].outcome)]
Taken(p) == \E a \in Archives : Running(a) /\ call[a].dest = p
File == [p \in Paths |-> IF Taken(p) THEN [is |-> "busy", data |-> <<>>] ELSE disk[p]]

\* A job is the row and the path of a running call, and never "none".
LEMMA Jobs ==
  ASSUME IndInv, NEW a \in Archives
  PROVE  /\ Running(a) => Job[a] = [row |-> call[a].item, path |-> call[a].dest] /\ Job[a] # NoJob
         /\ ~Running(a) => Job[a] = NoJob
<1>1. Running(a) => call[a].dest \in Paths
  BY Facts
<1>2. Running(a) => call[a].dest # "none"
  BY <1>1, ListingAssumption
<1>3. Running(a) => [row |-> call[a].item, path |-> call[a].dest].path # NoJob.path
  BY <1>2 DEF NoJob
<1> QED
  BY <1>3 DEF Job

\* No file on the disk is busy by itself.
LEMMA FilesAreNotBusy ==
  ASSUME IndInv, NEW p \in Paths
  PROVE  disk[p] # [is |-> "busy", data |-> <<>>]
<1>1. disk[p].is \in {"absent", "prior", "output"}
  BY DEF IndInv, TypeOK, FileType
<1> QED
  BY <1>1

\* What one call does to the jobs and verdicts.
LEMMA OneJob ==
  ASSUME NEW a \in Archives, \A b \in Archives \ {a} : call'[b] = call[b]
  PROVE  /\ Job' = [Job EXCEPT ![a] = Job'[a]]
         /\ Verdict' = [Verdict EXCEPT ![a] = Verdict'[a]]
         /\ Verdict'[a] = ExtractCode(call'[a].outcome)
<1>1. \A b \in Archives \ {a} : Job'[b] = Job[b] /\ Verdict'[b] = Verdict[b]
  BY DEF Job, Verdict, Running, Idle
<1>2. DOMAIN Job = Archives /\ DOMAIN Verdict = Archives /\ DOMAIN Job' = Archives /\ DOMAIN Verdict' = Archives
  BY DEF Job, Verdict
<1>3. Job' = [b \in Archives |-> Job'[b]] /\ Verdict' = [b \in Archives |-> Verdict'[b]]
  BY DEF Job, Verdict
<1>4. Job = [b \in Archives |-> Job[b]] /\ Verdict = [b \in Archives |-> Verdict[b]]
  BY DEF Job, Verdict
<1>5. Verdict'[a] = ExtractCode(call'[a].outcome)
  BY DEF Verdict
<1> HIDE DEF Job, Verdict
<1>6. Job' = [Job EXCEPT ![a] = Job'[a]]
  BY <1>1, <1>3, <1>4
<1>7. Verdict' = [Verdict EXCEPT ![a] = Verdict'[a]]
  BY <1>1, <1>3, <1>4
<1> QED
  BY <1>5, <1>6, <1>7

\* A call that goes on is not seen.
LEMMA MovesUnseen ==
  ASSUME NEW a \in Archives, \A b \in Archives \ {a} : call'[b] = call[b],
         Running(a), Running(a)', call'[a].dest = call[a].dest, call'[a].item = call[a].item,
         call'[a].outcome = call[a].outcome,
         \A q \in Paths : disk'[q] # disk[q] => q = call[a].dest
  PROVE  Job' = Job /\ Verdict' = Verdict /\ File' = File
<1>1. \A b \in Archives : /\ Running(b)' <=> Running(b)
                          /\ call'[b].dest = call[b].dest /\ call'[b].item = call[b].item
                          /\ call'[b].outcome = call[b].outcome
  BY DEF Running, Idle
<1>2. \A p \in Paths : Taken(p)' <=> Taken(p)
  BY <1>1 DEF Taken
<1>3. Job' = Job
  BY <1>1 DEF Job
<1>4. Verdict' = Verdict
  BY <1>1 DEF Verdict
<1>5. \A p \in Paths : ~Taken(p) => disk'[p] = disk[p]
  BY DEF Taken
<1>6. File' = File
  BY <1>2, <1>5 DEF File
<1> QED
  BY <1>3, <1>4, <1>6

\* A step between calls shows no file.
LEMMA FilesBetweenCalls ==
  ASSUME NEW a \in Archives, \A b \in Archives \ {a} : call'[b] = call[b],
         ~Running(a), ~Running(a)', disk' = disk
  PROVE  File' = File
<1>1. \A b \in Archives : (Running(b)' <=> Running(b)) /\ (Running(b) => call'[b].dest = call[b].dest)
  BY DEF Running, Idle
<1>2. \A p \in Paths : Taken(p)' <=> Taken(p)
  BY <1>1 DEF Taken
<1> QED
  BY <1>2 DEF File

\* A call that ends shows its destination as it left it.
LEMMA FileAtEnd ==
  ASSUME IndInv, NEW a \in Archives, \A b \in Archives \ {a} : call'[b] = call[b],
         Running(a), ~Running(a)',
         \A q \in Paths : disk'[q] # disk[q] => q = call[a].dest
  PROVE  /\ call[a].dest \in Paths
         /\ File' = [File EXCEPT ![call[a].dest] = File'[call[a].dest]]
         /\ File'[call[a].dest] = disk'[call[a].dest]
<1> DEFINE d == call[a].dest
<1>1. d \in Paths
  BY Facts
<1>2. \A b \in Archives \ {a} : (Running(b)' <=> Running(b)) /\ call'[b].dest = call[b].dest
  BY DEF Running, Idle
<1> HIDE DEF d
<1>a. \A b \in Archives \ {a} : Running(b) => call[b].dest # d
  BY DEF IndInv, OwnDestinations, d
<1>3. \A p \in Paths : p = d => ~Taken(p)'
  BY <1>2, <1>a DEF Taken
<1>b. \A p \in Paths : p # d => disk'[p] = disk[p]
  BY DEF d
<1>4. \A p \in Paths : p # d => (Taken(p)' <=> Taken(p)) /\ disk'[p] = disk[p]
  BY <1>2, <1>b DEF Taken, d
<1>5. \A p \in Paths : p # d => File'[p] = File[p]
  BY <1>4 DEF File
<1>6. File'[d] = disk'[d]
  BY <1>1, <1>3 DEF File
<1>7. File' = [p \in Paths |-> File'[p]] /\ File = [p \in Paths |-> File[p]]
  BY DEF File
<1> HIDE DEF File, d
<1>8. File' = [File EXCEPT ![d] = File'[d]]
  BY <1>1, <1>5, <1>7
<1> QED
  BY <1>1, <1>6, <1>8 DEF d

\* A call that begins takes its destination.
LEMMA FileAtStart ==
  ASSUME NEW a \in Archives, \A b \in Archives \ {a} : call'[b] = call[b], NEW p \in Paths,
         ~Running(a), Running(a)', call'[a].dest = p, PathFree(p),
         \A q \in Paths : disk'[q] # disk[q] => q = p
  PROVE  /\ File[p] = disk[p]
         /\ File' = [File EXCEPT ![p] = [is |-> "busy", data |-> <<>>]]
<1>1. \A b \in Archives \ {a} : Running(b)' <=> Running(b)
  BY DEF Running, Idle
<1>2. ~Taken(p) /\ Taken(p)'
  BY DEF Taken, PathFree
<1>3. \A q \in Paths : q # p => (Taken(q)' <=> Taken(q)) /\ disk'[q] = disk[q]
  BY <1>1 DEF Taken
<1>4. \A q \in Paths : q # p => File'[q] = File[q]
  BY <1>3 DEF File
<1>5. File[p] = disk[p] /\ File'[p] = [is |-> "busy", data |-> <<>>]
  BY <1>2 DEF File
<1>6. File' = [q \in Paths |-> File'[q]] /\ File = [q \in Paths |-> File[q]]
  BY DEF File
<1> HIDE DEF File
<1>7. File' = [File EXCEPT ![p] = [is |-> "busy", data |-> <<>>]]
  BY <1>4, <1>5, <1>6
<1> QED
  BY <1>5, <1>7

-----------------------------------------------------------------------------
\* The code of a failure is one.
LEMMA FailureCodes ==
  ASSUME NEW outcome \in Outcomes \ {"none", "returned"}
  PROVE  ExtractCode(outcome) \in {"SER_ERROR_WRITE", "SER_ERROR_READ", "SER_ERROR_SYSTEM", "SER_USERABORT"}
BY DEF ExtractCode, Outcomes

\* A call that ended shows the outcome it ended with.
LEMMA EndShows ==
  ASSUME IndInv, NEW a \in Archives, NEW outcome, NEW why, End(a, outcome, why)
  PROVE  /\ ~Running(a)' /\ call'[a].outcome = outcome
         /\ \A b \in Archives \ {a} : call'[b] = call[b]
<1>1. call'[a] = [NewCall EXCEPT !.outcome = outcome, !.cause = why] /\ \A b \in Archives \ {a} : call'[b] = call[b]
  BY DEF End, IndInv, TypeOK
<1>2. call'[a].pc = "idle" /\ call'[a].outcome = outcome
  BY <1>1 DEF NewCall
<1> QED
  BY <1>1, <1>2 DEF Running, Idle

\* A running step is a success, a failure or nothing to the host.
LEMMA ResumeMaps ==
  ASSUME IndInv, IndInv', NEW a \in Archives, Resume(a)
  PROVE  Contract!Succeed(a) \/ Contract!Fail(a) \/ (Job' = Job /\ Verdict' = Verdict /\ File' = File)
<1>1. \A b \in Archives \ {a} : call'[b] = call[b]
  BY ExtractingLeaves
<1>2. /\ Running(a)
      /\ \A q \in Paths : disk'[q] # disk[q] => q = call[a].dest
      /\ disk'[call[a].dest].is \in {"absent", "output"}
  BY ResumeShape
<1>3. CASE /\ Running(a)' /\ call'[a].dest = call[a].dest /\ call'[a].item = call[a].item
           /\ call'[a].outcome = call[a].outcome
  BY <1>1, <1>2, <1>3, MovesUnseen
<1>4. /\ Job[a] # NoJob /\ Job[a].path = call[a].dest /\ Job[a].row = call[a].item
  <2>1. Job[a] = [row |-> call[a].item, path |-> call[a].dest] /\ Job[a] # NoJob
    BY <1>2, Jobs
  <2> QED
    BY <2>1
<1>5. ASSUME ~Running(a)'
      PROVE  /\ Job' = [Job EXCEPT ![a] = NoJob]
             /\ File' = [File EXCEPT ![Job[a].path] = File'[Job[a].path]]
             /\ File'[Job[a].path] = disk'[call[a].dest]
  <2>1. Job'[a] = NoJob
    BY <1>5 DEF Job
  <2>2. Job' = [Job EXCEPT ![a] = Job'[a]]
    BY <1>1, OneJob
  <2> QED
    BY <1>1, <1>2, <1>4, <1>5, <2>1, <2>2, FileAtEnd
<1>6. CASE \E outcome \in Outcomes \ {"none", "returned"}, why \in Causes : End(a, outcome, why)
  <2>1. PICK outcome \in Outcomes \ {"none", "returned"}, why \in Causes : End(a, outcome, why)
    BY <1>6
  <2>2. ~Running(a)' /\ call'[a].outcome = outcome
    BY <2>1, EndShows
  <2>3. Verdict' = [Verdict EXCEPT ![a] = ExtractCode(outcome)]
    BY <1>1, <2>2, OneJob
  <2>4. Contract!Fail(a)
    BY <1>2, <1>4, <1>5, <2>2, <2>3, FailureCodes DEF Contract!Fail, Job, Verdict, File, Taken
  <2> QED
    BY <2>4
<1>7. CASE Returns(a)
  <2>1. End(a, "returned", "none") /\ disk' = disk /\ call[a].pc \in {"copy", "handler"} /\ ~BytesLeft(a)
    BY <1>7 DEF Returns
  <2>2. ~Running(a)' /\ call'[a].outcome = "returned"
    BY <2>1, EndShows
  <2>3. Verdict' = [Verdict EXCEPT ![a] = "SER_SUCCESS"]
    <3>1. ExtractCode("returned") = "SER_SUCCESS"
      BY DEF ExtractCode
    <3> QED
      BY <1>1, <2>2, <3>1, OneJob
  <2>4. disk'[call[a].dest] = [is |-> "output", data |-> Whole(call[a].item)]
    <3>1. /\ call[a].dest \in Paths /\ disk[call[a].dest].is = "output"
          /\ disk[call[a].dest].data = Prefix(call[a].item, call[a].done)
          /\ call[a].done <= call[a].item.chunks
      BY <2>1, Facts DEF CallOK
    <3>2. call[a].done \in Nat /\ call[a].item.chunks \in Nat
      BY Facts DEF CallType, Item
    <3>3. call[a].done = call[a].item.chunks
      BY <2>1, <3>1, <3>2 DEF BytesLeft
    <3>4. disk[call[a].dest] \in FileType
      BY <3>1, Facts
    <3> QED
      BY <2>1, <3>1, <3>3, <3>4 DEF Whole, FileType
  <2>5. Contract!Succeed(a)
    BY <1>4, <1>5, <2>2, <2>3, <2>4 DEF Contract!Succeed, Job, Verdict, File, Taken
  <2> QED
    BY <2>5
<1> QED
  BY <1>3, <1>6, <1>7, ResumeShape

\* A row of a listing is one of the contract's rows.
LEMMA ListingRowsAreListed ==
  ASSUME NEW s \in Sources, NEW d \in BOOLEAN, NEW j \in DOMAIN Listing[s][d]
  PROVE  Listing[s][d][j] \in ListedRows
<1> DEFINE RowsFound(t, e) == {Listing[t][e][k] : k \in DOMAIN Listing[t][e]}
<1>1. Listing[s][d][j] \in RowsFound(s, d)
  OBVIOUS
<1>2. ListedRows = UNION {RowsFound(t, e) : t \in Sources, e \in BOOLEAN}
  BY DEF ListedRows
<1> HIDE DEF RowsFound
<1>3. RowsFound(s, d) \in {RowsFound(t, e) : t \in Sources, e \in BOOLEAN}
  OBVIOUS
<1> QED
  BY <1>1, <1>2, <1>3

\* A call that begins is a start or a refusal.
LEMMA ExtractMaps ==
  ASSUME IndInv, IndInv', NEW a \in Archives, ExtractFile(a)
  PROVE  Contract!Refuse(a) \/ \E r \in ListedRows, p \in Paths : Contract!Start(a, r, p)
<1>1. \A b \in Archives \ {a} : call'[b] = call[b]
  BY ExtractingLeaves
<1>2. PICK i \in 1..(Len(arch[a].files) + 1) :
        IndexRefused(a, i) \/ OutputRefused(a, i) \/ \E p \in Paths : OutputOpened(a, i, p)
  BY DEF ExtractFile
<1>3. ~Running(a) /\ Job[a] = NoJob
  BY <1>2, Jobs DEF IndexRefused, OutputRefused, OutputOpened, Running
<1>4. CASE IndexRefused(a, i) \/ OutputRefused(a, i)
  <2>1. PICK outcome \in Outcomes \ {"none", "returned"}, why \in Causes : Refused(a, outcome, why)
    BY <1>4 DEF IndexRefused, OutputRefused, Outcomes, Causes
  <2>2. End(a, outcome, why) /\ disk' = disk
    BY <2>1 DEF Refused
  <2>3. ~Running(a)' /\ call'[a].outcome = outcome
    BY <2>2, EndShows
  <2>4. Job' = Job
    <3>1. Job'[a] = Job[a] /\ Job' = [Job EXCEPT ![a] = Job'[a]]
      BY <1>1, <1>3, <2>3, OneJob DEF Job
    <3> QED
      BY <3>1 DEF Job
  <2>5. Verdict' = [Verdict EXCEPT ![a] = ExtractCode(outcome)]
    BY <1>1, <2>3, OneJob
  <2>6. File' = File
    BY <1>1, <1>3, <2>2, <2>3, FilesBetweenCalls
  <2>7. Contract!Refuse(a)
    BY <1>3, <2>4, <2>5, <2>6, FailureCodes DEF Contract!Refuse, Job, Verdict, File, Taken
  <2> QED
    BY <2>7
<1>5. CASE \E p \in Paths : OutputOpened(a, i, p)
  <2>1. PICK p \in Paths : OutputOpened(a, i, p)
    BY <1>5
  <2> DEFINE it == arch[a].files[i]
  <2>2. /\ call'[a].pc \in {"handler", "header"} /\ call'[a].dest = p /\ call'[a].item = it
        /\ call'[a].outcome = "none"
        /\ disk' = [disk EXCEPT ![p] = [is |-> "output", data |-> <<>>]]
        /\ PathFree(p) /\ i <= Len(arch[a].files)
    BY <2>1 DEF OutputOpened, IndInv, TypeOK
  <2>3. \E r \in ListedRows : r = it
    <3>1. arch[a] \in ArchiveType /\ RowsOf(arch[a])
      BY Facts
    <3>2. arch[a].files \in Seq(Item) /\ i \in DOMAIN arch[a].files /\ arch[a].files # <<>>
      BY <2>2, <3>1 DEF ArchiveType
    <3>3. /\ arch[a].source \in Sources /\ arch[a].decode \in BOOLEAN
          /\ arch[a].files = Listing[arch[a].source][arch[a].decode]
      BY <3>1, <3>2 DEF ArchiveType, RowsOf
    <3>4. PICK s \in Sources, d \in BOOLEAN, j \in Nat : j \in DOMAIN Listing[s][d] /\ it = Listing[s][d][j]
      BY <3>2, <3>3
    <3> QED
      BY <3>4, ListingRowsAreListed
  <2>4. Running(a)'
    BY <2>2 DEF Running, Idle
  <2>5. Job' = [Job EXCEPT ![a] = [row |-> it, path |-> p]]
    <3>1. Job'[a] = [row |-> it, path |-> p]
      BY <2>2, <2>4 DEF Job
    <3> QED
      BY <1>1, <3>1, OneJob
  <2>6. Verdict' = [Verdict EXCEPT ![a] = "none"]
    <3>1. ExtractCode("none") = "none"
      BY DEF ExtractCode
    <3> QED
      BY <1>1, <2>2, <3>1, OneJob
  <2>7. File[p] = disk[p] /\ File' = [File EXCEPT ![p] = [is |-> "busy", data |-> <<>>]]
    BY <1>1, <1>3, <2>2, <2>4, FileAtStart
  <2>8. File[p] # [is |-> "busy", data |-> <<>>]
    BY <2>7, FilesAreNotBusy
  <2> HIDE DEF it
  <2>9. PICK r \in ListedRows : r = it
    BY <2>3
  <2>10. Contract!Start(a, r, p)
    BY <1>3, <2>5, <2>6, <2>7, <2>8, <2>9 DEF Contract!Start, Contract!Busy, Job, Verdict, File, Taken
  <2> QED
    BY <2>10
<1> QED
  BY <1>2, <1>4, <1>5

\* Every exported function is a step of the contract, or none of its business.
LEMMA StepMaps ==
  ASSUME BoundaryInv, BoundaryInv', [ObserverNext]_allVars
  PROVE  [Contract!Next]_(Contract!vars)
<1>1. CASE call' = call /\ disk' = disk
  <2>1. Job' = Job /\ Verdict' = Verdict /\ File' = File
    BY <1>1 DEF Job, Verdict, File, Taken, Running, Idle
  <2> QED
    BY <2>1 DEF Contract!vars, Job, Verdict, File, Taken
<1>2. ASSUME NEW a \in Archives, CloseStorage(a)
      PROVE  Contract!Forget(a)
  <2>1. /\ call'[a] = NewCall /\ (\A b \in Archives \ {a} : call'[b] = call[b]) /\ disk' = disk
        /\ ~Running(a)
    BY <1>2 DEF CloseStorage, Running, BoundaryInv, IndInv, TypeOK
  <2>2. ~Running(a)' /\ call'[a].outcome = "none"
    BY <2>1 DEF NewCall, Running, Idle
  <2>3. Job[a] = NoJob /\ Job'[a] = NoJob
    BY <2>1, <2>2 DEF Job
  <2>4. Job' = Job
    <3>1. Job' = [Job EXCEPT ![a] = Job'[a]]
      BY <2>1, OneJob
    <3> QED
      BY <2>3, <3>1 DEF Job
  <2>5. Verdict' = [Verdict EXCEPT ![a] = "none"]
    <3>1. ExtractCode("none") = "none"
      BY DEF ExtractCode
    <3> QED
      BY <2>1, <2>2, <3>1, OneJob
  <2>6. File' = File
    BY <2>1, <2>2, FilesBetweenCalls
  <2> QED
    BY <2>3, <2>4, <2>5, <2>6 DEF Contract!Forget, Job, Verdict, File, Taken
<1>3. ASSUME NEW a \in Archives, ExtractItem(a)
      PROVE  [Contract!Next]_(Contract!vars)
  <2>1. CASE ExtractFile(a)
    BY <2>1, ExtractMaps DEF BoundaryInv, Contract!Next
  <2>2. CASE Resume(a)
    <3>1. Contract!Succeed(a) \/ Contract!Fail(a) \/ (Job' = Job /\ Verdict' = Verdict /\ File' = File)
      BY <2>2, ResumeMaps DEF BoundaryInv
    <3>2. CASE Job' = Job /\ Verdict' = Verdict /\ File' = File
      BY <3>2 DEF Contract!vars, Job, Verdict, File, Taken
    <3> QED
      BY <3>1, <3>2 DEF Contract!Next
  <2> QED
    BY <1>3, <2>1, <2>2 DEF ExtractItem
<1>4. \/ call' = call /\ disk' = disk
      \/ \E a \in Archives : CloseStorage(a) \/ ExtractItem(a)
  BY DEF ObserverNext, allVars, vars, OpenRefused, CallRefused, UnloadSubModule, LoadSubModule, GetItem,
     OpenStorage, PrepareFilesOf
<1> QED
  BY <1>1, <1>2, <1>3, <1>4 DEF Contract!Next

\* The boundary keeps the contract of ExtractItem: a success leaves the whole
\* row, a failure touches its own destination only, a refusal none, and no
\* other call ever changes a destination.
THEOREM ContractIsKept == ObserverSpec => ImplementsContract
<1>1. ObserverInit => Contract!Init
  <2> SUFFICES ASSUME ObserverInit PROVE Contract!Init
    OBVIOUS
  <2>1. call = [a \in Archives |-> NewCall] /\ \A a \in Archives : ~Running(a)
    BY DEF ObserverInit, Init, Running, Idle, NewCall
  <2>2. Job = [a \in Archives |-> NoJob]
    BY <2>1 DEF Job
  <2>3. Verdict = [a \in Archives |-> "none"]
    <3>1. \A a \in Archives : ExtractCode(call[a].outcome) = "none"
      BY <2>1 DEF ExtractCode, NewCall
    <3> QED
      BY <3>1 DEF Verdict
  <2>4. File = disk
    BY <2>1 DEF File, Taken, ObserverInit, Init
  <2>5. disk \in [Paths -> {[is |-> "absent", data |-> <<>>], [is |-> "prior", data |-> <<>>]}]
    BY DEF ObserverInit, Init
  <2> QED
    BY <2>2, <2>3, <2>4, <2>5 DEF Contract!Init, Job, Verdict, File, Taken
<1>2. BoundaryInv /\ BoundaryInv' /\ [ObserverNext]_allVars => [Contract!Next]_(Contract!vars)
  BY StepMaps
<1> QED
  BY <1>1, <1>2, BoundaryInvariance, PTL DEF ObserverSpec, ImplementsContract, Contract!Spec
=============================================================================
