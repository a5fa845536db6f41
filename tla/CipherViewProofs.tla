-------------------------- MODULE CipherViewProofs --------------------------
(***************************************************************************)
(* Proofs about CipherView: the window under the get area is the plaintext *)
(* of its position whatever was sought, peeked, verified or failed, and    *)
(* the view implements PlaintextSource, for every size of a block, of a    *)
(* chunk and of the payload.                                               *)
(*                                                                         *)
(* WindowIsPlaintext is not inductive: a fill must bring at least one byte *)
(* past the block's start and none past the end, which needs the running   *)
(* read to fit the payload (Place), and that a cell of the buffer holds    *)
(* either no plaintext or a byte of this payload is what lets a distrusted *)
(* chunk still be a piece of the abstract source (Content).                *)
(***************************************************************************)
EXTENDS CipherView, TLAPS

\* The get area ends inside the payload, and so does what a read still wants.
Place ==
  /\ area.next <= area.end
  /\ cursor + area.end <= Size
  /\ Position + left <= Size

\* What the buffer may hold, and what it holds under a get area it was filled for.
Content ==
  /\ buffer \in [Cells -> {Foreign} \cup 0..(Size - 1)]
  /\ area.set /\ ~torn => \A c \in 0..(area.end - 1) : buffer[c] = cursor + c
  /\ cipherValid => cipher = cipherNext

IndInv == TypeOK /\ Place /\ Content

-----------------------------------------------------------------------------

\* Min of the folds' module, on two numbers.
LEMMA MinOfTwo ==
  ASSUME NEW a \in Int, NEW b \in Int
  PROVE  Min({a, b}) = IF a <= b THEN a ELSE b
<1> DEFINE m == IF a <= b THEN a ELSE b
<1>1. m \in {a, b} /\ \A y \in {a, b} : m <= y
  OBVIOUS
<1>2. \A x : x \in {a, b} /\ (\A y \in {a, b} : x <= y) => x = m
  OBVIOUS
<1> QED
  BY <1>1, <1>2 DEF Min

\* The start of the block that holds a position.
LEMMA BlockStart ==
  ASSUME NEW b \in Nat \ {0}, NEW p \in Nat
  PROVE  /\ p % b \in 0..(b - 1)
         /\ p - (p % b) \in 0..p
         /\ (p - (p % b)) % b = 0
<1>1. p % b \in 0..(b - 1) /\ p \div b \in Nat /\ p = b * (p \div b) + (p % b)
  OBVIOUS
<1>2. \A q \in Nat : (b * q) % b = 0
  OBVIOUS
<1>3. p - (p % b) = b * (p \div b)
  BY <1>1
<1>4. b * (p \div b) \in Nat
  BY <1>1
<1> DEFINE r == p % b
<1>5. r \in 0..(b - 1) /\ p - r \in Nat
  BY <1>1, <1>3, <1>4
<1> HIDE DEF r
<1>6. p - r \in 0..p
  BY <1>5
<1> USE DEF r
<1>7. (p - r) % b = 0
  BY <1>1, <1>2, <1>3
<1> QED
  BY <1>1, <1>6, <1>7

\* The padded payload covers the plaintext and has a whole block when there is any.
LEMMA PaddedCovers ==
  /\ Padded \in Nat /\ Size <= Padded
  /\ Size > 0 => Block <= Padded
<1> DEFINE s == Size + Block - 1
           q == s \div Block
<1>1. s \in Nat /\ Block \in Nat \ {0} /\ Size \in Nat
  BY ViewAssumption
<1>2. q \in Nat /\ s = Block * q + (s % Block) /\ s % Block \in 0..(Block - 1)
  BY <1>1
<1>3. Block * q \in Nat /\ Size <= Block * q
  BY <1>1, <1>2
<1>4. Size > 0 => q >= 1
  BY <1>1, <1>2, <1>3
<1>5. q >= 1 => Block <= Block * q
  BY <1>1, <1>2
<1> QED
  BY <1>3, <1>4, <1>5 DEF Padded

\* The buffer holds at least one block unless the payload is empty.
LEMMA CapacityBounds ==
  /\ Capacity \in Nat /\ Cells = 0..(Capacity - 1)
  /\ Size > 0 => Block <= Capacity
<1>1. Capacity = IF Padded <= Chunk THEN Padded ELSE Chunk
  BY MinOfTwo, PaddedCovers, ViewAssumption DEF Capacity
<1> QED
  BY <1>1, PaddedCovers, ViewAssumption DEF Cells

\* What is known of numbers in every good state.
LEMMA Numbers ==
  ASSUME IndInv
  PROVE  /\ cursor \in Nat /\ area.next \in Nat /\ area.end \in Nat /\ left \in Nat
         /\ Position \in 0..Size /\ Size \in Nat /\ Position = cursor + area.next
         /\ area.end <= Capacity
BY ViewAssumption, CapacityBounds DEF IndInv, TypeOK, Place, Position

-----------------------------------------------------------------------------
(***************************************************************************)
(* A fill: where it starts, how much it takes, and that the cipher stands  *)
(* at the start, whether it was continued or restarted.                    *)
(***************************************************************************)
LEMMA FillStarts ==
  ASSUME IndInv, NEW w \in Nat \ {0}, Position + w <= Size
  PROVE  /\ Start \in 0..Position /\ Position - Start < Block
         /\ Restarted = Start
<1>1. Position \in Nat /\ Block \in Nat \ {0}
  BY Numbers, ViewAssumption
<1>2. CASE Sequential
  <2>1. Start = Position /\ Restarted = cipher /\ cipher = Position
    BY <1>2 DEF Start, Restarted, Sequential, IndInv, Content
  <2> QED
    BY <1>1, <2>1
<1>3. CASE ~Sequential
  <2>1. Start = Position - (Position % Block)
    BY <1>3 DEF Start
  <2>2. /\ Position % Block \in 0..(Block - 1)
        /\ Position - (Position % Block) \in 0..Position
        /\ Start % Block = 0
    BY <1>1, <2>1, BlockStart
  <2>3. Restarted = Start
    BY <1>3, <2>2 DEF Restarted
  <2> DEFINE r == Position % Block
  <2>4. r \in 0..(Block - 1) /\ Start = Position - r /\ Position - r \in 0..Position
    BY <2>1, <2>2
  <2> HIDE DEF r
  <2> QED
    BY <1>1, <2>3, <2>4
<1> QED
  BY <1>2, <1>3

\* A fill fits the buffer and the payload and reaches past the position.
LEMMA FillTakes ==
  ASSUME IndInv, NEW w \in Nat \ {0}, Position + w <= Size
  PROVE  /\ Taken(w) \in 1..Capacity
         /\ Position - Start < Taken(w)
         /\ Start + Taken(w) <= Size
<1>1. /\ Start \in 0..Position /\ Position - Start < Block
      /\ Position \in Nat /\ Size \in Nat /\ Block \in Nat
      /\ Capacity \in Nat /\ Block <= Capacity
  BY FillStarts, Numbers, CapacityBounds, ViewAssumption
<1> DEFINE more == w + Position - Start
<1>2. Taken(w) = IF Capacity <= more THEN Capacity ELSE more
  BY <1>1, MinOfTwo DEF Taken
<1> QED
  BY <1>1, <1>2

\* A fill keeps the invariant and moves the view nowhere.
LEMMA FillKeeps ==
  ASSUME IndInv, NEW w \in Nat \ {0}, Position + w <= Size, Fill(w), left' = left
  PROVE  IndInv' /\ Position' = Position
<1> DEFINE n == Taken(w)
<1>1. /\ n \in 1..Capacity /\ Position - Start < n /\ Start + n <= Size
      /\ Start \in 0..Position /\ Restarted = Start /\ Restarted # Foreign
      /\ Position \in 0..Size /\ Size \in Nat /\ Capacity \in Nat /\ left \in Nat
      /\ Cells = 0..(Capacity - 1) /\ Padded \in Nat /\ Size <= Padded
  BY FillTakes, FillStarts, Numbers, CapacityBounds, PaddedCovers, ViewAssumption
<1>2. /\ cursor' = Start /\ area' = [set |-> TRUE, next |-> Position - Start, end |-> n]
      /\ cipher' = Start + n /\ cipherNext' = Start + n /\ cipherValid' = TRUE /\ torn' = FALSE
      /\ UNCHANGED <<verified, ok, bad>>
  BY <1>1 DEF Fill
<1>3. buffer' = [c \in Cells |-> IF c < n THEN Start + c ELSE buffer[c]]
  BY <1>1 DEF Fill, Decrypted
<1> HIDE DEF n
<1>4. Position' = Position
  BY <1>1, <1>2 DEF Position
<1>5. Content'
  <2>1. buffer' \in [Cells -> {Foreign} \cup 0..(Size - 1)]
    BY <1>1, <1>3 DEF IndInv, Content
  <2>2. \A c \in 0..(area.end - 1)' : buffer'[c] = cursor' + c
    BY <1>1, <1>2, <1>3
  <2> QED
    BY <1>2, <2>1, <2>2 DEF Content
<1>6. Place'
  BY <1>1, <1>2, <1>4 DEF IndInv, Place
<1>7. TypeOK'
  <2>1. buffer' \in [Cells -> Nat \cup {Foreign}]
    BY <1>1, <1>5 DEF Content
  <2>2. /\ cursor' \in 0..Size /\ cipherNext' \in 0..Padded
        /\ area' \in [set : BOOLEAN, next : 0..Capacity, end : 0..Capacity]
    BY <1>1, <1>2
  <2> QED
    BY <1>2, <2>1, <2>2 DEF IndInv, TypeOK
<1> QED
  BY <1>4, <1>5, <1>6, <1>7 DEF IndInv

-----------------------------------------------------------------------------
\* No get area is one, and a buffer of foreign bytes is one.
LEMMA Empty ==
  /\ NoArea \in [set : BOOLEAN, next : 0..Capacity, end : 0..Capacity]
  /\ NoArea.set = FALSE /\ NoArea.next = 0 /\ NoArea.end = 0
  /\ [c \in Cells |-> Foreign] \in [Cells -> Nat \cup {Foreign}]
  /\ [c \in Cells |-> Foreign] \in [Cells -> {Foreign} \cup 0..(Size - 1)]
<1>1. 0 \in 0..Capacity
  BY CapacityBounds
<1> QED
  BY <1>1 DEF NoArea

\* The view starts in a good state.
LEMMA InitHolds == Init => IndInv
<1> SUFFICES ASSUME Init PROVE IndInv
  OBVIOUS
<1>1. Capacity \in Nat /\ Padded \in Nat /\ Size \in Nat /\ Cells = 0..(Capacity - 1)
  BY CapacityBounds, PaddedCovers, ViewAssumption
<1>2. area.set = FALSE /\ Position = 0
  BY Empty DEF Init, Position
<1>3. TypeOK
  <2>1. /\ area \in [set : BOOLEAN, next : 0..Capacity, end : 0..Capacity]
        /\ buffer \in [Cells -> Nat \cup {Foreign}]
    BY Empty DEF Init
  <2>2. cursor \in 0..Size /\ cipherNext \in 0..Padded /\ left \in Nat
    BY <1>1 DEF Init
  <2> QED
    BY <2>1, <2>2 DEF Init, TypeOK
<1>4. Place /\ Content
  BY <1>1, <1>2, Empty DEF Init, Place, Content
<1> QED
  BY <1>3, <1>4 DEF IndInv

\* A read asks for no more than the payload still has.
LEMMA ReadKeeps ==
  ASSUME IndInv, NEW k \in Counts, Read(k)
  PROVE  IndInv' /\ left' \in 0..(Size - Position) /\ Position' = Position
<1>1. Position \in 0..Size /\ Size \in Nat /\ k \in Nat
  BY Numbers, ViewAssumption
<1>2. left' = IF k <= Size - Position THEN k ELSE Size - Position
  <2>1. left' = Min({k, Size - Position})
    BY DEF Read
  <2> QED
    BY <1>1, <2>1, MinOfTwo
<1>3. left' \in 0..(Size - Position)
  BY <1>1, <1>2
<1>4. bad' \in BOOLEAN
  BY <1>1 DEF Read
<1>5. UNCHANGED <<cursor, area, buffer, cipher, cipherNext, cipherValid, verified, ok, torn>>
  BY DEF Read
<1>6. Position' = Position
  BY <1>5 DEF Position
<1>7. TypeOK'
  BY <1>1, <1>3, <1>4, <1>5 DEF IndInv, TypeOK
<1>8. Place'
  <2> DEFINE l == left'
  <2>0. l \in 0..(Size - Position)
    BY <1>3
  <2> HIDE DEF l
  <2>a. Position + l <= Size
    BY <1>1, <2>0
  <2>1. Position' + left' <= Size
    BY <1>6, <2>a DEF l
  <2>2. area' = area /\ cursor' = cursor
    BY <1>5
  <2>3. area.next <= area.end /\ cursor + area.end <= Size
    BY DEF IndInv, Place
  <2> QED
    BY <2>1, <2>2, <2>3 DEF Place
<1>9. Content'
  BY <1>5 DEF IndInv, Content
<1> QED
  BY <1>3, <1>6, <1>7, <1>8, <1>9 DEF IndInv

\* A fill that fails leaves foreign bytes, and then the view says it is torn.
LEMMA ReadFillFailsKeeps ==
  ASSUME IndInv, ReadFillFails
  PROVE  IndInv' /\ Position' = Position
<1>1. PICK n \in {0, Taken(left)} :
        /\ buffer' = [c \in Cells |-> IF c < n THEN Foreign ELSE buffer[c]]
        /\ torn' = (torn \/ (n > 0 /\ area.set))
  BY DEF ReadFillFails, FillFails
<1>2. /\ cipherValid' = Sequential /\ cipher' = (IF Sequential THEN cipher ELSE Foreign)
      /\ ok' = FALSE /\ bad' = TRUE /\ left' = 0
      /\ UNCHANGED <<cursor, area, cipherNext, verified>>
  BY DEF ReadFillFails, FillFails
<1>3. /\ left \in Nat \ {0} /\ Position + left <= Size /\ Position \in 0..Size /\ Size \in Nat
      /\ cursor \in Nat /\ area.end \in Nat /\ Cells = 0..(Capacity - 1) /\ Capacity \in Nat
      /\ area.end <= Capacity
  BY Numbers, CapacityBounds DEF ReadFillFails, IndInv, Place
<1>4. n \in Nat
  BY <1>3, FillTakes, CapacityBounds
<1>5. Position' = Position
  BY <1>2 DEF Position
<1>6. Content'
  <2>1. buffer' \in [Cells -> {Foreign} \cup 0..(Size - 1)]
    BY <1>1 DEF IndInv, Content
  <2>2. ASSUME area'.set, ~torn'  PROVE \A c \in 0..(area'.end - 1) : buffer'[c] = cursor' + c
    <3> DEFINE t == n > 0 /\ area.set
    <3>a. area' = area
      BY <1>2
    <3>b. area.set
      BY <2>2, <3>a
    <3>c. ~(torn \/ t)
      BY <1>1, <2>2
    <3>1. ~torn /\ n = 0 /\ area.set
      BY <1>4, <3>b, <3>c
    <3>2. \A c \in 0..(area.end - 1) : c \in Cells /\ ~(c < 0)
      BY <1>3
    <3> QED
      BY <1>1, <1>2, <3>1, <3>2 DEF IndInv, Content
  <2>3. cipherValid' => cipher' = cipherNext'
    BY <1>2 DEF IndInv, Content, Sequential
  <2> QED
    BY <2>1, <2>2, <2>3 DEF Content
<1>7. Place'
  BY <1>2, <1>3, <1>5 DEF IndInv, Place
<1>8. TypeOK'
  <2>1. buffer' \in [Cells -> Nat \cup {Foreign}]
    BY <1>3, <1>6 DEF Content
  <2>2. cipherValid' \in BOOLEAN
    BY <1>2 DEF IndInv, TypeOK, Sequential
  <2>3. torn' \in BOOLEAN
    BY <1>1, <1>4 DEF IndInv, TypeOK
  <2> QED
    BY <1>2, <2>1, <2>2, <2>3 DEF IndInv, TypeOK
<1> QED
  BY <1>5, <1>6, <1>7, <1>8 DEF IndInv

\* What a copy takes lies in the get area, which is bytes of the payload.
LEMMA CopyOutKeeps ==
  ASSUME IndInv, CopyOut
  PROVE  /\ IndInv'
         /\ \E k \in 1..left :
              /\ out' = [i \in 1..k |-> buffer[area.next + i - 1]]
              /\ \A i \in 1..k : area.next + i - 1 \in 0..(area.end - 1)
              /\ Position' = Position + k /\ left' = left - k /\ area.set
<1> DEFINE k == Min({area.end - area.next, left})
<1>1. /\ cursor \in Nat /\ area.next \in Nat /\ area.end \in Nat /\ left \in Nat \ {0}
      /\ area.next <= area.end /\ cursor + area.end <= Size /\ Position + left <= Size
      /\ Position = cursor + area.next /\ Size \in Nat /\ area.end <= Capacity /\ Capacity \in Nat
  BY Numbers, CapacityBounds DEF IndInv, Place, CopyOut
<1>2. area.set /\ area.next < area.end
  BY <1>1 DEF CopyOut, AreaEmpty, IndInv, TypeOK
<1>3. k \in 1..left /\ k <= area.end - area.next
  BY <1>1, <1>2, MinOfTwo
<1>4. /\ out' = [i \in 1..k |-> buffer[area.next + i - 1]]
      /\ area' = [area EXCEPT !.next = @ + k] /\ left' = left - k
      /\ UNCHANGED <<cursor, buffer, cipher, cipherNext, cipherValid, verified, ok, bad, torn>>
  BY DEF CopyOut
<1> HIDE DEF k
<1>5. area \in [set : BOOLEAN, next : 0..Capacity, end : 0..Capacity]
  BY DEF IndInv, TypeOK
<1>6. area' = [set |-> area.set, next |-> area.next + k, end |-> area.end]
  BY <1>4, <1>5
<1>7. Position' = Position + k
  BY <1>1, <1>3, <1>4, <1>6 DEF Position
<1>8. TypeOK'
  <2>1. area' \in [set : BOOLEAN, next : 0..Capacity, end : 0..Capacity]
    BY <1>1, <1>3, <1>5, <1>6
  <2>2. left' \in Nat
    BY <1>1, <1>3, <1>4
  <2> QED
    BY <1>4, <2>1, <2>2 DEF IndInv, TypeOK
<1>9. Place'
  BY <1>1, <1>3, <1>4, <1>6, <1>7 DEF IndInv, Place
<1>10. Content'
  BY <1>4, <1>6 DEF IndInv, Content
<1>11. \A i \in 1..k : area.next + i - 1 \in 0..(area.end - 1)
  BY <1>1, <1>3
<1> QED
  BY <1>2, <1>3, <1>4, <1>7, <1>8, <1>9, <1>10, <1>11 DEF IndInv

\* A seek stays in the payload: in the chunk it keeps, or without one.
LEMMA SeekKeeps ==
  ASSUME IndInv, NEW target \in Int, Seek(target)
  PROVE  IndInv' /\ Position' \in 0..Size /\ (torn' = torn \/ torn' = FALSE)
<1>1. /\ cursor \in Nat /\ area.next \in Nat /\ area.end \in Nat /\ Size \in Nat
      /\ left = 0 /\ Position \in 0..Size /\ area.end <= Capacity /\ Capacity \in Nat
  BY Numbers, CapacityBounds DEF Seek, Idle
<1>2. UNCHANGED <<buffer, cipher, cipherNext, cipherValid, verified, ok, left, out>>
  BY DEF Seek
<1>3. area \in [set : BOOLEAN, next : 0..Capacity, end : 0..Capacity]
  BY DEF IndInv, TypeOK
<1>4. CASE target \notin 0..Size
  <2>1. bad' = TRUE /\ UNCHANGED <<cursor, area, torn>>
    BY <1>4 DEF Seek
  <2>2. Position' = Position
    BY <2>1 DEF Position
  <2>3. TypeOK' /\ Place' /\ Content'
    BY <1>1, <1>2, <2>1, <2>2 DEF IndInv, TypeOK, Place, Content
  <2> QED
    BY <1>1, <2>1, <2>2, <2>3 DEF IndInv
<1>5. CASE target \in 0..Size /\ area.set /\ target \in cursor..(cursor + area.end)
  <2>1. area' = [area EXCEPT !.next = target - cursor] /\ UNCHANGED <<cursor, bad, torn>>
    BY <1>5 DEF Seek
  <2>2. area' = [set |-> area.set, next |-> target - cursor, end |-> area.end]
    BY <1>3, <2>1
  <2>3. Position' = target
    BY <1>1, <1>5, <2>1, <2>2 DEF Position
  <2>4. area' \in [set : BOOLEAN, next : 0..Capacity, end : 0..Capacity]
    BY <1>1, <1>3, <1>5, <2>2
  <2>5. TypeOK'
    BY <1>2, <2>1, <2>4 DEF IndInv, TypeOK
  <2>6. Place'
    BY <1>1, <1>2, <1>5, <2>1, <2>2, <2>3 DEF IndInv, Place
  <2>7. Content'
    BY <1>2, <2>1, <2>2 DEF IndInv, Content
  <2> QED
    BY <1>5, <2>1, <2>3, <2>5, <2>6, <2>7 DEF IndInv
<1>6. CASE target \in 0..Size /\ ~(area.set /\ target \in cursor..(cursor + area.end))
  <2>1. cursor' = target /\ area' = NoArea /\ torn' = FALSE /\ UNCHANGED bad
    BY <1>6 DEF Seek
  <2>2. Position' = target
    BY <1>6, <2>1 DEF Position, NoArea
  <2>3. TypeOK'
    BY <1>1, <1>2, <1>6, <2>1, Empty DEF IndInv, TypeOK
  <2>4. Place' /\ Content'
    BY <1>1, <1>2, <1>6, <2>1, <2>2, Empty DEF IndInv, Place, Content
  <2> QED
    BY <1>6, <2>1, <2>2, <2>3, <2>4 DEF IndInv
<1> QED
  BY <1>4, <1>5, <1>6

\* A verification leaves nothing of what it read in view.
LEMMA VerifyKeeps ==
  ASSUME IndInv, Verify
  PROVE  IndInv' /\ Position' = 0 /\ torn' = FALSE
<1>1. PICK passed \in BOOLEAN, fault \in BOOLEAN :
        /\ ok' = (ok /\ ~fault) /\ verified' = passed
        /\ bad' = IF passed THEN FALSE ELSE bad
  BY DEF Verify
<1>2. /\ buffer' = [c \in Cells |-> Foreign] /\ cursor' = 0 /\ area' = NoArea
      /\ cipherValid' = FALSE /\ torn' = FALSE /\ UNCHANGED <<cipherNext, left, out>> /\ left = 0
  BY DEF Verify, Idle
<1>3. Size \in Nat /\ Capacity \in Nat
  BY CapacityBounds, ViewAssumption
<1>4. Position' = 0
  BY <1>2 DEF Position, NoArea
<1>5. ok' \in BOOLEAN /\ verified' \in BOOLEAN /\ bad' \in BOOLEAN
  BY <1>1 DEF IndInv, TypeOK
<1>6. TypeOK'
  <2>1. /\ area' \in [set : BOOLEAN, next : 0..Capacity, end : 0..Capacity]
        /\ buffer' \in [Cells -> Nat \cup {Foreign}]
    BY <1>2, Empty
  <2>2. cursor' \in 0..Size /\ cipherNext' \in 0..Padded /\ left' \in Nat
    BY <1>2, <1>3 DEF IndInv, TypeOK
  <2> QED
    BY <1>2, <1>5, <2>1, <2>2 DEF TypeOK
<1>7. Place' /\ Content'
  BY <1>2, <1>3, <1>4, Empty DEF IndInv, Place, Content
<1> QED
  BY <1>2, <1>4, <1>6, <1>7 DEF IndInv

\* Clearing a failure changes no byte and no position.
LEMMA ClearKeeps ==
  ASSUME IndInv, Clear
  PROVE  IndInv' /\ Position' = Position
<1>1. /\ UNCHANGED <<cursor, area, buffer, cipher, cipherNext, cipherValid, verified, left, out, torn>>
      /\ ok' \in BOOLEAN /\ bad' \in BOOLEAN
  BY DEF Clear, IndInv, TypeOK
<1>2. Position' = Position
  BY <1>1 DEF Position
<1> QED
  BY <1>1, <1>2 DEF IndInv, TypeOK, Place, Content

\* A step in which nothing of the view changes.
LEMMA StutterKeeps == IndInv /\ UNCHANGED vars => IndInv'
BY DEF vars, IndInv, TypeOK, Place, Content, Position

\* A fill of the running read, and one of a peek.
LEMMA FillStepsKeep ==
  ASSUME IndInv, ReadFills \/ Peek
  PROVE  IndInv' /\ Position' = Position /\ torn' = FALSE /\ UNCHANGED <<left, out>>
<1>1. CASE ReadFills
  <2>1. left \in Nat \ {0} /\ Position + left <= Size /\ Fill(left) /\ UNCHANGED <<left, out>>
    BY <1>1, Numbers DEF ReadFills, IndInv, Place
  <2>2. IndInv' /\ Position' = Position
    BY <2>1, FillKeeps
  <2>3. torn' = FALSE
    BY <2>1 DEF Fill
  <2> QED
    BY <2>1, <2>2, <2>3
<1>2. CASE Peek
  <2>1. Position + 1 <= Size /\ Fill(1) /\ UNCHANGED <<left, out>>
    BY <1>2, Numbers DEF Peek
  <2>2. IndInv' /\ Position' = Position
    BY <2>1, FillKeeps
  <2>3. torn' = FALSE
    BY <2>1 DEF Fill
  <2> QED
    BY <2>1, <2>2, <2>3
<1> QED
  BY <1>1, <1>2

-----------------------------------------------------------------------------
\* The inductive invariant of the view holds in every reachable state.
THEOREM Invariance == Spec => []IndInv
<1>1. IndInv /\ [Next]_vars => IndInv'
  <2> SUFFICES ASSUME IndInv, [Next]_vars PROVE IndInv'
    OBVIOUS
  <2>1. CASE \E n \in Counts : Read(n)
    BY <2>1, ReadKeeps
  <2>2. CASE \E t \in -1..(Size + 1) : Seek(t)
    <3>1. PICK t \in -1..(Size + 1) : Seek(t)
      BY <2>2
    <3>2. t \in Int
      BY <3>1, ViewAssumption
    <3> QED
      BY <3>1, <3>2, SeekKeeps
  <2>3. CASE ReadFills \/ Peek
    BY <2>3, FillStepsKeep
  <2>4. CASE ReadFillFails
    BY <2>4, ReadFillFailsKeeps
  <2>5. CASE CopyOut
    BY <2>5, CopyOutKeeps
  <2>6. CASE Verify
    BY <2>6, VerifyKeeps
  <2>7. CASE Clear
    BY <2>7, ClearKeeps
  <2>8. CASE UNCHANGED vars
    BY <2>8, StutterKeeps
  <2> QED
    BY <2>1, <2>2, <2>3, <2>4, <2>5, <2>6, <2>7, <2>8 DEF Next, Proceed
<1> QED
  BY <1>1, InitHolds, PTL DEF Spec

\* The view's positions, flags and buffer keep their types.
THEOREM TypeCorrect == Spec => []TypeOK
<1>1. IndInv => TypeOK
  BY DEF IndInv
<1> QED
  BY <1>1, Invariance, PTL

\* Whatever was sought, peeked, verified or failed, the chunk under the get area
\* is the plaintext of its position, and the cipher stands where it is trusted.
THEOREM WindowStaysPlaintext == Spec => []WindowIsPlaintext
<1>1. ASSUME IndInv PROVE WindowIsPlaintext
  <2>1. Position <= Size
    BY <1>1, Numbers
  <2>2. cursor + area.end <= Padded
    BY <1>1, Numbers, PaddedCovers DEF IndInv, Place
  <2> QED
    BY <1>1, <2>1, <2>2 DEF IndInv, Place, Content, WindowIsPlaintext
<1> QED
  BY <1>1, Invariance, PTL

-----------------------------------------------------------------------------
\* Every step of the view is a step of the plaintext source, or none.
LEMMA StepSimulates ==
  ASSUME IndInv, [Next]_vars
  PROVE  [Abstract!Next]_(Abstract!vars)
<1> USE DEF Abstract!vars, Abstract!Next
<1>1. CASE \E n \in Counts : Read(n)
  <2>1. PICK n \in Counts : Read(n)
    BY <1>1
  <2>2. left' \in 0..(Size - Position) /\ Position' = Position
    BY <2>1, ReadKeeps
  <2>3. Abstract!Ask
    BY <2>1, <2>2 DEF Abstract!Ask, Read, Idle
  <2> QED
    BY <2>3
<1>2. CASE \E t \in -1..(Size + 1) : Seek(t)
  <2>1. PICK t \in -1..(Size + 1) : Seek(t)
    BY <1>2
  <2>2. t \in Int
    BY <2>1, ViewAssumption
  <2>3. Position' \in 0..Size /\ (torn' = torn \/ torn' = FALSE)
    BY <2>1, <2>2, SeekKeeps
  <2>4. left = 0 /\ UNCHANGED <<out, left>>
    BY <2>1 DEF Seek, Idle
  <2>5. (~torn)' \in {~torn, TRUE}
    BY <2>3
  <2>6. Abstract!Seek
    BY <2>3, <2>4, <2>5 DEF Abstract!Seek
  <2> QED
    BY <2>6
<1>3. CASE ReadFills \/ Peek
  <2>1. Abstract!Refresh
    BY <1>3, FillStepsKeep DEF Abstract!Refresh
  <2> QED
    BY <2>1
<1>4. CASE ReadFillFails
  <2>1. Position' = Position /\ left' = 0 /\ UNCHANGED out
    BY <1>4, ReadFillFailsKeeps DEF ReadFillFails
  <2>2. torn => torn'
    BY <1>4 DEF ReadFillFails, FillFails
  <2>3. ~torn' => ~torn
    BY <2>2
  <2>4. (~torn)' \in {~torn, FALSE}
    BY <2>2
  <2>5. Abstract!Fail
    BY <2>1, <2>4 DEF Abstract!Fail
  <2> QED
    BY <2>5
<1>5. CASE CopyOut
  <2>1. PICK k \in 1..left :
          /\ out' = [i \in 1..k |-> buffer[area.next + i - 1]]
          /\ \A i \in 1..k : area.next + i - 1 \in 0..(area.end - 1)
          /\ Position' = Position + k /\ left' = left - k /\ area.set
    BY <1>5, CopyOutKeeps
  <2>2. torn' = torn
    BY <1>5 DEF CopyOut
  <2>3. /\ cursor \in Nat /\ area.next \in Nat /\ area.end \in Nat
        /\ Position = cursor + area.next /\ Cells = 0..(Capacity - 1)
        /\ area.end <= Capacity /\ Capacity \in Nat /\ k \in Nat
    BY <2>1, Numbers, CapacityBounds
  <2>4. CASE ~torn
    <3>1. out' = Abstract!Plain(k)
      <4>1. \A c \in 0..(area.end - 1) : buffer[c] = cursor + c
        BY <2>1, <2>4 DEF IndInv, Content
      <4>2. \A i \in 1..k : buffer[area.next + i - 1] = cursor + (area.next + i - 1)
        BY <2>1, <4>1
      <4>3. \A i \in 1..k : cursor + (area.next + i - 1) = Position + i - 1
        BY <2>3
      <4> QED
        BY <2>1, <4>2, <4>3 DEF Abstract!Plain
    <3>2. Abstract!Deliver
      BY <2>1, <2>2, <2>4, <3>1 DEF Abstract!Deliver
    <3> QED
      BY <3>2
  <2>5. CASE torn
    <3> DEFINE Bytes == {Foreign} \cup 0..(Size - 1)
    <3>a. buffer \in [Cells -> Bytes]
      BY DEF IndInv, Content
    <3> HIDE DEF Bytes
    <3>b. \A c \in 0..(area.end - 1) : c \in Cells
      BY <2>3
    <3>c. \A c \in 0..(area.end - 1) : buffer[c] \in Bytes
      BY <3>a, <3>b
    <3>1. \A i \in 1..k : buffer[area.next + i - 1] \in Bytes
      BY <2>1, <3>c
    <3>2. out' \in [1..k -> Bytes]
      BY <2>1, <3>1
    <3>3. Abstract!Deliver
      BY <2>1, <2>2, <2>5, <3>2 DEF Abstract!Deliver, Bytes
    <3> QED
      BY <3>3
  <2> QED
    BY <2>4, <2>5
<1>6. CASE Verify
  <2>1. Position' = 0 /\ torn' = FALSE
    BY <1>6, VerifyKeeps
  <2>2. left = 0 /\ UNCHANGED <<out, left>> /\ 0 \in 0..Size
    BY <1>6, ViewAssumption DEF Verify, Idle
  <2>3. Abstract!Seek
    BY <2>1, <2>2 DEF Abstract!Seek
  <2> QED
    BY <2>3
<1>7. CASE Clear
  <2>1. UNCHANGED <<Position, out, left, torn>>
    BY <1>7, ClearKeeps DEF Clear
  <2> QED
    BY <2>1
<1>8. CASE UNCHANGED vars
  BY <1>8 DEF vars, Position
<1> QED
  BY <1>1, <1>2, <1>3, <1>4, <1>5, <1>6, <1>7, <1>8 DEF Next, Proceed

\* The view is a plaintext source: reads deliver the plaintext of the position
\* in pieces and never past the end; only after a failed fill, until the next
\* fresh one, may a piece be arbitrary.
THEOREM ViewIsASource == Spec => ImplementsSource
<1>1. Init => Abstract!Init
  BY DEF Init, Abstract!Init, Position, NoArea
<1>2. IndInv /\ [Next]_vars => [Abstract!Next]_(Abstract!vars)
  BY StepSimulates
<1> QED
  BY <1>1, <1>2, Invariance, PTL DEF Spec, ImplementsSource, Abstract!Spec

-----------------------------------------------------------------------------
(***************************************************************************)
(* The safety half of ReadEnds: what a running read still has to do is a   *)
(* number, and every step it can take, a fill, a failed fill or a copy,    *)
(* lowers it, so a read of n bytes is over after at most 2 * n + 1 steps.  *)
(* That a step it can take is taken is the fairness of FairSpec.           *)
(***************************************************************************)
ReadMeasure == 2 * left + (IF AreaEmpty THEN 1 ELSE 0)

ReadShrinks == [][left > 0 => ReadMeasure' < ReadMeasure]_vars

\* Arithmetic of the measure: a copy lowers it whatever the get area becomes.
LEMMA HalfMore ==
  ASSUME NEW l \in Nat, NEW m \in Nat, m < l
  PROVE  2 * m + 1 < 2 * l /\ 2 * m < 2 * l
OBVIOUS

\* No step leaves a running read with as much to do as before.
LEMMA StepShrinks ==
  ASSUME IndInv, Next, left > 0
  PROVE  ReadMeasure' < ReadMeasure
<1>1. left \in Nat \ {0} /\ Position + left <= Size
  BY Numbers DEF IndInv, Place
<1>2. CASE ReadFills
  <2>1. AreaEmpty /\ left' = left /\ Fill(left)
    BY <1>2 DEF ReadFills
  <2>2. area' = [set |-> TRUE, next |-> Position - Start, end |-> Taken(left)]
    BY <2>1 DEF Fill
  <2>3. Position - Start < Taken(left) /\ Taken(left) \in Int /\ Position - Start \in Int
    BY <1>1, FillTakes, FillStarts, Numbers, CapacityBounds
  <2>4. area'.set /\ area'.next # area'.end
    BY <2>2, <2>3
  <2>5. ~AreaEmpty'
    BY <2>4 DEF AreaEmpty
  <2> QED
    BY <1>1, <2>1, <2>5 DEF ReadMeasure
<1>3. CASE ReadFillFails
  <2>1. AreaEmpty /\ left' = 0 /\ UNCHANGED area
    BY <1>3 DEF ReadFillFails, FillFails
  <2>2. AreaEmpty'
    BY <2>1 DEF AreaEmpty
  <2> QED
    BY <1>1, <2>1, <2>2 DEF ReadMeasure
<1>4. CASE CopyOut
  <2>1. PICK k \in 1..left : left' = left - k
    BY <1>4, CopyOutKeeps
  <2>2. left' \in Nat /\ left' < left
    BY <1>1, <2>1
  <2>3. 2 * left' + 1 < 2 * left /\ 2 * left' < 2 * left
    BY <1>1, <2>2, HalfMore
  <2> DEFINE now == ReadMeasure
             later == ReadMeasure'
             l == left
             m == left'
  <2>4. later \in {2 * m + 1, 2 * m + 0} /\ now \in {2 * l + 1, 2 * l + 0}
    BY DEF ReadMeasure
  <2>5. 2 * m + 1 < 2 * l /\ m \in Nat /\ l \in Nat
    BY <1>1, <2>2, <2>3
  <2>6. later < now
    <3> HIDE DEF now, later, l, m
    <3> QED
      BY <2>4, <2>5
  <2> QED
    BY <2>6
<1>5. Proceed
  <2>1. ~Idle
    BY <1>1 DEF Idle
  <2> QED
    BY <2>1 DEF Next, Read, Seek, Peek, Verify, Clear
<1> QED
  BY <1>2, <1>3, <1>4, <1>5 DEF Proceed

\* A running read gets shorter with every step it takes and cannot go on for
\* ever: whatever fails under it and whatever the sizes of the block, of the
\* chunk and of what is wanted, the loop of xsgetn never spins in place.
THEOREM ReadsShrink == Spec => [](ReadMeasure \in Nat) /\ ReadShrinks
<1>1. IndInv => ReadMeasure \in Nat
  BY Numbers DEF ReadMeasure
<1>2. IndInv /\ [Next]_vars => [left > 0 => ReadMeasure' < ReadMeasure]_vars
  BY StepShrinks
<1> QED
  BY <1>1, <1>2, Invariance, PTL DEF Spec, ReadShrinks
=============================================================================
