-------------------------- MODULE PlaintextSource --------------------------
(***************************************************************************)
(* What encrypted_payload.h promises its clients: "a bounded seekable      *)
(* plaintext view".  Reads deliver the plaintext at the position, in       *)
(* pieces, and never past its end.  Only after a read failed may the view  *)
(* be distrusted, and then what it delivers is arbitrary.  CipherView      *)
(* implements it.                                                          *)
(***************************************************************************)
EXTENDS Integers, Sequences

CONSTANTS
  Size,    \* bytes of plaintext; the byte at position p is p
  Foreign  \* a byte that is not plaintext

VARIABLES
  pos,     \* next byte to deliver
  got,     \* the piece delivered last
  wanted,  \* bytes it still lacks; 0 when none is under way
  trusted  \* no read failed since the view last started afresh

vars == <<pos, got, wanted, trusted>>

Init == pos = 0 /\ got = <<>> /\ wanted = 0 /\ trusted = TRUE

Ask == wanted = 0 /\ wanted' \in 0..(Size - pos) /\ got' = <<>> /\ UNCHANGED <<pos, trusted>>

Plain(k) == [i \in 1..k |-> pos + i - 1]

Deliver ==
  \E k \in 1..wanted :
    /\ \E piece \in IF trusted THEN {Plain(k)}
                    ELSE [1..k -> {Foreign} \cup 0..(Size - 1)] : got' = piece
    /\ pos' = pos + k
    /\ wanted' = wanted - k
    /\ UNCHANGED trusted

Fail == wanted' = 0 /\ trusted' \in {trusted, FALSE} /\ UNCHANGED <<pos, got>>

Seek == wanted = 0 /\ pos' \in 0..Size /\ trusted' \in {trusted, TRUE} /\ UNCHANGED <<got, wanted>>

Refresh == trusted' = TRUE /\ UNCHANGED <<pos, got, wanted>>

Next == Ask \/ Deliver \/ Fail \/ Seek \/ Refresh

Spec == Init /\ [][Next]_vars
=============================================================================
