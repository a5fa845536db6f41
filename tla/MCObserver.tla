----------------------------- MODULE MCObserver -----------------------------
(* Small sources for the model checker. *)
EXTENDS Observer, TLC

CONSTANTS a1, a2, s1, s2, p1, p2

Row(i, h, n, x, f) ==
  [id |-> i, header |-> h, custom |-> FALSE, chunks |-> n, extent |-> x, fits |-> f]
Handled(i, f) == [Row(i, FALSE, 1, "inside", f) EXCEPT !.custom = TRUE]

\* A healthy row with a header and two chunks, and a row past the end of the source.
RawListing ==
  s1 :> [d \in BOOLEAN |-> <<Row(1, TRUE, 2, "inside", TRUE), Row(2, FALSE, 1, "past_end", FALSE)>>]

\* The decode option adds a converted row.
GodotListing ==
  s1 :> [d \in BOOLEAN |-> <<Handled(1, TRUE)>> \o
                           (IF d THEN <<Handled(2, FALSE)>> ELSE <<>>)]

\* The handles are interchangeable.
HandleSymmetry == Permutations(Archives)

\* Where no row brings a handler nothing is removed, and the paths are too.
RawSymmetry == HandleSymmetry \cup Permutations(Paths)
=============================================================================
