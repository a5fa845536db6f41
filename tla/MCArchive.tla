----------------------------- MODULE MCArchive -----------------------------
(* Small sources for the model checker. *)
EXTENDS Archive, TLC

CONSTANTS a1, s1, s2, p1, p2

Row(i, h, n, x) ==
  [id |-> i, header |-> h, custom |-> FALSE, chunks |-> n, extent |-> x, fits |-> TRUE]
Handled(i, n) == [Row(i, FALSE, n, "inside") EXCEPT !.custom = TRUE]

\* An unvalidated index: a healthy row with a header, a row past the end, a
\* row at a negative offset; and a source with one empty row and one that
\* brings a handler.
RawListing ==
  s1 :> [d \in BOOLEAN |-> <<Row(1, TRUE, 2, "inside"), Row(2, FALSE, 2, "past_end"),
                             Row(3, TRUE, 1, "negative")>>] @@
  s2 :> [d \in BOOLEAN |-> <<Row(4, FALSE, 0, "inside"), Handled(5, 2)>>]
=============================================================================
