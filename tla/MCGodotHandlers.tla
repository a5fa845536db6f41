-------------------------- MODULE MCGodotHandlers --------------------------
(* One row of each way a row can be produced. *)
EXTENDS GodotHandlers, TLC

CONSTANTS plain, texture, audio, cipher, sealed, album, forged, map

Copied(stored, n, size, ok) ==
  [stored |-> stored, conversion |-> "none", chunks |-> n, output |-> 0, packed |-> size,
   authentic |-> ok]
Made(stored, kind, n, pieces, size) ==
  [stored |-> stored, conversion |-> kind, chunks |-> n, output |-> pieces, packed |-> size,
   authentic |-> TRUE]

\* Conversions that write more pieces than they have chunks, fewer, and none.
SmallRows ==
  plain :> Copied("plain", 3, 3, TRUE) @@
  texture :> Made("plain", "texture", 2, 1, 2) @@
  audio :> Made("plain", "binary", 1, 3, 1) @@
  cipher :> Copied("encrypted", 3, 4, TRUE) @@
  sealed :> Made("encrypted", "texture", 2, 3, 3) @@
  album :> Made("encrypted", "binary", 2, 0, 3) @@
  forged :> Copied("encrypted", 2, 3, FALSE) @@
  map :> Copied("generated", 1, 1, TRUE)
=============================================================================
