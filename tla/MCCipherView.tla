---------------------------- MODULE MCCipherView ----------------------------
(* Blocks of two bytes and chunks of two blocks, an odd plaintext that spans *)
(* two chunks. *)
EXTENDS CipherView

NotPlain == -1
=============================================================================
