----------------------------- MODULE MCAgyProcess -----------------------------
(* Instance of AgyProcess for TLC: limits small enough to be broken by the third
   byte, chunks that land on a limit and jump over it. *)
EXTENDS AgyProcess

MCChunks == {1, 2}
===============================================================================
