------------------------------- MODULE MCBuff -------------------------------
(***************************************************************************)
(* Buff on buffers of two bytes that grow to four.                         *)
(***************************************************************************)
EXTENDS Buff, TLC, FiniteSets

ByteSymmetry == Permutations(Byte)
=============================================================================
