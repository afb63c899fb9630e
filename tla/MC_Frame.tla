------------------------------ MODULE MC_Frame ------------------------------
(***************************************************************************)
(* Frames of two callee-saved registers, a few locals and spill slots and  *)
(* up to 24 bytes of outgoing parameters.  The sizes put frames on both    *)
(* sides of the limit of an immediate and on it, and leave every remainder *)
(* modulo 16 that locals of four bytes can leave.                          *)
(***************************************************************************)
EXTENDS Frame

CONSTANTS s1, fs0

MCSavable == {s1, fs0}
MCSizes == {4, 12, 40, 1976, 2000, 2032, 4096}
MCPassed == {8, 24}
=============================================================================
