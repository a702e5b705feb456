----------------------------- MODULE MCUnixLock -----------------------------
(***************************************************************************)
(* An instance of UnixLock for TLC: two connections in one process and a   *)
(* third in another.                                                       *)
(***************************************************************************)
EXTENDS UnixLock

CONSTANTS c1, c2, c3, here, there

MCProcOf == [c \in Conns |-> IF c = c3 THEN there ELSE here]
=============================================================================
