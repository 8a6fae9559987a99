----------------------------- MODULE MCFileStore -----------------------------
(* FileStore for TLC: two callers in one process, one in another. *)
EXTENDS FileStore

CONSTANTS w1, w2, w3, p1, p2

MCProcOf == [w \in Workers |-> IF w = w3 THEN p2 ELSE p1]
=============================================================================
