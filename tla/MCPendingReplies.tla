-------------------------- MODULE MCPendingReplies --------------------------
(* PendingReplies for TLC: two sessions ask for one row, and the first of them
   has a draw surface open. *)
EXTENDS PendingReplies

CONSTANTS row1, row2, draw, row, id, s1, s2

MCKeyOf == [w \in Waits |-> IF w = draw THEN id ELSE row]
MCSessionOf == [w \in Waits |-> IF w = row2 THEN s2 ELSE s1]
MCLayers == {row1, row2} \cap Waits
MCDraws == {draw} \cap Waits
=============================================================================
