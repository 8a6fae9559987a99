--------------------------- MODULE MCTurnStreams ---------------------------
(* TurnStreams for TLC: sockets, Cases and turns are interchangeable. *)
EXTENDS TurnStreams, TLC

Symmetry == Permutations(Conns) \cup Permutations(Cases) \cup Permutations(Turns)
=============================================================================
