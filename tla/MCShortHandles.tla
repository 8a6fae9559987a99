--------------------------- MODULE MCShortHandles ---------------------------
(* ShortHandles for TLC: Cases, layers and turns are interchangeable. *)
EXTENDS ShortHandles

Symmetry == Permutations(Cases) \cup Permutations(Layers) \cup Permutations(Turns)
=============================================================================
