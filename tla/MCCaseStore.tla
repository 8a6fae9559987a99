---------------------------- MODULE MCCaseStore ----------------------------
(* CaseStore for TLC: writers and layers are interchangeable. *)
EXTENDS CaseStore, TLC

Interchangeable == Permutations(Writers) \cup Permutations(Layers)
=============================================================================
