-------------------------- MODULE MCCaseTargeting --------------------------
(* CaseTargeting for TLC: connections, Cases and turns are interchangeable. *)
EXTENDS CaseTargeting, TLC

Symmetry == Permutations(Conns) \cup Permutations(Cases) \cup Permutations(Turns)
=============================================================================
