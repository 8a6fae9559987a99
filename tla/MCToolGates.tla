---------------------------- MODULE MCToolGates -----------------------------
(* ToolGates with turns and areas that are told apart by nothing but their name. *)
EXTENDS ToolGates, TLC

Interchangeable == Permutations(Turns) \cup Permutations(Areas)
=============================================================================
