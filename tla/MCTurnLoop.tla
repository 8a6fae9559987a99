----------------------------- MODULE MCTurnLoop -----------------------------
(* TurnLoop with two tools: the geocoder and a composer. *)
EXTENDS TurnLoop

CONSTANT run

MCRounds == {<<Geo>>, <<run, Geo>>}
MCComposers == {run}
=============================================================================
