----------------------------- MODULE MCDispatch -----------------------------
EXTENDS Dispatch, TLC
CONSTANTS d1, d2, d3

\* Two dispatches of one Case that run the same tool, and one of another Case.
MCToolOf == d1 :> "fetch" @@ d2 :> "fetch" @@ d3 :> "solve"
MCCaseOf == d1 :> "c1" @@ d2 :> "c1" @@ d3 :> "c2"
MCDoes == d1 :> {"layer", "substep"} @@ d2 :> {"reported", "stopped", "raised", "declined"}
            @@ d3 :> {"layer"}
=============================================================================
