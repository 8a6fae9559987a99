------------------------------- MODULE AskUser -------------------------------
(***************************************************************************)
(* What a block-and-wait seam promises the turn that uses it: a question   *)
(* ends with an answer the user gave to that very question, or with a      *)
(* timeout or a cancellation, and it does end.                             *)
(***************************************************************************)
CONSTANTS Waits, Answers

VARIABLES
    said,     \* wait -> the answers the user has given to its card
    status,   \* wait -> how far the question is
    value     \* wait -> the answer it ended with, {} if none

vars == <<said, status, value>>

Init ==
    /\ said = [w \in Waits |-> {}]
    /\ status = [w \in Waits |-> "none"]
    /\ value = [w \in Waits |-> {}]

Ask(w) ==
    /\ status[w] = "none"
    /\ status' = [status EXCEPT ![w] = "asked"]
    /\ UNCHANGED <<said, value>>

\* The user answers a card, in time or not.
Say(w, a) ==
    /\ status[w] # "none"
    /\ said' = [said EXCEPT ![w] = @ \cup {a}]
    /\ UNCHANGED <<status, value>>

Learn(w) ==
    /\ status[w] = "asked"
    /\ \E a \in said[w] : value' = [value EXCEPT ![w] = {a}]
    /\ status' = [status EXCEPT ![w] = "answered"]
    /\ UNCHANGED said

GiveUp(w) ==
    /\ status[w] = "asked"
    /\ \E s \in {"timedout", "cancelled"} : status' = [status EXCEPT ![w] = s]
    /\ UNCHANGED <<said, value>>

Next == \E w \in Waits : Ask(w) \/ Learn(w) \/ GiveUp(w) \/ \E a \in Answers : Say(w, a)

Spec == Init /\ [][Next]_vars /\ \A w \in Waits : WF_vars(Learn(w) \/ GiveUp(w))
=============================================================================
