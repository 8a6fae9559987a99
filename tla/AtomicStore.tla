----------------------------- MODULE AtomicStore -----------------------------
(***************************************************************************)
(* What the document store promises its callers (MCPClientProtocol, store/ *)
(* cases.py): every call takes effect at once, on the store as it then is, *)
(* or not at all; a call that is cancelled or dies with its process may    *)
(* still have taken effect.                                                *)
(***************************************************************************)
EXTENDS StoreOps

CONSTANTS Workers, NoOp

VARIABLES
    store,     \* the collection
    pending    \* worker -> the call it has made that has not taken effect

Init ==
    /\ store = EmptyStore
    /\ pending = [w \in Workers |-> NoOp]

Request(w, op) ==
    /\ pending[w] = NoOp
    /\ pending' = [pending EXCEPT ![w] = op]
    /\ UNCHANGED store

\* The call takes effect.
Commit(w) ==
    /\ pending[w] # NoOp
    /\ store' = ApplyOp(pending[w], store)
    /\ pending' = [pending EXCEPT ![w] = NoOp]

\* Calls are given up without effect.
Abort(lost) ==
    /\ pending' = [w \in Workers |-> IF w \in lost THEN NoOp ELSE pending[w]]
    /\ UNCHANGED store

Next ==
    \/ \E w \in Workers : Commit(w) \/ \E op \in Ops : Request(w, op)
    \/ \E lost \in SUBSET Workers : Abort(lost)

Spec == Init /\ [][Next]_<<store, pending>>
=============================================================================
