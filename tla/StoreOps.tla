------------------------------ MODULE StoreOps ------------------------------
(***************************************************************************)
(* The document operations of store/cases.py: what FileMCPClient._operation *)
(* does to one collection, a map from document id to document.  A document *)
(* is abstracted to the set of values it carries.                          *)
(***************************************************************************)

CONSTANTS
    Keys,    \* document ids
    Items,   \* values a document can carry
    Absent   \* no document under the id

ASSUME AbsentAssumption == \A doc \in SUBSET Items : doc # Absent

Stores == [Keys -> (SUBSET Items) \cup {Absent}]

EmptyStore == [k \in Keys |-> Absent]

OpNames == {"insert-one", "update-one", "upsert-one", "delete-one", "find-one"}

Ops == [name : OpNames, key : Keys, item : Items]

\* Whether the operation changes the store it is applied to (dirty).
Dirty(op, s) ==
    CASE op.name \in {"insert-one", "upsert-one"} -> TRUE
      [] op.name \in {"update-one", "delete-one"} -> s[op.key] # Absent
      [] op.name = "find-one" -> FALSE

(* The document afterwards: an insert replaces it, an update adds to it, an
   upsert of a missing one creates it. *)
DocAfter(op, doc) ==
    CASE op.name = "insert-one" -> {op.item}
      [] op.name \in {"update-one", "upsert-one"} ->
            IF doc = Absent THEN {op.item} ELSE doc \cup {op.item}
      [] op.name = "delete-one" -> Absent

ApplyOp(op, s) ==
    IF Dirty(op, s) THEN [s EXCEPT ![op.key] = DocAfter(op, @)] ELSE s
=============================================================================
