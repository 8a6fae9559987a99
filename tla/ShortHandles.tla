---------------------------- MODULE ShortHandles ----------------------------
(***************************************************************************)
(* The short layer handles L1, L2, ... the model is shown instead of       *)
(* storage uris (render/uri_registry.py), and the map of them kept with    *)
(* the Case (server/session/case_state.py, server/dispatch/emitter.py).    *)
(*                                                                         *)
(* There is one registry per session.  Opening a Case replaces it with the *)
(* Case's saved map and layers; a tool call mints numbers for the uris it  *)
(* produces and saves the whole map on the Case of its turn.               *)
(***************************************************************************)
EXTENDS Naturals, Sequences, FiniteSets, FiniteSetsExt, SequencesExt

CONSTANTS
    Cases,
    Turns,       \* turns that may run at once; an ended one starts over
    Layers,      \* uris of layers
    Artifacts,   \* other storage uris a result may carry
    None,
    Cap,         \* _SHORT_HANDLES_CAP
    Overlap,     \* may another Case be opened, or another turn run, during a turn?
    SaveFails,   \* may saving the map fail?
    ReadFails    \* may reading the saved map fail?

Uris == Layers \cup Artifacts

ASSUME HandlesAssumption ==
    /\ Cap \in Nat
    /\ None \notin Cases /\ None \notin Uris /\ Layers \cap Artifacts = {}
    /\ {Overlap, SaveFails, ReadFails} \subseteq BOOLEAN

VARIABLES
    number,    \* uri -> its short handle in the registry, 0 for none
    seq,       \* _short_seq
    dirty,     \* _shorts_dirty
    opening,   \* the Case being opened, or None
    fetched,   \* the layers read for it
    seeded,    \* the Case the registry was seeded for last, or None
    layers,    \* Case -> its persisted layers, in order
    saved,     \* Case -> its saved handle map
    phase,     \* turn -> where its tool call is
    case,      \* turn -> its Case
    result,    \* turn -> uris its call produced
    export,    \* turn -> the map it is saving
    shown,     \* history: Case -> handles its conversation shows the model
    lost       \* history: Cases whose map could not be saved or read at some time

regVars == <<number, seq, dirty>>
turnVars == <<phase, case, result, export>>
histVars == <<shown, lost>>
vars == <<regVars, opening, fetched, seeded, layers, saved, turnVars, histVars>>

Maps == [Uris -> 0 .. Cap]
NoHandles == [u \in Uris |-> 0]

Phases == {"unused", "thinking", "called", "emitted", "kept", "saving", "returned"}

TypeOK ==
    /\ number \in Maps /\ seq \in 0 .. Cap /\ dirty \in BOOLEAN
    /\ opening \in Cases \cup {None} /\ seeded \in Cases \cup {None}
    /\ Range(fetched) \subseteq Layers
    /\ \A k \in Cases : Range(layers[k]) \subseteq Layers /\ IsInjective(layers[k])
    /\ saved \in [Cases -> Maps]
    /\ phase \in [Turns -> Phases]
    /\ case \in [Turns -> Cases \cup {None}]
    /\ result \in [Turns -> SUBSET Uris]
    /\ export \in [Turns -> Maps]
    /\ shown \in [Cases -> SUBSET ((1 .. Cap) \X Uris)]
    /\ lost \in SUBSET Cases

Init ==
    /\ number = NoHandles /\ seq = 0 /\ dirty = FALSE
    /\ opening = None /\ fetched = <<>> /\ seeded = None
    /\ layers = [k \in Cases |-> <<>>]
    /\ saved = [k \in Cases |-> NoHandles]
    /\ phase = [t \in Turns |-> "unused"]
    /\ case = [t \in Turns |-> None]
    /\ result = [t \in Turns |-> {}]
    /\ export = [t \in Turns |-> NoHandles]
    /\ shown = [k \in Cases |-> {}]
    /\ lost = {}

Running(t) == phase[t] # "unused"
Quiet == \A t \in Turns : ~Running(t)
Go(t, p) == phase' = [phase EXCEPT ![t] = p]

-----------------------------------------------------------------------------
(* A registry state is [map, seq, dirty].  _mint_short gives a uri its number
   once, and none when the cap is reached. *)
MintShort(reg, u) ==
    IF reg.map[u] # 0 \/ Cardinality({v \in Uris : reg.map[v] # 0}) >= Cap THEN reg
    ELSE [map |-> [reg.map EXCEPT ![u] = reg.seq + 1], seq |-> reg.seq + 1, dirty |-> TRUE]

\* A number for every uri of a sequence, in order.
MintAll(reg, us) ==
    LET minted[i \in 0 .. Len(us)] == IF i = 0 THEN reg ELSE MintShort(minted[i - 1], us[i])
    IN  minted[Len(us)]

\* Mutant of ImportShortHandles: the counter does not resume past the imported maximum.
ImportsNumbersOnly(map) == [map |-> map, seq |-> 0, dirty |-> FALSE]

\* import_short_handles into a cleared registry: the counter resumes past the maximum.
ImportShortHandles(map) ==
    [map |-> map, seq |-> Max({map[u] : u \in Uris} \cup {0}), dirty |-> FALSE]

\* Mutant of ReplaceFromLayers: the layers are numbered before the saved map is read.
NumbersLayersFirst(map, lyrs) ==
    LET reg == MintAll(ImportShortHandles(NoHandles), lyrs)
    IN  [reg EXCEPT !.map = [u \in Uris |-> IF map[u] # 0 THEN map[u] ELSE @[u]]]

\* replace_from_layers: the saved map first, then a number for every layer without one.
ReplaceFromLayers(map, lyrs) == MintAll(ImportShortHandles(map), lyrs)

Registry == [map |-> number, seq |-> seq, dirty |-> dirty]
SetRegistry(reg) == number' = reg.map /\ seq' = reg.seq /\ dirty' = reg.dirty

-----------------------------------------------------------------------------
(* A select, resume or sync reads the Case's layers, then its handle map, and
   replaces the registry; a failed read of the map counts as none. *)
OpenCase(k) ==
    /\ opening = None
    /\ Overlap \/ Quiet
    /\ opening' = k
    /\ fetched' = layers[k]
    /\ UNCHANGED <<regVars, seeded, layers, saved, turnVars, histVars>>

SeedRegistry ==
    /\ opening # None
    /\ \/ /\ SetRegistry(ReplaceFromLayers(saved[opening], fetched))
          /\ UNCHANGED lost
       \/ /\ ReadFails
          /\ SetRegistry(ReplaceFromLayers(NoHandles, fetched))
          /\ lost' = lost \cup {opening}
    /\ seeded' = opening
    /\ opening' = None /\ fetched' = <<>>
    /\ UNCHANGED <<layers, saved, turnVars, shown>>

(* A created Case, or none: the registry is cleared. *)
ClearRegistry(k) ==
    /\ opening = None
    /\ Overlap \/ Quiet
    /\ k # None => layers[k] = <<>> /\ saved[k] = NoHandles /\ shown[k] = {}
    /\ SetRegistry(ImportShortHandles(NoHandles))
    /\ seeded' = k
    /\ UNCHANGED <<opening, fetched, layers, saved, turnVars, histVars>>

\* The server restarts: the registry and every turn are gone.
Restart ==
    /\ seeded # None
    /\ SetRegistry(ImportShortHandles(NoHandles))
    /\ seeded' = None /\ opening' = None /\ fetched' = <<>>
    /\ phase' = [t \in Turns |-> "unused"]
    /\ case' = [t \in Turns |-> None]
    /\ result' = [t \in Turns |-> {}]
    /\ export' = [t \in Turns |-> NoHandles]
    /\ UNCHANGED <<layers, saved, histVars>>

-----------------------------------------------------------------------------
\* A prompt in the open Case.
StartTurn(t) ==
    /\ phase[t] = "unused" /\ opening = None /\ seeded # None
    /\ Overlap \/ Quiet
    /\ Go(t, "thinking")
    /\ case' = [case EXCEPT ![t] = seeded]
    /\ UNCHANGED <<regVars, opening, fetched, seeded, layers, saved, result, export, histVars>>

CallTool(t) ==
    /\ phase[t] = "thinking"
    /\ Go(t, "called")
    /\ result' = [result EXCEPT ![t] = {}]
    /\ UNCHANGED <<regVars, opening, fetched, seeded, layers, saved, case, export, histVars>>

\* add_loaded_layer observes the layer's uri in the registry.
EmitLayer(t, u) ==
    /\ phase[t] = "called"
    /\ SetRegistry(MintShort(Registry, u))
    /\ result' = [result EXCEPT ![t] = {u}]
    /\ Go(t, "emitted")
    /\ UNCHANGED <<opening, fetched, seeded, layers, saved, case, export, histVars>>

\* Mutant of KeepLayers: the layer is appended without the merge by id.
AppendsAgain(t) ==
    /\ phase[t] \in {"called", "emitted"}
    /\ layers' = [layers EXCEPT ![case[t]] = @ \o SetToSeq(result[t] \cap Layers)]
    /\ Go(t, "kept") \/ Go(t, "thinking")
    /\ UNCHANGED <<regVars, opening, fetched, seeded, saved, case, result, export, histVars>>

(* The call's finally merges its layer into the Case; a call that raised (or was
   cancelled) goes no further. *)
KeepLayers(t) ==
    /\ phase[t] \in {"called", "emitted"}
    /\ layers' = [layers EXCEPT ![case[t]] =
                    @ \o SetToSeq((result[t] \cap Layers) \ Range(@))]
    /\ Go(t, "kept") \/ Go(t, "thinking")
    /\ UNCHANGED <<regVars, opening, fetched, seeded, saved, case, result, export, histVars>>

(* register_tool_result: the result may also carry other uris; then a dirty map is
   exported for saving. *)
RegisterResult(t, more) ==
    /\ phase[t] = "kept"
    /\ LET reg == MintAll(Registry, more) IN
          /\ SetRegistry(reg)
          /\ IF reg.dirty THEN Go(t, "saving") /\ export' = [export EXCEPT ![t] = reg.map]
             ELSE Go(t, "returned") /\ UNCHANGED export
    /\ result' = [result EXCEPT ![t] = @ \cup Range(more)]
    /\ UNCHANGED <<opening, fetched, seeded, layers, saved, case, histVars>>

\* set_case_layer_handles and mark_shorts_persisted; a failure leaves the map dirty.
SaveHandles(t) ==
    /\ phase[t] = "saving"
    /\ \/ /\ saved' = [saved EXCEPT ![case[t]] = export[t]]
          /\ dirty' = FALSE
          /\ UNCHANGED lost
       \/ /\ SaveFails
          /\ lost' = lost \cup {case[t]}
          /\ UNCHANGED <<saved, dirty>>
    /\ Go(t, "returned")
    /\ export' = [export EXCEPT ![t] = NoHandles]
    /\ UNCHANGED <<number, seq, opening, fetched, seeded, layers, case, result, shown>>

\* The handles of uris in us, as the registry has them.
HandlesOf(us) == {<<number[u], u>> : u \in {v \in us : number[v] # 0}}

Show(t, us) == shown' = [shown EXCEPT ![case[t]] = @ \cup HandlesOf(us)]

\* rewrite_result_for_llm: the model reads the result with short handles for uris.
ShowResult(t) ==
    /\ phase[t] = "returned"
    /\ Show(t, result[t])
    /\ Go(t, "thinking")
    /\ UNCHANGED <<regVars, opening, fetched, seeded, layers, saved, case, result, export, lost>>

\* A handle that does not resolve: the error lists the layers the registry holds.
ShowInventory(t) ==
    /\ phase[t] = "thinking"
    /\ Show(t, Layers)
    /\ UNCHANGED <<regVars, opening, fetched, seeded, layers, saved, turnVars, lost>>

EndTurn(t) ==
    /\ phase[t] = "thinking"
    /\ Go(t, "unused")
    /\ case' = [case EXCEPT ![t] = None]
    /\ result' = [result EXCEPT ![t] = {}]
    /\ UNCHANGED <<regVars, opening, fetched, seeded, layers, saved, export, histVars>>

\* What a result carries besides its layer: nothing or an artifact.
Carried == {<<>>} \cup {<<a>> : a \in Artifacts}

TurnStep(t) ==
    \/ StartTurn(t) \/ CallTool(t) \/ KeepLayers(t) \/ SaveHandles(t) \/ ShowResult(t)
    \/ ShowInventory(t) \/ EndTurn(t)
    \/ \E u \in Layers : EmitLayer(t, u)
    \/ \E more \in Carried : RegisterResult(t, more)

Next ==
    \/ \E k \in Cases : OpenCase(k)
    \/ \E k \in Cases \cup {None} : ClearRegistry(k)
    \/ SeedRegistry \/ Restart
    \/ \E t \in Turns : TurnStep(t)

Spec == Init /\ [][Next]_vars

-----------------------------------------------------------------------------
(* A handle the conversation of a Case shows the model names the same uri whenever
   the registry is seeded for that Case: across calls, Case switches, reconnects
   and restarts, and whatever goes wrong with the maps of other Cases; only a
   failed save or read of the Case's own map ends the guarantee. *)
ShownHandlesResolve ==
    seeded \notin lost \cup {None} => \A h \in shown[seeded] : number[h[2]] = h[1]

(* No two uris share a number, in the registry or in a saved map, whatever reads
   and saves fail. *)
HandlesDistinct ==
    \A map \in {number} \cup {saved[k] : k \in Cases} :
        \A u, v \in Uris : map[u] = map[v] /\ map[u] # 0 => u = v
=============================================================================
