------------------------------ MODULE Dispatch ------------------------------
(***************************************************************************)
(* A tool dispatch (_invoke_tool_via_emitter, server/dispatch/emitter.py)  *)
(* through the connection's PipelineEmitter (render/pipeline_emitter.py).  *)
(*                                                                         *)
(* The emitter is one object per connection: the steps of the open         *)
(* pipeline, the parent of the running substeps, the last tool step and    *)
(* the loaded layers are shared by every dispatch on it.  A dispatch gives *)
(* way at each send, at the tool body, at the publish of a layer and at    *)
(* its two writes to the Case; it may be cancelled at each of them.  The   *)
(* turns of two Cases interleave; those of one Case take turns.  Whenever  *)
(* a Case is opened on the connection the loaded layers are replaced.      *)
(***************************************************************************)
EXTENDS Naturals

CONSTANTS
    Calls,     \* tool dispatches
    ToolOf,    \* dispatch -> the tool it runs
    CaseOf,    \* dispatch -> the Case of its turn
    Does,      \* dispatch -> what its tool can do: its results, or to run a substep
    MaxOpens,  \* bound: Cases opened on the connection
    NoCall

\* The two steps of a dispatch: its own, and the substep its body runs.
Steps == Calls \X {"tool", "sub"}

Terminal == {"complete", "failed", "cancelled"}
Stages == {"idle", "added", "body", "publish", "emit", "unwind", "card", "persist",
           "merge", "ended", "cut"}
Bodies == {"none", "layer", "value", "reported", "stopped", "raised", "declined"}
ASSUME DispatchAssumption ==
    /\ NoCall \notin Calls
    /\ MaxOpens \in Nat
    /\ Does \in [Calls -> SUBSET ({"substep"} \cup (Bodies \ {"none"}))]

Outcomes == {"none", "complete", "failed", "cancelled"}
Cases == {CaseOf[d] : d \in Calls}

VARIABLES
    steps,     \* step -> its state in the open pipeline, "absent" if it has none
    parent,    \* _current_parent_step_id, NoCall if None
    under,     \* dispatch -> the parent its substep was started under
    last,      \* the dispatch of last_tool_step
    kids,      \* last_tool_children: the dispatches whose substeps it holds
    layers,    \* loaded_layers: the dispatches whose layer it holds
    stage,     \* dispatch -> the await it is at
    prev,      \* dispatch -> the parent to restore, itself while it has bound none
    outcome,   \* dispatch -> _card_state, or that a cancellation is on its way
    cards,     \* dispatch -> the persisted card: its state and children
    batch,     \* dispatch -> the layers it is merging into its Case
    saved,     \* Case -> the layers it holds
    reading,   \* is a Case that is being opened read?
    seed,      \* the layers that were read
    opens,     \* Cases opened so far
    body,      \* history: dispatch -> what its tool body did
    shown,     \* history: dispatch -> the terminal state of its live card
    crowded,   \* history: dispatches that were not alone on the connection
    added,     \* history: dispatches whose layer joined the loaded layers
    lost       \* history: those whose layer was replaced, or its write refused

stepVars == <<steps, parent, under, last, kids>>
callVars == <<prev, outcome, cards, body, shown, crowded>>
openVars == <<reading, seed, opens>>
layerVars == <<layers, batch, saved, openVars, added, lost>>
vars == <<stepVars, stage, callVars, layerVars>>

NoCard == [state |-> "none", kids |-> {}]
NoSteps == [s \in Steps |-> "absent"]
Active(d) == stage[d] \notin {"idle", "ended", "cut"}

TypeOK ==
    /\ steps \in [Steps -> {"absent", "pending", "running"} \cup Terminal]
    /\ parent \in Calls \cup {NoCall}
    /\ under \in [Calls -> Calls \cup {NoCall}]
    /\ last \in Calls \cup {NoCall}
    /\ kids \in SUBSET Calls
    /\ layers \in SUBSET Calls
    /\ stage \in [Calls -> Stages]
    /\ prev \in [Calls -> Calls \cup {NoCall}]
    /\ outcome \in [Calls -> Outcomes]
    /\ cards \in [Calls -> [state : Outcomes, kids : SUBSET Calls]]
    /\ batch \in [Calls -> SUBSET Calls]
    /\ saved \in [Cases -> SUBSET Calls]
    /\ reading \in BOOLEAN /\ seed \in SUBSET Calls /\ opens \in 0..MaxOpens
    /\ body \in [Calls -> Bodies]
    /\ shown \in [Calls -> {"none"} \cup Terminal]
    /\ {crowded, added, lost} \subseteq SUBSET Calls
    /\ \A d \in Calls : stage[d] \in {"unwind", "card", "persist", "merge"} => outcome[d] # "none"

Init ==
    /\ steps = NoSteps
    /\ parent = NoCall
    /\ under = [d \in Calls |-> NoCall]
    /\ last = NoCall
    /\ kids = {}
    /\ layers = {}
    /\ stage = [d \in Calls |-> "idle"]
    /\ prev = [d \in Calls |-> d]
    /\ outcome = [d \in Calls |-> "none"]
    /\ cards = [d \in Calls |-> NoCard]
    /\ batch = [d \in Calls |-> {}]
    /\ saved = [k \in Cases |-> {}]
    /\ reading = FALSE /\ seed = {} /\ opens = 0
    /\ body = [d \in Calls |-> "none"]
    /\ shown = [d \in Calls |-> "none"]
    /\ crowded = {} /\ added = {} /\ lost = {}

-----------------------------------------------------------------------------
Goto(d, s) == stage' = [stage EXCEPT ![d] = s]

Own(d) == <<d, "tool">>
Sub(d) == <<d, "sub">>

\* Does the open pipeline still hold the step?  _require_step raises otherwise.
Known(s) == steps[s] # "absent"

\* _collect_children: the finished substeps of a dispatch that are still there.
Children(d) ==
    {c \in Calls : under[c] = d /\ steps[Sub(c)] \in {"complete", "failed"}}

\* Mutant of Start: the pipeline is opened once the step has been added.
OpensLate(d) ==
    /\ stage[d] = "idle"
    /\ \A c \in Calls : CaseOf[c] = CaseOf[d] => ~Active(c)
    /\ steps' = NoSteps
    /\ Goto(d, "added")
    /\ UNCHANGED <<parent, under, last, kids, callVars, layerVars>>

\* start_pipeline drops whatever the emitter held; add_step appends the step.
Start(d) ==
    /\ stage[d] = "idle"
    /\ \A c \in Calls : CaseOf[c] = CaseOf[d] => ~Active(c)
    /\ steps' = [NoSteps EXCEPT ![Own(d)] = "pending"]
    /\ Goto(d, "added")
    /\ crowded' = LET others == {c \in Calls : Active(c)}
                  IN  IF others = {} THEN crowded ELSE crowded \cup others \cup {d}
    /\ UNCHANGED <<parent, under, last, kids, prev, outcome, cards, body, shown, layerVars>>

\* Mutant of Enter: a step that is gone ends the dispatch without an outcome.
EndsWithoutOutcome(d) ==
    /\ stage[d] = "added"
    /\ prev' = [prev EXCEPT ![d] = parent]
    /\ steps' = IF Known(Own(d)) THEN [steps EXCEPT ![Own(d)] = "running"] ELSE steps
    /\ parent' = IF Known(Own(d)) THEN d ELSE parent
    /\ Goto(d, IF Known(Own(d)) THEN "body" ELSE "unwind")
    /\ UNCHANGED <<under, last, kids, outcome, cards, body, shown, crowded, layerVars>>

(* mark_running, then the bindings of emit_tool_call.  A step another dispatch has
   dropped raises before they are made. *)
Enter(d) ==
    /\ stage[d] = "added"
    /\ IF Known(Own(d))
       THEN /\ prev' = [prev EXCEPT ![d] = parent]
            /\ steps' = [steps EXCEPT ![Own(d)] = "running"]
            /\ parent' = d
            /\ kids' = {}
            /\ Goto(d, "body")
            /\ UNCHANGED outcome
       ELSE /\ outcome' = [outcome EXCEPT ![d] = "failed"]
            /\ Goto(d, "unwind")
            /\ UNCHANGED <<steps, parent, kids, prev>>
    /\ UNCHANGED <<under, last, cards, body, shown, crowded, layerVars>>

\* substep: a child of the emitter's current parent, if that one is still there.
BeginSubstep(d) ==
    /\ stage[d] = "body" /\ under[d] = NoCall /\ "substep" \in Does[d]
    /\ parent # NoCall /\ Known(Own(parent))
    /\ steps' = [steps EXCEPT ![Sub(d)] = "running"]
    /\ under' = [under EXCEPT ![d] = parent]
    /\ UNCHANGED <<parent, last, kids, stage, callVars, layerVars>>

\* The substep ends, well or not; a body whose substep raised may go on.
EndSubstep(d) ==
    /\ stage[d] = "body" /\ steps[Sub(d)] = "running"
    /\ \E s \in {"complete", "failed"} : steps' = [steps EXCEPT ![Sub(d)] = s]
    /\ UNCHANGED <<parent, under, last, kids, stage, callVars, layerVars>>

\* Mutant of Settle: the children are collected once the pipeline is closed.
CollectsLate(d, state) ==
    /\ steps' = [steps EXCEPT ![Own(d)] = state]
    /\ shown' = [shown EXCEPT ![d] = state]
    /\ last' = d
    /\ kids' = {}

(* mark_complete, mark_failed or mark_cancelled, and the snapshot of the step and
   its children. *)
Settle(d, state) ==
    /\ steps' = [steps EXCEPT ![Own(d)] = state]
    /\ shown' = [shown EXCEPT ![d] = state]
    /\ last' = d
    /\ kids' = Children(d)

(* The live card.  _classify_tool_return: a tool may fail ("reported") or be
   cancelled ("stopped") and still return; a body that raised because the user
   declined its own review card is a decision, not a fault. *)
LiveState(r) ==
    CASE r \in {"raised", "reported"} -> "failed"
      [] r \in {"declined", "stopped"} -> "cancelled"
      [] OTHER -> "complete"

\* _card_state: only what the tool raised makes the persisted card a failed one.
CardState(r) == IF r \in {"raised", "declined"} THEN "failed" ELSE "complete"

(* The body returns or raises and its step is settled; if the step is gone, that
   raises instead and what the body returned is dropped. *)
BodyEnds(d, r) ==
    /\ stage[d] = "body" /\ steps[Sub(d)] # "running"
    /\ body' = [body EXCEPT ![d] = r]
    /\ IF Known(Own(d))
       THEN /\ Settle(d, LiveState(r))
            /\ outcome' = [outcome EXCEPT ![d] = CardState(r)]
            /\ Goto(d, IF r = "layer" THEN "publish" ELSE "unwind")
       ELSE /\ outcome' = [outcome EXCEPT ![d] = "failed"]
            /\ Goto(d, "unwind")
            /\ UNCHANGED <<steps, last, kids, shown>>
    /\ UNCHANGED <<parent, under, prev, cards, crowded, layerVars>>

(* _emit_one_layer, add_loaded_layer: the publish returns or fails, either way the
   layer joins the loaded layers before their frame is sent. *)
AddLayer(d) ==
    /\ stage[d] = "publish"
    /\ layers' = layers \cup {d} /\ added' = added \cup {d}
    /\ Goto(d, "emit")
    /\ UNCHANGED <<stepVars, callVars, batch, saved, openVars, lost>>

\* emit_session_state and the zoom are sent.
EmitLayer(d) ==
    /\ stage[d] = "emit"
    /\ Goto(d, "unwind")
    /\ UNCHANGED <<stepVars, callVars, layerVars>>

(* The turn is cancelled at an await of emit_tool_call.  In the body the step is
   marked cancelled; a step that is gone raises there instead. *)
CancelCall(d) ==
    /\ stage[d] \in {"added", "body", "publish", "emit"}
    /\ LET gone == stage[d] = "body" /\ ~Known(Own(d))
       IN  outcome' = [outcome EXCEPT ![d] = IF gone THEN "failed" ELSE "cancelled"]
    /\ IF stage[d] = "body" /\ Known(Own(d))
       THEN Settle(d, "cancelled")
       ELSE UNCHANGED <<steps, last, kids, shown>>
    /\ Goto(d, "unwind")
    /\ UNCHANGED <<parent, under, prev, cards, body, crowded, layerVars>>

(* The finally blocks: the parent is restored and close_pipeline archives and
   drops every step.  A cancelled dispatch has no card to persist. *)
Unwind(d) ==
    /\ stage[d] = "unwind"
    /\ parent' = IF prev[d] = d THEN parent ELSE prev[d]
    /\ prev' = [prev EXCEPT ![d] = d]
    /\ steps' = NoSteps
    /\ Goto(d, IF outcome[d] = "cancelled" THEN "persist" ELSE "card")
    /\ UNCHANGED <<under, last, kids, outcome, cards, body, shown, crowded, layerVars>>

\* _persist_tool_card: the snapshot's children, if it is of a dispatch of the tool.
PersistCard(d) ==
    /\ stage[d] = "card"
    /\ cards' = [cards EXCEPT ![d] =
          [state |-> outcome[d],
           kids |-> IF last # NoCall /\ ToolOf[last] = ToolOf[d] THEN kids ELSE {}]]
    /\ Goto(d, "persist")
    /\ UNCHANGED <<stepVars, prev, outcome, body, shown, crowded, layerVars>>

(* The turn is cancelled while the card is written.  That await is not shielded,
   so the finally ends there and the layers are not written. *)
CancelCard(d) ==
    /\ stage[d] = "card"
    /\ outcome' = [outcome EXCEPT ![d] = "cancelled"]
    /\ Goto(d, "cut")
    /\ UNCHANGED <<stepVars, prev, cards, body, shown, crowded, layerVars>>

\* Mutant of PersistLayers: a dispatch that is being cancelled saves nothing.
SavesOnSuccess(d) ==
    /\ stage[d] = "persist"
    /\ batch' = [batch EXCEPT ![d] = IF outcome[d] = "cancelled" THEN {} ELSE layers]
    /\ Goto(d, "merge")
    /\ UNCHANGED <<stepVars, callVars, layers, saved, openVars, added, lost>>

(* _persist_case_loaded_layers takes what the loaded layers are now, whichever Case
   they came from, for the Case the dispatch captured. *)
PersistLayers(d) ==
    /\ stage[d] = "persist"
    /\ batch' = [batch EXCEPT ![d] = layers]
    /\ Goto(d, "merge")
    /\ UNCHANGED <<stepVars, callVars, layers, saved, openVars, added, lost>>

(* The merge lands, or fails and is logged.  _run_to_completion_shielded lets it end
   before a cancellation that came meanwhile takes effect. *)
MergeLayers(d) ==
    /\ stage[d] = "merge"
    /\ \/ saved' = [saved EXCEPT ![CaseOf[d]] = @ \cup batch[d]] /\ UNCHANGED lost
       \/ lost' = lost \cup ({d} \cap batch[d]) /\ UNCHANGED saved
    /\ batch' = [batch EXCEPT ![d] = {}]
    /\ \E late \in {outcome[d], "cancelled"} : outcome' = [outcome EXCEPT ![d] = late]
    /\ Goto(d, "ended")
    /\ UNCHANGED <<stepVars, prev, cards, body, shown, crowded, layers, openVars, added>>

-----------------------------------------------------------------------------
\* A select, a stale prompt or a resumed session starts to read a Case of the connection.
ReadCase(k) ==
    /\ ~reading /\ opens < MaxOpens
    /\ reading' = TRUE /\ seed' = saved[k] /\ opens' = opens + 1
    /\ UNCHANGED <<stepVars, stage, callVars, layers, batch, saved, added, lost>>

\* Its layer has joined the loaded layers and is not taken to the Case yet.
Waiting(d) == d \in added /\ stage[d] \in {"emit", "unwind", "card", "persist"}

\* reset_loaded_layers, with a dispatch at any of its awaits.
Replace(held) ==
    /\ layers' = held
    /\ lost' = lost \cup {d \in layers \ held : Waiting(d)}
    /\ reading' = FALSE /\ seed' = {}
    /\ UNCHANGED <<stepVars, stage, callVars, batch, saved, added>>

\* The Case is read: its layers replace the loaded ones; a failed read flushes or keeps them.
OpenCase ==
    /\ reading
    /\ \E held \in {seed, {}, layers} : Replace(held)
    /\ UNCHANGED opens

\* A Case is created, or the connection has none: the loaded layers are flushed.
FlushLayers ==
    /\ ~reading /\ opens < MaxOpens
    /\ opens' = opens + 1
    /\ Replace({})

Continue(d) ==
    \/ Enter(d) \/ EndSubstep(d)
    \/ \E r \in Does[d] \ {"substep"} : BodyEnds(d, r)
    \/ AddLayer(d) \/ EmitLayer(d) \/ Unwind(d) \/ PersistCard(d) \/ PersistLayers(d) \/ MergeLayers(d)

AllEnded == (\A d \in Calls : stage[d] \in {"ended", "cut"}) /\ UNCHANGED vars

Next ==
    \/ \E d \in Calls :
          Start(d) \/ BeginSubstep(d) \/ CancelCall(d) \/ CancelCard(d) \/ Continue(d)
    \/ (\E k \in Cases : ReadCase(k)) \/ OpenCase \/ FlushLayers
    \/ AllEnded

Spec == Init /\ [][Next]_vars

-----------------------------------------------------------------------------
(* What the body of a dispatch that was alone on its connection did is what the
   turn gets and what the Case replays.  Only a body that raised fails the call, and
   the persisted card shows what the live one showed, but for three kinds of result
   the two tell apart from different facts: a tool that returned its failure or its
   cancellation is complete in the Case, and one that raised a decline is failed. *)
OutcomeIsTheBodys ==
    \A d \in Calls \ crowded :
        /\ outcome[d] = "failed" => body[d] \in {"raised", "declined"}
        /\ cards[d] # NoCard =>
              (cards[d].state = shown[d] <=> body[d] \notin {"reported", "stopped", "declined"})

(* The persisted card of a dispatch that was alone on its connection holds its
   substep, if the body ran one, and no other: last_tool_children is a field of
   the emitter that an earlier dispatch of the tool has also written. *)
CardHasItsChildren ==
    \A d \in Calls \ crowded :
        cards[d] # NoCard => cards[d].kids = {c \in {d} : under[d] # NoCall}

(* A layer that joined the loaded layers is in its dispatch's own Case when the dispatch
   has ended, also one cancelled while its frames were sent, unless a Case was opened on
   the connection in between and replaced the loaded layers, or the store refused the
   write; a cancellation during the card's own write (CancelCard) skips it. *)
AddedLayerIsSaved ==
    \A d \in added : stage[d] = "ended" => d \in saved[CaseOf[d]] \cup lost
=============================================================================
