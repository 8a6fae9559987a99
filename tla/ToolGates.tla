----------------------------- MODULE ToolGates ------------------------------
(***************************************************************************)
(* The gates a tool call passes before its body runs                       *)
(* (_invoke_tool_via_emitter and inputs/gate/confirm.py), in their order:  *)
(* the payload-size warning, the approval of code, the normalisation of    *)
(* the argument names, the reuse of a layer the Case has, and the          *)
(* confirmation of a fetch's resolution, whose decisions are remembered.   *)
(* The memory is a field of the connection; the turns of two Cases run on  *)
(* it at the same time, and a `!run` turn finds what the last chat turn    *)
(* left in it.                                                             *)
(***************************************************************************)
EXTENDS Integers

CONSTANTS
    Turns,       \* turns of the connection
    Areas,       \* areas to fetch (the keys of the memory)
    Codes,       \* code to run; Empty is code that is blank
    Empty,
    Rungs,       \* resolutions in tenths of a metre, finer is smaller
    Finest,      \* the finest rung a card allows
    Suggested,   \* the rung a card suggests
    MaxCalls,    \* tool calls in a turn
    Nothing

\* int(): a resolution in whole metres.
Whole(rung) == rung - (rung % 10)

ASSUME GatesAssumption ==
    /\ Empty \in Codes /\ Areas \cap Codes = {}
    /\ Rungs \subseteq Nat /\ {Finest, Suggested} \subseteq Rungs /\ Finest <= Suggested
    /\ \A rung \in Rungs : Whole(rung) \in Rungs
    /\ MaxCalls \in Nat /\ Nothing \notin Rungs \cup Codes

(* The arguments of a fetch, and those of run_pyqgis: arg and confirmed under the
   names the tool declares (Empty is code that is blank or missing), alias and
   claimed under names that the normalisation turns into these. *)
Params ==
    [arg : Areas, res : Rungs, confirmed : {FALSE}, alias : {Nothing}, claimed : {FALSE}]
      \cup [arg : Codes, res : {Suggested}, confirmed : BOOLEAN,
            alias : (Codes \ {Empty}) \cup {Nothing}, claimed : BOOLEAN]

NoParams == [arg |-> Empty, res |-> Suggested, confirmed |-> FALSE, alias |-> Nothing, claimed |-> FALSE]

\* Every name of the call is the declared one.
PlainlyNamed(p) == p.alias = Nothing /\ ~p.claimed

Cards == {"payloadCard", "codeCard", "confirmCard"}
Stages == {"off", "thinking", "payload", "code", "confirm", "run", "done"} \cup Cards

VARIABLES
    at,          \* turn -> where it is
    calls,       \* turn -> how many calls it has made
    params,      \* turn -> the arguments of its call
    over,        \* turn -> is the estimate over the hard cap?
    manual,      \* the turns started by `!run`
    memory,      \* gate_decisions_this_turn: area -> what an approval changed
    granted,     \* history: turn -> the code the user approved in this call
    approved,    \* history: turn -> area -> the rung the user approved in the turn
    how,         \* history: turn -> what let the call through the confirmation
    crowded      \* history: turns that were not alone on the connection

vars == <<at, calls, params, over, manual, memory, granted, approved, how, crowded>>

\* What a remembered approval holds: the rung, if the gate had to change it.
Deltas == Rungs \cup {Nothing}
NoMemory == [a \in Areas |-> [known |-> FALSE, delta |-> Nothing]]
Active(t) == at[t] \notin {"off", "done"}

TypeOK ==
    /\ at \in [Turns -> Stages]
    /\ calls \in [Turns -> 0..MaxCalls]
    /\ params \in [Turns -> Params]
    /\ over \in [Turns -> BOOLEAN]
    /\ memory \in [Areas -> [known : BOOLEAN, delta : Deltas]]
    /\ granted \in [Turns -> SUBSET Codes]
    /\ approved \in [Turns -> [Areas -> Deltas]]
    /\ how \in [Turns -> {"none", "open", "reuse", "card", "memory"}]
    /\ crowded \subseteq Turns /\ manual \subseteq Turns
    /\ \A t \in Turns : at[t] \in {"confirm", "confirmCard"} => params[t].arg \in Areas
    /\ \A t \in Turns : at[t] \in {"code", "codeCard"} => params[t].arg \in Codes

Init ==
    /\ at = [t \in Turns |-> "off"]
    /\ calls = [t \in Turns |-> 0]
    /\ params = [t \in Turns |-> NoParams]
    /\ over = [t \in Turns |-> FALSE]
    /\ memory = NoMemory
    /\ granted = [t \in Turns |-> {}]
    /\ approved = [t \in Turns |-> [a \in Areas |-> Nothing]]
    /\ how = [t \in Turns |-> "none"]
    /\ crowded = {} /\ manual = {}

-----------------------------------------------------------------------------
Goto(t, s) == at' = [at EXCEPT ![t] = s]
SetParams(t, p) == params' = [params EXCEPT ![t] = p]
Let(t, way) == how' = [how EXCEPT ![t] = way] /\ Goto(t, "run")

\* The call is over, run or refused, and its locals with it.
Leave(t, s) ==
    /\ Goto(t, s)
    /\ SetParams(t, NoParams)
    /\ over' = [over EXCEPT ![t] = FALSE]
    /\ granted' = [granted EXCEPT ![t] = {}]
    /\ how' = [how EXCEPT ![t] = "none"]

Crowd(t) ==
    crowded' = LET others == {u \in Turns : Active(u)}
               IN  IF others = {} THEN crowded ELSE crowded \cup others \cup {t}

\* Mutant of StartTurn: the memory of the turn before is kept.
KeepsMemory(t) ==
    /\ at[t] = "off"
    /\ Crowd(t)
    /\ Goto(t, "thinking")
    /\ UNCHANGED <<calls, params, over, manual, memory, granted, approved, how>>

\* A chat turn starts: the decisions remembered on the connection are dropped.
StartTurn(t) ==
    /\ at[t] = "off"
    /\ memory' = NoMemory
    /\ Crowd(t)
    /\ Goto(t, "thinking")
    /\ UNCHANGED <<calls, params, over, manual, granted, approved, how>>

\* A `!run` turn starts (_handle_dev_tool_invoke): nothing empties the memory.
StartManual(t) ==
    /\ at[t] = "off"
    /\ manual' = manual \cup {t}
    /\ Crowd(t)
    /\ Goto(t, "thinking")
    /\ UNCHANGED <<calls, params, over, memory, granted, approved, how>>

(* The model calls a tool, with any arguments; it may claim that the user has
   confirmed them.  A `!run` turn is one call. *)
Propose(t, p) ==
    /\ at[t] = "thinking" /\ calls[t] < MaxCalls /\ (t \in manual => calls[t] = 0)
    /\ calls' = [calls EXCEPT ![t] = @ + 1]
    /\ SetParams(t, p)
    /\ Goto(t, "payload")
    /\ UNCHANGED <<over, manual, memory, granted, approved, how, crowded>>

\* run_pyqgis has the code gate, a fetch the confirmation.
AfterPayload(p) == IF p.arg \in Codes THEN "code" ELSE "confirm"

(* _maybe_gate_on_payload_warning: no estimator, one that raised and a small
   estimate let the call through, else a card goes out. *)
EstimatePayload(t) ==
    /\ at[t] = "payload"
    /\ \E estimate \in {"none", "warn", "cap"} :
          /\ over' = [over EXCEPT ![t] = estimate = "cap"]
          /\ Goto(t, IF estimate = "none" THEN AfterPayload(params[t]) ELSE "payloadCard")
    /\ UNCHANGED <<calls, params, manual, memory, granted, approved, how, crowded>>

\* Over the hard cap, proceed is refused although a client should not offer it.
PayloadAccepts(t, decision) ==
    decision = "narrow_scope" \/ (decision = "proceed" /\ ~over[t])

(* The decision on the payload card.  narrow_scope replaces the arguments by the
   revised ones, which no gate estimates again. *)
AnswerPayload(t, decision, revised) ==
    /\ at[t] = "payloadCard"
    /\ revised.arg \in Codes <=> params[t].arg \in Codes
    /\ IF PayloadAccepts(t, decision)
       THEN LET p == IF decision = "narrow_scope" THEN revised ELSE params[t]
            IN  /\ SetParams(t, p)
                /\ over' = [over EXCEPT ![t] = @ /\ decision # "narrow_scope"]
                /\ Goto(t, AfterPayload(p))
                /\ UNCHANGED <<granted, how>>
       ELSE Leave(t, "thinking")
    /\ UNCHANGED <<calls, manual, memory, approved, crowded>>

(* normalize_args, right after the code gate: a name the tool does not declare is
   turned into the declared one, which wins only if it comes first.  (alias and
   claimed then only tell what the call had.) *)
NormalArgs(p) == {p.arg} \cup ({p.alias} \ {Nothing})
NormalFlags(p) == {p.confirmed, p.confirmed \/ p.claimed}

\* The call goes to its tool.
ToTool(t, p) ==
    /\ \E a \in NormalArgs(p), c \in NormalFlags(p) : SetParams(t, [p EXCEPT !.arg = a, !.confirmed = c])
    /\ Goto(t, "run")

\* Mutant of GateCode: a claim of the model is taken for the user's approval.
BelievesModel(t) ==
    /\ at[t] = "code"
    /\ IF params[t].arg = Empty \/ params[t].confirmed THEN ToTool(t, params[t])
       ELSE Goto(t, "codeCard") /\ UNCHANGED params
    /\ UNCHANGED <<calls, over, manual, memory, granted, approved, how, crowded>>

\* The claim of the model is stripped; blank code goes to the tool, which refuses it.
GateCode(t) ==
    /\ at[t] = "code"
    /\ LET stripped == [params[t] EXCEPT !.confirmed = FALSE]
       IN  IF params[t].arg = Empty THEN ToTool(t, stripped)
           ELSE SetParams(t, stripped) /\ Goto(t, "codeCard")
    /\ UNCHANGED <<calls, over, manual, memory, granted, approved, how, crowded>>

\* The decision on the code card: only proceed runs the code.
AnswerCode(t, decision) ==
    /\ at[t] = "codeCard"
    /\ IF decision = "proceed"
       THEN /\ granted' = [granted EXCEPT ![t] = {params[t].arg}]
            /\ ToTool(t, [params[t] EXCEPT !.confirmed = TRUE])
            /\ UNCHANGED <<over, how>>
       ELSE Leave(t, "thinking")
    /\ UNCHANGED <<calls, manual, memory, approved, crowded>>

\* The Case already holds the layer: the call hands it back, and is not confirmed.
ReuseLayer(t) ==
    /\ at[t] = "confirm"
    /\ Let(t, "reuse")
    /\ UNCHANGED <<calls, params, over, manual, memory, granted, approved, crowded>>

\* A decision of the turn is remembered: what it changed is applied, with no card.
ReplayDecision(t) ==
    /\ at[t] = "confirm" /\ memory[params[t].arg].known
    /\ LET delta == memory[params[t].arg].delta
       IN  SetParams(t, IF delta = Nothing THEN params[t] ELSE [params[t] EXCEPT !.res = delta])
    /\ Let(t, "memory")
    /\ UNCHANGED <<calls, over, manual, memory, granted, approved, crowded>>

\* _gate_on_confirm: no estimate, or none needed, lets the call through.
EstimateFetch(t) ==
    /\ at[t] = "confirm" /\ ~memory[params[t].arg].known
    /\ \/ Let(t, "open")
       \/ Goto(t, "confirmCard") /\ UNCHANGED how
    /\ UNCHANGED <<calls, params, over, manual, memory, granted, approved, crowded>>

\* pin_fetch_resolution: the suggested rung, or the chosen one floored up, in whole metres.
Pin(decision, rung) ==
    Whole(CASE decision = "proceed" -> Suggested
            [] decision = "narrow_scope" -> IF rung < Finest THEN Finest ELSE rung)

\* Mutant of Remember: nothing is remembered when the arguments were right.
RemembersChanges(t, rung) ==
    IF params[t].res = rung THEN memory
    ELSE [memory EXCEPT ![params[t].arg] = [known |-> TRUE, delta |-> rung]]

(* _gate_with_turn_memory: the overrides are what the approval changed of the
   arguments, nothing if the call already asked for the rung. *)
Remember(t, rung) ==
    [memory EXCEPT ![params[t].arg] =
        [known |-> TRUE, delta |-> IF params[t].res = rung THEN Nothing ELSE rung]]

\* The decision on the resolution card.
AnswerConfirm(t, decision, rung) ==
    /\ at[t] = "confirmCard"
    /\ IF decision = "cancel"
       THEN Leave(t, "thinking") /\ UNCHANGED <<memory, approved>>
       ELSE LET pinned == Pin(decision, rung)
            IN  /\ SetParams(t, [params[t] EXCEPT !.res = pinned])
                /\ memory' = Remember(t, pinned)
                /\ approved' = [approved EXCEPT ![t][params[t].arg] = pinned]
                /\ Let(t, "card")
                /\ UNCHANGED <<over, granted>>
    /\ UNCHANGED <<calls, manual, crowded>>

\* Nobody answers a card: the typed timeout refuses the call and the turn goes on.
Expire(t) ==
    /\ at[t] \in Cards
    /\ Leave(t, "thinking")
    /\ UNCHANGED <<calls, manual, memory, approved, crowded>>

\* The body runs and the model reads its result, good or bad; it may call again.
Run(t) ==
    /\ at[t] = "run"
    /\ Leave(t, "thinking")
    /\ UNCHANGED <<calls, manual, memory, approved, crowded>>

\* The turn ends by itself, or is stopped at a card or in a body.
EndTurn(t) ==
    /\ at[t] \in Cards \cup {"thinking", "run"}
    /\ Leave(t, "done")
    /\ UNCHANGED <<calls, manual, memory, approved, crowded>>

Gate(t) ==
    \/ EstimatePayload(t) \/ GateCode(t)
    \/ ReuseLayer(t) \/ ReplayDecision(t) \/ EstimateFetch(t)

Answer(t) ==
    \E decision \in {"proceed", "cancel", "narrow_scope"} :
        \/ \E revised \in Params : AnswerPayload(t, decision, revised)
        \/ AnswerCode(t, decision)
        \/ \E rung \in Rungs : AnswerConfirm(t, decision, rung)

AllDone == (\A t \in Turns : at[t] = "done") /\ UNCHANGED vars

Next ==
    \/ \E t \in Turns :
          \/ StartTurn(t) \/ StartManual(t) \/ EndTurn(t) \/ Gate(t) \/ Answer(t) \/ Expire(t) \/ Run(t)
          \/ \E p \in Params : Propose(t, p)
    \/ AllDone

Spec == Init /\ [][Next]_vars

-----------------------------------------------------------------------------
(* A call that names its arguments as the tool declares them runs as confirmed only
   if the user approved exactly that code in this call, whatever the model claimed and
   whatever the payload card revised; without that only blank code reaches the tool.
   (Arguments under other names are turned into these after the gate.) *)
CodeRunsAsApproved ==
    \A t \in Turns : at[t] = "run" /\ params[t].arg \in Codes /\ PlainlyNamed(params[t]) =>
        IF params[t].confirmed THEN params[t].arg \in granted[t] ELSE params[t].arg = Empty

(* A card is skipped only for an area whose card the user approved, and in a turn that
   was alone on the connection what that card changed is changed again.  In a chat
   turn that was alone the approval is the turn's own; a `!run` turn may go by one
   that an earlier turn left. *)
ReplaysOwnApproval ==
    \A t \in Turns : at[t] = "run" /\ how[t] = "memory" =>
        LET area == params[t].arg
            approvers == IF t \in crowded \cup manual THEN Turns ELSE {t}
        IN  \E u \in approvers :
              /\ approved[u][area] # Nothing
              /\ t \notin crowded /\ memory[area].delta # Nothing => params[t].res = approved[u][area]

(* In a turn that was alone on the connection the user is not asked again about an
   area that was approved: the retry of a fetch cannot park the turn a second time. *)
AskedOncePerTurn ==
    \A t \in Turns \ crowded :
        at[t] = "confirmCard" => approved[t][params[t].arg] = Nothing
=============================================================================
