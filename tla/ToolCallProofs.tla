--------------------------- MODULE ToolCallProofs ---------------------------
(***************************************************************************)
(* Proofs about what a tool call passes through: the circuit breaker that  *)
(* is asked before it (CircuitBreaker), for any sets of tools and turns    *)
(* and any positive threshold and cooldown, and the emitter it runs on     *)
(* (Dispatch), for any number of dispatches, tools and Cases.              *)
(***************************************************************************)
EXTENDS CircuitBreaker, Dispatch, TLAPS

(* The inductive invariant: the type invariant makes the counter comparisons
   arithmetic, and the counter never runs ahead of the upstream failures. *)
BreakerInv ==
    /\ BreakerTypeOK
    /\ CounterMatchesDeadline
    /\ \A t \in Tools : failures[t] <= streak[t]

(* Every operation of the breaker, by any turn at any time, preserves
   BreakerInv. *)
LEMMA BreakerStep == BreakerInv /\ [BreakerNext]_breakerVars => BreakerInv'
<1> SUFFICES ASSUME BreakerInv, [BreakerNext]_breakerVars PROVE BreakerInv'
    OBVIOUS
<1> USE BreakerAssumption DEF BreakerInv, BreakerTypeOK, CounterMatchesDeadline, NoDeadline
<1>1. ASSUME NEW c \in Turns, NEW t \in Tools, Dispatch(c, t) PROVE BreakerInv'
    BY <1>1 DEF Dispatch, is_tripped, FailuresSeen, Elapsed
<1>2. ASSUME NEW c \in Turns, NEW t \in Tools, NEW kind \in FailureKinds,
             record_failure(c, t, kind)
      PROVE BreakerInv'
  <2> USE DEF record_failure
  <2>1. CASE Counts(kind) /\ ~is_tripped(t)
    <3> DEFINE count == FailuresSeen(t) + 1
    <3>1. kind = "upstream" BY <2>1 DEF Counts
    <3>2. failures[t] < THRESHOLD \/ cooldown[t] = 0
      BY <2>1 DEF is_tripped
    <3>3. count \in 1..THRESHOLD /\ count <= failures[t] + 1 /\ (count = 1 \/ count = failures[t] + 1)
      BY <3>2 DEF FailuresSeen, Elapsed
    <3>4. /\ failures' = [failures EXCEPT ![t] = count]
          /\ cooldown' = [cooldown EXCEPT ![t] = IF count >= THRESHOLD THEN COOLDOWN_S ELSE NoDeadline]
      BY <1>2, <2>1
    <3>5. streak' = IF streak[t] < THRESHOLD THEN [streak EXCEPT ![t] = @ + 1] ELSE streak
      BY <1>2, <3>1
    <3> HIDE DEF count
    <3>6. BreakerTypeOK' BY <1>2, <3>3, <3>4, <3>5
    <3>7. CounterMatchesDeadline' BY <3>3, <3>4
    <3>8. \A u \in Tools : failures'[u] <= streak'[u] BY <3>3, <3>4, <3>5
    <3> QED BY <3>6, <3>7, <3>8
  <2>2. CASE ~(Counts(kind) /\ ~is_tripped(t))
    <3>1. failures' = failures /\ cooldown' = cooldown BY <1>2, <2>2
    <3>2. streak' \in {streak, [streak EXCEPT ![t] = @ + 1]} /\ streak' \in [Tools -> 0..THRESHOLD]
      BY <1>2
    <3> QED BY <1>2, <3>1, <3>2
  <2> QED BY <2>1, <2>2
<1>3. ASSUME NEW c \in Turns, NEW t \in Tools, record_success(c, t) PROVE BreakerInv'
    BY <1>3 DEF record_success
<1>4. ASSUME NEW c \in Turns, AbandonCall(c) PROVE BreakerInv'
    BY <1>4 DEF AbandonCall
<1>5. CASE Tick
    BY <1>5 DEF Tick
<1>6. CASE UNCHANGED breakerVars
    BY <1>6 DEF breakerVars
<1> QED BY <1>1, <1>2, <1>3, <1>4, <1>5, <1>6 DEF BreakerNext

(* In every reachable state of the breaker the counters and deadlines are
   well-typed and in step, and no counter exceeds the tool's upstream streak. *)
THEOREM BreakerInvariant == BreakerSpec => []BreakerInv
<1>1. BreakerInit => BreakerInv
    BY BreakerAssumption DEF BreakerInit, BreakerInv, BreakerTypeOK, CounterMatchesDeadline, NoDeadline
<1> QED BY <1>1, BreakerStep, PTL DEF BreakerSpec

\* The counters, deadlines and calls of the breaker keep their types.
THEOREM BreakerTypes == BreakerSpec => []BreakerTypeOK
BY BreakerInvariant, PTL DEF BreakerInv

(* A deadline of an open tool moves by one tick of the clock, or goes with the
   success of an overlapping call; no late failure touches it. *)
THEOREM WindowsCountDown == BreakerSpec => WindowOnlyCountsDown
<1> DEFINE Window ==
      \A t \in Tools :
          cooldown[t] > 0 /\ cooldown'[t] \notin {cooldown[t], cooldown[t] - 1}
          => \E c \in Turns : record_success(c, t)
<1>1. BreakerInv /\ [BreakerNext]_breakerVars => [Window]_breakerVars
  <2> SUFFICES ASSUME BreakerInv, BreakerNext, NEW t \in Tools, cooldown[t] > 0,
                      cooldown'[t] \notin {cooldown[t], cooldown[t] - 1}
               PROVE  \E c \in Turns : record_success(c, t)
    OBVIOUS
  <2> USE BreakerAssumption DEF BreakerInv, BreakerTypeOK, NoDeadline
  <2>1. ASSUME NEW c \in Turns, NEW u \in Tools, Dispatch(c, u) PROVE FALSE
    BY <2>1 DEF Dispatch, is_tripped
  <2>2. ASSUME NEW c \in Turns, NEW u \in Tools, NEW kind \in FailureKinds, record_failure(c, u, kind)
        PROVE  FALSE
    BY <2>2 DEF record_failure, is_tripped
  <2>3. ASSUME NEW c \in Turns, NEW u \in Tools, record_success(c, u) PROVE u = t
    BY <2>3 DEF record_success
  <2>4. ASSUME NEW c \in Turns, AbandonCall(c) PROVE FALSE
    BY <2>4 DEF AbandonCall
  <2>5. ASSUME Tick PROVE FALSE
    BY <2>5 DEF Tick
  <2> QED BY <2>1, <2>2, <2>3, <2>4, <2>5 DEF BreakerNext
<1> HIDE DEF Window
<1>2. BreakerSpec => [][Window]_breakerVars
  BY BreakerInvariant, <1>1, PTL DEF BreakerSpec
<1> QED BY <1>2 DEF Window, WindowOnlyCountsDown

(* is_tripped, record_failure and record_success keep the failure counter and
   the cooldown deadline of every tool in step. *)
THEOREM CountersAndDeadlinesAgree == BreakerSpec => []CounterMatchesDeadline
BY BreakerInvariant, PTL DEF BreakerInv

(* No tool is ever blocked by anything but THRESHOLD upstream failures without
   a success in between, however the turns' calls overlap. *)
THEOREM OnlyUpstreamStreaksTrip == BreakerSpec => []TripNeedsUpstreamStreak
<1>1. BreakerInv => TripNeedsUpstreamStreak
    BY BreakerAssumption
    DEF BreakerInv, BreakerTypeOK, CounterMatchesDeadline, TripNeedsUpstreamStreak
<1> QED BY <1>1, BreakerInvariant, PTL

-----------------------------------------------------------------------------
\* A body that returned a layer has its outcome before the layer is published.
ReturnsFirst == \A d \in Calls : stage[d] \in {"publish", "emit"} => outcome[d] # "none"

Types == TypeOK /\ ReturnsFirst

LEMMA TypesInit == Init => Types
<1> SUFFICES ASSUME Init PROVE Types OBVIOUS
<1> USE DEF Init, Stages, Outcomes, Bodies
<1>1. opens \in 0..MaxOpens BY DispatchAssumption
<1>2. cards \in [Calls -> [state : Outcomes, kids : SUBSET Calls]] BY DEF NoCard
<1>3. steps \in [Steps -> {"absent", "pending", "running"} \cup Terminal] BY DEF NoSteps
<1> QED BY <1>1, <1>2, <1>3 DEF Types, TypeOK, ReturnsFirst

\* What a settled step leaves behind has its type.
LEMMA SettleTypes ==
    ASSUME TypeOK, NEW d \in Calls, NEW state \in Terminal, Settle(d, state)
    PROVE  /\ steps' \in [Steps -> {"absent", "pending", "running"} \cup Terminal]
           /\ shown' \in [Calls -> {"none"} \cup Terminal]
           /\ last' \in Calls \cup {NoCall}
           /\ kids' \in SUBSET Calls
BY DEF TypeOK, Settle, Children, Steps, Own

(* Every step of a dispatch keeps the types. *)
LEMMA TypesStep == Types /\ [Next]_vars => Types'
<1> SUFFICES ASSUME Types, [Next]_vars PROVE Types' OBVIOUS
<1> USE DEF Types, TypeOK, ReturnsFirst, Goto, Stages, Outcomes, stepVars, callVars, layerVars, openVars
<1>s. \A d \in Calls : Own(d) \in Steps /\ Sub(d) \in Steps BY DEF Steps, Own, Sub
<1>1. ASSUME NEW d \in Calls, Start(d) PROVE Types'
  <2>1. steps' \in [Steps -> {"absent", "pending", "running"} \cup Terminal]
    BY <1>1, <1>s DEF Start, NoSteps
  <2>2. crowded' \in SUBSET Calls BY <1>1 DEF Start
  <2> QED BY <1>1, <2>1, <2>2 DEF Start
<1>2. ASSUME NEW d \in Calls, Enter(d) PROVE Types'
  <2>1. CASE Known(Own(d))
    <3>1. /\ prev' = [prev EXCEPT ![d] = parent] /\ steps' = [steps EXCEPT ![Own(d)] = "running"]
          /\ parent' = d /\ kids' = {} /\ stage' = [stage EXCEPT ![d] = "body"]
          /\ UNCHANGED <<outcome, under, last, cards, body, shown, crowded, layerVars>>
      BY <1>2, <2>1 DEF Enter
    <3>2. steps' \in [Steps -> {"absent", "pending", "running"} \cup Terminal]
      BY <3>1, <1>s
    <3> QED BY <3>1, <3>2
  <2>2. CASE ~Known(Own(d)) BY <1>2, <2>2 DEF Enter
  <2> QED BY <2>1, <2>2
<1>3. ASSUME NEW d \in Calls, BeginSubstep(d) PROVE Types'
  BY <1>3, <1>s DEF BeginSubstep
<1>4. ASSUME NEW d \in Calls, EndSubstep(d) PROVE Types'
  BY <1>4, <1>s DEF EndSubstep, Terminal
<1>5. ASSUME NEW d \in Calls, NEW r \in Does[d] \ {"substep"}, BodyEnds(d, r) PROVE Types'
  <2>1. r \in Bodies /\ LiveState(r) \in Terminal /\ CardState(r) \in {"failed", "complete"}
    BY DispatchAssumption DEF LiveState, CardState, Terminal
  <2>2. CASE Known(Own(d))
    <3>1. Settle(d, LiveState(r)) BY <1>5, <2>2 DEF BodyEnds
    <3>2. /\ steps' \in [Steps -> {"absent", "pending", "running"} \cup Terminal]
          /\ shown' \in [Calls -> {"none"} \cup Terminal]
          /\ last' \in Calls \cup {NoCall} /\ kids' \in SUBSET Calls
      BY <2>1, <3>1, SettleTypes
    <3> QED BY <1>5, <2>1, <2>2, <3>2 DEF BodyEnds
  <2>3. CASE ~Known(Own(d)) BY <1>5, <2>1, <2>3 DEF BodyEnds
  <2> QED BY <2>2, <2>3
<1>6. ASSUME NEW d \in Calls, AddLayer(d) \/ EmitLayer(d) PROVE Types'
  <2>1. CASE AddLayer(d) BY <2>1 DEF AddLayer
  <2>2. CASE EmitLayer(d) BY <2>2 DEF EmitLayer
  <2> QED BY <1>6, <2>1, <2>2
<1>7. ASSUME NEW d \in Calls, CancelCall(d) PROVE Types'
  <2>1. /\ steps' \in [Steps -> {"absent", "pending", "running"} \cup Terminal]
        /\ shown' \in [Calls -> {"none"} \cup Terminal]
        /\ last' \in Calls \cup {NoCall} /\ kids' \in SUBSET Calls
    <3>1. CASE stage[d] = "body" /\ Known(Own(d))
      BY <1>7, <3>1, SettleTypes DEF CancelCall, Terminal
    <3>2. CASE ~(stage[d] = "body" /\ Known(Own(d))) BY <1>7, <3>2 DEF CancelCall
    <3> QED BY <3>1, <3>2
  <2>2. \E o \in {"failed", "cancelled"} : outcome' = [outcome EXCEPT ![d] = o]
    BY <1>7 DEF CancelCall
  <2> QED BY <1>7, <2>1, <2>2 DEF CancelCall
<1>8. ASSUME NEW d \in Calls, Unwind(d) PROVE Types'
  BY <1>8 DEF Unwind, NoSteps
<1>9. ASSUME NEW d \in Calls, PersistCard(d) PROVE Types'
  BY <1>9 DEF PersistCard
<1>10. ASSUME NEW d \in Calls, CancelCard(d) \/ PersistLayers(d) PROVE Types'
  <2>1. CASE CancelCard(d) BY <2>1 DEF CancelCard
  <2>2. CASE PersistLayers(d)
    <3>1. batch' \in [Calls -> SUBSET Calls] BY <2>2 DEF PersistLayers
    <3> QED BY <2>2, <3>1 DEF PersistLayers
  <2> QED BY <1>10, <2>1, <2>2
<1>11. ASSUME NEW d \in Calls, MergeLayers(d) PROVE Types'
  <2>1. PICK o \in {outcome[d], "cancelled"} : outcome' = [outcome EXCEPT ![d] = o]
    BY <1>11 DEF MergeLayers
  <2>2. saved' \in [Cases -> SUBSET Calls] /\ lost' \in SUBSET Calls
    BY <1>11 DEF MergeLayers
  <2>3. /\ batch' = [batch EXCEPT ![d] = {}] /\ stage' = [stage EXCEPT ![d] = "ended"]
        /\ UNCHANGED <<stepVars, prev, cards, body, shown, crowded, layers, openVars, added>>
    BY <1>11 DEF MergeLayers
  <2> QED BY <2>1, <2>2, <2>3
<1>12. ASSUME NEW k \in Cases, ReadCase(k) PROVE Types'
  BY <1>12, DispatchAssumption DEF ReadCase
<1>13. ASSUME OpenCase \/ FlushLayers PROVE Types'
  <2>1. PICK held \in SUBSET Calls : Replace(held)
    BY <1>13 DEF OpenCase, FlushLayers
  <2>2. opens' \in 0..MaxOpens
    BY <1>13, DispatchAssumption DEF OpenCase, FlushLayers
  <2> QED BY <2>1, <2>2 DEF Replace
<1>14. ASSUME UNCHANGED vars PROVE Types'
  BY <1>14 DEF vars
<1> QED
  BY <1>1, <1>2, <1>3, <1>4, <1>5, <1>6, <1>7, <1>8, <1>9, <1>10, <1>11, <1>12, <1>13, <1>14
     DEF Next, Continue, AllEnded

(* The fields of the emitter and of every dispatch keep their types, and a dispatch
   that unwinds or writes its card or layers has an outcome, also when another
   dispatch dropped its step. *)
THEOREM TypeCorrect == Spec => []TypeOK
<1>1. Init => Types BY TypesInit
<1>2. Types /\ [Next]_vars => Types' BY TypesStep
<1>3. Types => TypeOK BY DEF Types
<1> QED BY <1>1, <1>2, <1>3, PTL DEF Spec
-----------------------------------------------------------------------------
(* Where the layer of a dispatch is, once it has joined the loaded layers and while no
   Case that was opened has replaced them: among the loaded ones, then in the batch the
   dispatch took, then in its Case. *)
Kept(d) ==
    /\ stage[d] \notin {"idle", "added", "body", "publish"}
    /\ stage[d] \in {"emit", "unwind", "card", "persist"} => d \in layers \cup lost
    /\ stage[d] = "merge" => d \in batch[d] \cup lost
    /\ stage[d] = "ended" => d \in saved[CaseOf[d]] \cup lost

LayersKept == \A d \in added : Kept(d)

(* A dispatch, another one and an opened Case leave every added layer where its own
   dispatch will find it, or lose it in one of the two ways that are recorded. *)
LEMMA KeptStep == TypeOK /\ LayersKept /\ [Next]_vars => LayersKept'
<1> SUFFICES ASSUME TypeOK, LayersKept, [Next]_vars PROVE LayersKept' OBVIOUS
<1> USE DEF LayersKept, Kept, TypeOK, Goto
<1>1. ASSUME NEW d \in Calls, AddLayer(d) PROVE LayersKept'
  BY <1>1 DEF AddLayer, openVars
<1>2. ASSUME NEW d \in Calls, PersistLayers(d) PROVE LayersKept'
  BY <1>2 DEF PersistLayers, openVars
<1>3. ASSUME NEW d \in Calls, MergeLayers(d) PROVE LayersKept'
  <2>1. /\ stage[d] = "merge" /\ stage' = [stage EXCEPT ![d] = "ended"]
        /\ batch' = [batch EXCEPT ![d] = {}] /\ UNCHANGED <<layers, added>>
    BY <1>3 DEF MergeLayers
  <2>2. CaseOf[d] \in Cases BY DEF Cases
  <2>3. /\ \A k \in Cases : saved[k] \subseteq saved'[k]
        /\ lost \subseteq lost'
        /\ d \in batch[d] => d \in saved'[CaseOf[d]] \cup lost'
    BY <1>3, <2>2 DEF MergeLayers
  <2>4. \A e \in Calls : CaseOf[e] \in Cases BY DEF Cases
  <2> QED BY <2>1, <2>3, <2>4
<1>4. ASSUME NEW d \in Calls, stage[d] \in {"idle", "added", "body", "publish"}, NEW p, Goto(d, p),
             UNCHANGED layerVars
      PROVE  LayersKept'
  BY <1>4 DEF layerVars
<1>5. ASSUME NEW d \in Calls, stage[d] \in {"emit", "unwind", "card", "persist"},
             NEW p \in {"unwind", "card", "persist", "cut"}, Goto(d, p), UNCHANGED layerVars
      PROVE  LayersKept'
  BY <1>5 DEF layerVars
<1>6. ASSUME UNCHANGED <<stage, layerVars>> PROVE LayersKept'
  BY <1>6 DEF layerVars
<1>7. ASSUME NEW d \in Calls, NEW r \in Does[d] \ {"substep"}, BodyEnds(d, r) PROVE LayersKept'
  <2>1. /\ stage[d] = "body" /\ \E p : Goto(d, p)
        /\ UNCHANGED layerVars
    BY <1>7 DEF BodyEnds
  <2> QED BY <2>1, <1>4
<1>8. ASSUME NEW d \in Calls, Start(d) \/ Enter(d) PROVE LayersKept'
  <2>1. /\ stage[d] \in {"idle", "added"} /\ \E p : Goto(d, p)
        /\ UNCHANGED layerVars
    BY <1>8 DEF Start, Enter
  <2> QED BY <2>1, <1>4
<1>9. ASSUME NEW d \in Calls, EmitLayer(d) \/ Unwind(d) \/ PersistCard(d) \/ CancelCard(d)
      PROVE LayersKept'
  <2>1. /\ stage[d] \in {"emit", "unwind", "card", "persist"}
        /\ \E p \in {"unwind", "card", "persist", "cut"} : Goto(d, p)
        /\ UNCHANGED layerVars
    BY <1>9 DEF EmitLayer, Unwind, PersistCard, CancelCard
  <2> QED BY <2>1, <1>5
<1>10. ASSUME NEW d \in Calls, CancelCall(d) PROVE LayersKept'
  <2>1. /\ stage[d] \in {"added", "body", "publish", "emit"} /\ Goto(d, "unwind")
        /\ UNCHANGED layerVars
    BY <1>10 DEF CancelCall
  <2> QED BY <2>1, <1>4, <1>5
<1>11. ASSUME NEW d \in Calls, BeginSubstep(d) \/ EndSubstep(d) PROVE LayersKept'
  BY <1>11, <1>6 DEF BeginSubstep, EndSubstep
<1>12. ASSUME NEW k \in Cases, ReadCase(k) PROVE LayersKept'
  BY <1>12 DEF ReadCase
<1>13. ASSUME NEW held, Replace(held) PROVE LayersKept'
  BY <1>13 DEF Replace, Waiting
<1>14. CASE OpenCase \/ FlushLayers
  BY <1>13, <1>14 DEF OpenCase, FlushLayers
<1>15. CASE UNCHANGED vars BY <1>15, <1>6 DEF vars
<1> QED
  BY <1>1, <1>2, <1>3, <1>7, <1>8, <1>9, <1>10, <1>11, <1>12, <1>14, <1>15 DEF Next, Continue, AllEnded

(* Whatever the other dispatches of the connection do, whatever is cancelled and however
   many Cases are opened meanwhile, a dispatch that ends has its layer in its own Case,
   unless an opened Case had replaced the loaded layers or the store refused the write. *)
THEOREM LayersAreSaved == Spec => []AddedLayerIsSaved
<1>1. Init => LayersKept BY DEF Init, LayersKept
<1>2. TypeOK /\ LayersKept /\ [Next]_vars => LayersKept' BY KeptStep
<1>3. LayersKept => AddedLayerIsSaved BY DEF LayersKept, Kept, AddedLayerIsSaved
<1> QED BY <1>1, <1>2, <1>3, TypeCorrect, PTL DEF Spec

-----------------------------------------------------------------------------
\* Dispatches that are active together are crowded.
Together == \A c, d \in Calls : c # d /\ Active(c) /\ Active(d) => d \in crowded

\* Nothing has been made of the dispatch yet.
Unsettled(d) == cards[d] = NoCard /\ outcome[d] = "none"

\* The body's substep, if it ran one.
OwnKids(d) == {c \in {d} : under[d] # NoCall}

(* The step was settled, and the emitter's snapshot is still of this dispatch. *)
Settled(d) ==
    /\ body[d] # "none"
    /\ outcome[d] = CardState(body[d]) /\ shown[d] = LiveState(body[d])
    /\ last = d /\ kids = OwnKids(d)

(* A dispatch that is alone on its connection finds the shared fields of the emitter
   as it left them, at each of its awaits. *)
Lone(d) ==
    /\ stage[d] = "idle" => Unsettled(d) /\ under[d] = NoCall
    /\ stage[d] = "added" =>
          /\ Unsettled(d) /\ under[d] = NoCall
          /\ Known(Own(d)) /\ \A c \in Calls : ~Known(Sub(c))
    /\ stage[d] = "body" =>
          /\ Unsettled(d) /\ Known(Own(d)) /\ parent = d /\ under[d] \in {NoCall, d}
          /\ \A c \in Calls : Known(Sub(c)) => c = d
          /\ under[d] = d <=> steps[Sub(d)] \in {"running", "complete", "failed"}
          /\ under[d] = NoCall <=> ~Known(Sub(d))
    /\ stage[d] \in {"publish", "emit", "unwind", "card"} =>
          /\ cards[d] = NoCard
          /\ outcome[d] = "cancelled" \/ Settled(d)
    /\ stage[d] = "card" => outcome[d] # "cancelled"

\* What the two properties say of one dispatch.
OutcomeOf(d) ==
    /\ outcome[d] = "failed" => body[d] \in {"raised", "declined"}
    /\ cards[d] # NoCard =>
          /\ cards[d].state = shown[d] <=> body[d] \notin {"reported", "stopped", "declined"}
          /\ cards[d].kids = OwnKids(d)

LoneInv == Together /\ \A d \in Calls \ crowded : Lone(d) /\ OutcomeOf(d)
\* One step of dispatch d.
Step(d) ==
    \/ Start(d) \/ BeginSubstep(d) \/ CancelCall(d) \/ CancelCard(d)
    \/ Enter(d) \/ EndSubstep(d) \/ AddLayer(d) \/ EmitLayer(d) \/ Unwind(d)
    \/ PersistCard(d) \/ PersistLayers(d) \/ MergeLayers(d)
    \/ \E r \in Does[d] \ {"substep"} : BodyEnds(d, r)

\* A step of no dispatch leaves the steps of the pipeline and the dispatches alone.
LEMMA NextIsStep == [Next]_vars => (\E d \in Calls : Step(d)) \/ UNCHANGED <<stepVars, stage, callVars>>
BY DEF Next, Continue, AllEnded, Step, vars, ReadCase, OpenCase, FlushLayers, Replace

\* A step of one dispatch leaves the fields of the others alone.
LEMMA OwnFields ==
    ASSUME TypeOK, NEW c \in Calls, NEW d \in Calls, c # d, Step(c)
    PROVE  /\ stage'[d] = stage[d] /\ under'[d] = under[d] /\ outcome'[d] = outcome[d]
           /\ cards'[d] = cards[d] /\ body'[d] = body[d] /\ shown'[d] = shown[d]
<1>1. \E p \in Stages : stage' = [stage EXCEPT ![c] = p]
  <2>1. CASE BeginSubstep(c) \/ EndSubstep(c)
    BY <2>1 DEF BeginSubstep, EndSubstep, TypeOK
  <2>2. ASSUME NEW r \in Does[c] \ {"substep"}, BodyEnds(c, r)
        PROVE  \E p \in Stages : stage' = [stage EXCEPT ![c] = p]
    BY <2>2 DEF BodyEnds, Goto, Stages
  <2>3. CASE \/ Start(c) \/ CancelCall(c) \/ CancelCard(c) \/ Enter(c) \/ AddLayer(c) \/ EmitLayer(c)
             \/ Unwind(c) \/ PersistCard(c) \/ PersistLayers(c) \/ MergeLayers(c)
    BY <2>3 DEF Start, CancelCall, CancelCard, Enter, AddLayer, EmitLayer, Unwind, PersistCard,
                PersistLayers, MergeLayers, Goto, Stages
  <2> QED BY <2>1, <2>2, <2>3 DEF Step
<1>2. under' = under \/ \E p : under' = [under EXCEPT ![c] = p]
  BY DEF Step, Start, BeginSubstep, CancelCall, CancelCard, Enter, EndSubstep, AddLayer, EmitLayer,
         Unwind, PersistCard, PersistLayers, MergeLayers, BodyEnds, stepVars, callVars
<1>3. outcome' = outcome \/ \E o : outcome' = [outcome EXCEPT ![c] = o]
  BY DEF Step, Start, BeginSubstep, CancelCall, CancelCard, Enter, EndSubstep, AddLayer, EmitLayer,
         Unwind, PersistCard, PersistLayers, MergeLayers, BodyEnds, stepVars, callVars
<1>4. cards' = cards \/ \E k : cards' = [cards EXCEPT ![c] = k]
  BY DEF Step, Start, BeginSubstep, CancelCall, CancelCard, Enter, EndSubstep, AddLayer, EmitLayer,
         Unwind, PersistCard, PersistLayers, MergeLayers, BodyEnds, stepVars, callVars
<1>5. body' = body \/ \E b : body' = [body EXCEPT ![c] = b]
  BY DEF Step, Start, BeginSubstep, CancelCall, CancelCard, Enter, EndSubstep, AddLayer, EmitLayer,
         Unwind, PersistCard, PersistLayers, MergeLayers, BodyEnds, stepVars, callVars
<1>6. shown' = shown \/ \E b : shown' = [shown EXCEPT ![c] = b]
  BY DEF Step, Start, BeginSubstep, CancelCall, CancelCard, Enter, EndSubstep, AddLayer, EmitLayer,
         Unwind, PersistCard, PersistLayers, MergeLayers, BodyEnds, stepVars, callVars, Settle
<1> QED BY <1>1, <1>2, <1>3, <1>4, <1>5, <1>6 DEF TypeOK

\* Only a start is taken by an idle dispatch, and it records who is active.
LEMMA Starts ==
    ASSUME TypeOK, NEW c \in Calls, Step(c)
    PROVE  \/ Active(c) /\ crowded' = crowded
           \/ Start(c) /\ ~Active(c)
BY DEF Step, Start, BeginSubstep, CancelCall, CancelCard, Enter, EndSubstep, AddLayer, EmitLayer,
       Unwind, PersistCard, PersistLayers, MergeLayers, BodyEnds, Active, callVars

LEMMA TogetherStep == ASSUME TypeOK, Together, NEW c \in Calls, Step(c) PROVE Together' /\ crowded \subseteq crowded'
<1>1. \A d \in Calls : d # c => Active(d)' = Active(d) BY OwnFields DEF Active
<1>2. CASE Active(c) /\ crowded' = crowded
  BY <1>1, <1>2 DEF Together
<1>3. CASE Start(c) /\ ~Active(c)
  <2>1. /\ crowded \subseteq crowded'
        /\ \A d \in Calls : Active(d) => d \in crowded' /\ c \in crowded'
    BY <1>3 DEF Start
  <2> QED BY <1>1, <1>3, <2>1 DEF Together
<1> QED BY <1>2, <1>3, Starts

\* A step of another dispatch disturbs none that stays alone.
LEMMA OthersLone ==
    ASSUME Types, Together, NEW c \in Calls, Step(c), NEW d \in Calls, d # c,
           d \notin crowded', Lone(d), OutcomeOf(d)
    PROVE  (Lone(d) /\ OutcomeOf(d))'
<1>1. ~Active(d)
  <2>1. CASE Active(c) /\ crowded' = crowded BY <2>1 DEF Together
  <2>2. CASE Start(c)
    <3>1. \A e \in Calls : Active(e) => e \in crowded' BY <2>2 DEF Start
    <3> QED BY <3>1
  <2> QED BY <2>1, <2>2, Starts DEF Types
<1>2. /\ stage'[d] = stage[d] /\ under'[d] = under[d] /\ outcome'[d] = outcome[d]
      /\ cards'[d] = cards[d] /\ body'[d] = body[d] /\ shown'[d] = shown[d]
  BY OwnFields DEF Types
<1>3. OutcomeOf(d)' BY <1>2 DEF OutcomeOf, OwnKids
<1>4. Lone(d)'
  <2>1. stage'[d] \in {"idle", "ended", "cut"} BY <1>1, <1>2 DEF Active
  <2>2. stage'[d] = "idle" => (Unsettled(d) /\ under[d] = NoCall)'
    BY <1>2 DEF Lone, Unsettled
  <2> QED BY <2>1, <2>2 DEF Lone
<1> QED BY <1>3, <1>4
\* A dispatch alone in its body settles its step with its own substep as only child.
LEMMA LoneSettles ==
    ASSUME Types, NEW d \in Calls, Lone(d), stage[d] = "body", steps[Sub(d)] # "running",
           NEW state, Settle(d, state)
    PROVE  /\ last' = d /\ kids' = OwnKids(d) /\ shown' = [shown EXCEPT ![d] = state]
<1>1. \A c \in Calls : steps[Sub(c)] \in {"complete", "failed"} => c = d
  BY DEF Lone, Known
<1>2. steps[Sub(d)] \in {"complete", "failed"} <=> under[d] = d
  BY DEF Lone, Known
<1>3. under[d] = d <=> under[d] # NoCall BY DispatchAssumption DEF Lone
<1>4. Children(d) = OwnKids(d) BY <1>1, <1>2, <1>3 DEF Children, OwnKids
<1> QED BY <1>4 DEF Settle

\* The card state and the live state of a result differ for three of them.
LEMMA StatesOf ==
    ASSUME NEW r \in Bodies \ {"none"}
    PROVE  /\ CardState(r) \in {"complete", "failed"} /\ LiveState(r) \in Terminal
           /\ CardState(r) = "failed" => r \in {"raised", "declined"}
           /\ CardState(r) = LiveState(r) <=> r \notin {"reported", "stopped", "declined"}
BY DEF Bodies, CardState, LiveState, Terminal

(* A dispatch that is alone keeps its view of the emitter by its own steps. *)
LEMMA LoneStep ==
    ASSUME Types, NEW d \in Calls, Step(d), d \notin crowded', Lone(d), OutcomeOf(d)
    PROVE  (Lone(d) /\ OutcomeOf(d))'
<1> USE DEF stepVars, callVars
<1>t. TypeOK BY DEF Types
<1>s. \A c, e \in Calls : /\ Own(c) \in Steps /\ Sub(c) \in Steps /\ Own(c) # Sub(e)
                          /\ Sub(c) = Sub(e) => c = e
  BY DEF Steps, Own, Sub
<1>1. ASSUME Start(d) PROVE (Lone(d) /\ OutcomeOf(d))'
  <2>1. /\ stage[d] = "idle" /\ stage'[d] = "added"
        /\ steps' = [NoSteps EXCEPT ![Own(d)] = "pending"]
        /\ UNCHANGED <<under, outcome, cards, body, shown>>
    BY <1>1, <1>t DEF Start, Goto, TypeOK
  <2>2. /\ steps'[Own(d)] = "pending"
        /\ \A c \in Calls : steps'[Sub(c)] = "absent"
    BY <2>1, <1>s DEF NoSteps
  <2>3. (Unsettled(d) /\ under[d] = NoCall)' BY <2>1 DEF Lone, Unsettled
  <2>4. Lone(d)' BY <2>1, <2>2, <2>3 DEF Lone, Known
  <2>5. OutcomeOf(d)' BY <2>1 DEF OutcomeOf, OwnKids
  <2> QED BY <2>4, <2>5
<1>2. ASSUME Enter(d) PROVE (Lone(d) /\ OutcomeOf(d))'
  <2>1. stage[d] = "added" /\ Known(Own(d)) BY <1>2 DEF Enter, Lone
  <2>2. /\ stage'[d] = "body" /\ steps' = [steps EXCEPT ![Own(d)] = "running"] /\ parent' = d
        /\ UNCHANGED <<under, outcome, cards, body, shown>>
    BY <1>2, <2>1, <1>t DEF Enter, Goto, TypeOK
  <2>3. /\ steps'[Own(d)] = "running"
        /\ \A c \in Calls : steps'[Sub(c)] = "absent"
    BY <2>1, <2>2, <1>s, <1>t DEF TypeOK, Lone, Known
  <2>4. (Unsettled(d) /\ under[d] = NoCall)' BY <2>1, <2>2 DEF Lone, Unsettled
  <2>5. Lone(d)' BY <2>2, <2>3, <2>4, DispatchAssumption DEF Lone, Known
  <2>6. OutcomeOf(d)' BY <2>2 DEF OutcomeOf, OwnKids
  <2> QED BY <2>5, <2>6
<1>3. ASSUME BeginSubstep(d) PROVE (Lone(d) /\ OutcomeOf(d))'
  <2>1. stage[d] = "body" /\ parent = d BY <1>3 DEF BeginSubstep, Lone
  <2>2. /\ steps' = [steps EXCEPT ![Sub(d)] = "running"] /\ under'[d] = d
        /\ UNCHANGED <<parent, stage, outcome, cards, body, shown>>
    BY <1>3, <2>1, <1>t DEF BeginSubstep, TypeOK
  <2>3. /\ steps'[Sub(d)] = "running" /\ steps'[Own(d)] = steps[Own(d)]
        /\ \A c \in Calls : c # d => steps'[Sub(c)] = steps[Sub(c)]
    BY <2>2, <1>s, <1>t DEF TypeOK
  <2>4. Unsettled(d)' /\ Known(Own(d))' /\ \A c \in Calls : Known(Sub(c))' => c = d
    BY <2>1, <2>2, <2>3 DEF Lone, Unsettled, Known
  <2>5. Lone(d)' BY <2>1, <2>2, <2>3, <2>4, DispatchAssumption DEF Lone, Known
  <2>6. OutcomeOf(d)' BY <2>1, <2>2 DEF OutcomeOf, Lone, Unsettled
  <2> QED BY <2>5, <2>6
<1>4. ASSUME EndSubstep(d) PROVE (Lone(d) /\ OutcomeOf(d))'
  <2>1. stage[d] = "body" /\ steps[Sub(d)] = "running" BY <1>4 DEF EndSubstep
  <2>2. PICK r \in {"complete", "failed"} : steps' = [steps EXCEPT ![Sub(d)] = r]
    BY <1>4 DEF EndSubstep
  <2>3. UNCHANGED <<parent, under, stage, outcome, cards, body, shown>> BY <1>4 DEF EndSubstep
  <2>4. /\ steps'[Sub(d)] = r /\ steps'[Own(d)] = steps[Own(d)]
        /\ \A c \in Calls : c # d => steps'[Sub(c)] = steps[Sub(c)]
    BY <2>2, <1>s, <1>t DEF TypeOK
  <2>5. Unsettled(d)' /\ Known(Own(d))' /\ \A c \in Calls : Known(Sub(c))' => c = d
    BY <2>1, <2>3, <2>4 DEF Lone, Unsettled, Known
  <2>6. Lone(d)' BY <2>1, <2>3, <2>4, <2>5, DispatchAssumption DEF Lone, Known
  <2>7. OutcomeOf(d)' BY <2>3 DEF OutcomeOf, OwnKids
  <2> QED BY <2>6, <2>7
<1>5. ASSUME NEW r \in Does[d] \ {"substep"}, BodyEnds(d, r) PROVE (Lone(d) /\ OutcomeOf(d))'
  <2>1. r \in Bodies \ {"none"} BY DispatchAssumption
  <2>2. stage[d] = "body" /\ Known(Own(d)) /\ steps[Sub(d)] # "running"
    BY <1>5 DEF BodyEnds, Lone
  <2>3. /\ Settle(d, LiveState(r)) /\ body'[d] = r /\ outcome'[d] = CardState(r)
        /\ stage'[d] \in {"publish", "unwind"} /\ UNCHANGED <<under, cards>>
    BY <1>5, <2>2, <1>t DEF BodyEnds, Goto, TypeOK
  <2>4. last' = d /\ kids' = OwnKids(d) /\ shown'[d] = LiveState(r)
    BY <2>2, <2>3, LoneSettles, <1>t DEF TypeOK
  <2>5. Settled(d)' BY <2>1, <2>3, <2>4 DEF Settled, OwnKids
  <2>6. cards[d] = NoCard BY <2>2 DEF Lone, Unsettled
  <2>7. Lone(d)' BY <2>3, <2>5, <2>6 DEF Lone
  <2>8. OutcomeOf(d)' BY <2>1, <2>3, <2>6, StatesOf DEF OutcomeOf
  <2> QED BY <2>7, <2>8
<1>6. ASSUME AddLayer(d) \/ EmitLayer(d) PROVE (Lone(d) /\ OutcomeOf(d))'
  <2>1. /\ stage[d] \in {"publish", "emit"} /\ stage'[d] \in {"emit", "unwind"}
        /\ UNCHANGED <<under, last, kids, outcome, cards, body, shown>>
    BY <1>6, <1>t DEF AddLayer, EmitLayer, Goto, TypeOK
  <2>2. Lone(d)' BY <2>1 DEF Lone, Settled, OwnKids
  <2>3. OutcomeOf(d)' BY <2>1 DEF OutcomeOf, OwnKids
  <2> QED BY <2>2, <2>3
<1>7. ASSUME CancelCall(d) PROVE (Lone(d) /\ OutcomeOf(d))'
  <2>1. /\ stage[d] \in {"added", "body", "publish", "emit"} /\ stage'[d] = "unwind"
        /\ UNCHANGED <<under, cards, body>>
    BY <1>7, <1>t DEF CancelCall, Goto, TypeOK
  <2>2. ~(stage[d] = "body" /\ ~Known(Own(d))) BY DEF Lone
  <2>3. outcome'[d] = "cancelled" BY <1>7, <2>2, <1>t DEF CancelCall, TypeOK
  <2>4. cards[d] = NoCard BY <2>1 DEF Lone, Unsettled
  <2> QED BY <2>1, <2>3, <2>4 DEF Lone, OutcomeOf
<1>8. ASSUME Unwind(d) PROVE (Lone(d) /\ OutcomeOf(d))'
  <2>1. /\ stage[d] = "unwind"
        /\ stage'[d] = IF outcome[d] = "cancelled" THEN "persist" ELSE "card"
        /\ UNCHANGED <<under, last, kids, outcome, cards, body, shown>>
    BY <1>8, <1>t DEF Unwind, Goto, TypeOK
  <2>2. Lone(d)' BY <2>1 DEF Lone, Settled, OwnKids
  <2>3. OutcomeOf(d)' BY <2>1 DEF OutcomeOf, OwnKids
  <2> QED BY <2>2, <2>3
<1>9. ASSUME PersistCard(d) PROVE (Lone(d) /\ OutcomeOf(d))'
  <2>1. stage[d] = "card" /\ Settled(d) BY <1>9 DEF PersistCard, Lone
  <2>2. last # NoCall /\ ToolOf[last] = ToolOf[d] BY <2>1, DispatchAssumption DEF Settled
  <2>3. /\ cards'[d] = [state |-> outcome[d], kids |-> kids]
        /\ stage'[d] = "persist" /\ UNCHANGED <<under, outcome, body, shown>>
    BY <1>9, <2>2, <1>t DEF PersistCard, Goto, TypeOK
  <2>4. cards'[d].state = CardState(body[d]) /\ cards'[d].kids = OwnKids(d)
    BY <2>1, <2>3 DEF Settled
  <2>5. body[d] \in Bodies \ {"none"} /\ shown[d] = LiveState(body[d])
    BY <2>1, <1>t DEF Settled, TypeOK
  <2>6. OutcomeOf(d)' BY <2>3, <2>4, <2>5, StatesOf DEF OutcomeOf, OwnKids
  <2> QED BY <2>3, <2>6 DEF Lone
<1>10. ASSUME CancelCard(d) \/ PersistLayers(d) \/ MergeLayers(d) PROVE (Lone(d) /\ OutcomeOf(d))'
  <2>1. /\ stage'[d] \in {"cut", "merge", "ended"} /\ outcome'[d] \in {outcome[d], "cancelled"}
        /\ UNCHANGED <<under, cards, body, shown>>
    BY <1>10, <1>t DEF CancelCard, PersistLayers, MergeLayers, Goto, TypeOK
  <2>2. OutcomeOf(d)' BY <2>1 DEF OutcomeOf, OwnKids
  <2> QED BY <2>1, <2>2 DEF Lone
<1> QED BY <1>1, <1>2, <1>3, <1>4, <1>5, <1>6, <1>7, <1>8, <1>9, <1>10 DEF Step

LEMMA LoneInvInit == Init => LoneInv
BY DEF Init, LoneInv, Together, Active, Lone, OutcomeOf, Unsettled

(* What the emitter shows an undisturbed dispatch is an invariant of any number of
   dispatches on it. *)
LEMMA LoneInvStep == Types /\ LoneInv /\ [Next]_vars => LoneInv'
<1> SUFFICES ASSUME Types, LoneInv, [Next]_vars PROVE LoneInv' OBVIOUS
<1>1. ASSUME NEW c \in Calls, Step(c) PROVE LoneInv'
  <2>1. Together' /\ crowded \subseteq crowded' BY <1>1, TogetherStep DEF Types, LoneInv
  <2>2. ASSUME NEW d \in Calls, d \notin crowded' PROVE (Lone(d) /\ OutcomeOf(d))'
    <3>1. Together /\ Lone(d) /\ OutcomeOf(d) BY <2>1, <2>2 DEF LoneInv
    <3>2. CASE d = c BY <1>1, <2>2, <3>1, <3>2, LoneStep
    <3>3. CASE d # c BY <1>1, <2>2, <3>1, <3>3, OthersLone
    <3> QED BY <3>2, <3>3
  <2> QED BY <2>1, <2>2 DEF LoneInv
<1>2. ASSUME UNCHANGED <<stepVars, stage, callVars>> PROVE LoneInv'
  BY <1>2 DEF stepVars, callVars, LoneInv, Together, Active, Lone, OutcomeOf, Unsettled, Settled, OwnKids, Known
<1> QED BY <1>1, <1>2, NextIsStep

LEMMA LoneInvHolds == Spec => []LoneInv
<1>1. Init => Types /\ LoneInv BY TypesInit, LoneInvInit
<1>2. Types /\ LoneInv /\ [Next]_vars => (Types /\ LoneInv)' BY TypesStep, LoneInvStep
<1> QED BY <1>1, <1>2, PTL DEF Spec

(* A dispatch that is alone on its connection fails only when its body raised, and the
   Case replays the state its live card showed, the three divergent results aside,
   whatever dispatches came before it and whenever it is cancelled. *)
THEOREM OutcomesAreTheBodys == Spec => []OutcomeIsTheBodys
<1>1. LoneInv => OutcomeIsTheBodys BY DEF LoneInv, OutcomeOf, OutcomeIsTheBodys
<1> QED BY <1>1, LoneInvHolds, PTL

(* Its card holds the substep of its own body and no other, although the emitter's
   list of children was last written by an earlier dispatch. *)
THEOREM CardsHaveTheirChildren == Spec => []CardHasItsChildren
<1>1. LoneInv => CardHasItsChildren BY DEF LoneInv, OutcomeOf, OwnKids, CardHasItsChildren
<1> QED BY <1>1, LoneInvHolds, PTL
=============================================================================
