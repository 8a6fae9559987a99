----------------------------- MODULE GateProofs -----------------------------
(***************************************************************************)
(* The two places where work waits for the user.                           *)
(*                                                                         *)
(* The gates of a tool call, for every set of turns, areas, codes and      *)
(* rungs and any number of calls.  Two things make the properties          *)
(* inductive: whatever is remembered was approved by some turn of the      *)
(* connection, and the memory of a chat turn that is alone on it is        *)
(* exactly what its user has approved.                                     *)
(*                                                                         *)
(* A mesh under review, for any number of sessions, of threads that edit   *)
(* their recipes, of ops and of rounds.  The invariant speaks of a session *)
(* no two threads have met on: its mesh is what its recipe builds or is    *)
(* flagged, and the one thread on it holds the mesh it is about to show.   *)
(***************************************************************************)
EXTENDS ToolGates, MeshGate, TLAPS

\* No claim is left at the code card; and what CodeRunsAsApproved says of one turn.
GateOf(t) ==
    /\ at[t] = "codeCard" => ~params[t].confirmed
    /\ at[t] = "run" /\ params[t].arg \in Codes /\ PlainlyNamed(params[t]) =>
          IF params[t].confirmed THEN params[t].arg \in granted[t] ELSE params[t].arg = Empty

(* What is remembered was approved by some turn, and a card is skipped for an area
   some turn approved. *)
Approved(a) ==
    /\ memory[a].known => \E u \in Turns :
          approved[u][a] # Nothing /\ (memory[a].delta # Nothing => memory[a].delta = approved[u][a])
    /\ ~memory[a].known => memory[a].delta = Nothing

SkipOf(t) ==
    /\ at[t] # "run" => how[t] = "none"
    /\ at[t] = "run" /\ how[t] = "memory" =>
          params[t].arg \in Areas /\ \E u \in Turns : approved[u][params[t].arg] # Nothing

\* Two turns that are active at the same time are both crowded.
AloneInv == \A t, u \in Turns : Active(t) /\ Active(u) /\ t # u => t \in crowded

(* For a turn that has the connection to itself: the memory has what its user has
   approved, and nothing else if it is a chat turn; a card is about an area that was
   not approved, and a replay changes what the memory says. *)
MemoryOf(t) ==
    /\ at[t] = "off" => \A a \in Areas : approved[t][a] = Nothing
    /\ Active(t) => \A a \in Areas :
          /\ approved[t][a] # Nothing => memory[a].known /\ memory[a].delta \in {Nothing, approved[t][a]}
          /\ t \notin manual /\ memory[a].known => approved[t][a] # Nothing
    /\ at[t] = "confirmCard" => approved[t][params[t].arg] = Nothing
    /\ at[t] = "run" /\ how[t] = "memory" =>
          /\ memory[params[t].arg].known
          /\ memory[params[t].arg].delta # Nothing => params[t].res = memory[params[t].arg].delta

Inv ==
    /\ TypeOK /\ AloneInv
    /\ \A t \in Turns : GateOf(t) /\ SkipOf(t)
    /\ \A a \in Areas : Approved(a)
    /\ \A t \in Turns \ crowded : MemoryOf(t)

-----------------------------------------------------------------------------
\* The steps of one turn.
Step(t) ==
    \/ StartTurn(t) \/ StartManual(t) \/ EndTurn(t)
    \/ EstimatePayload(t) \/ GateCode(t) \/ ReuseLayer(t) \/ ReplayDecision(t) \/ EstimateFetch(t)
    \/ \E d \in {"proceed", "cancel", "narrow_scope"} :
          \/ \E revised \in Params : AnswerPayload(t, d, revised)
          \/ AnswerCode(t, d)
          \/ \E rung \in Rungs : AnswerConfirm(t, d, rung)
    \/ Expire(t) \/ Run(t)
    \/ \E p \in Params : Propose(t, p)

LEMMA NextIsStep == [Next]_vars => (\E t \in Turns : Step(t)) \/ UNCHANGED vars
  BY DEF Next, Step, Gate, Answer, AllDone

\* What the parameters of a call are, in the words the proofs use.
ParamsOK ==
    /\ NoParams \in Params
    /\ \A p \in Params :
          /\ p.arg \in Areas \cup Codes /\ p.res \in Rungs /\ p.confirmed \in BOOLEAN
          /\ p.arg \in Areas => p.confirmed = FALSE
          /\ p.arg \in Codes => \A b \in BOOLEAN : [p EXCEPT !.confirmed = b] \in Params
          /\ p.arg \in Areas => \A r \in Rungs : [p EXCEPT !.res = r] \in Params

LEMMA ParamsFacts == ParamsOK
  BY GatesAssumption DEF ParamsOK, Params, NoParams

\* What normalize_args may make of a call's arguments.
Normal(p, q) == \E a \in NormalArgs(p), c \in NormalFlags(p) : q = [p EXCEPT !.arg = a, !.confirmed = c]

(* Arguments are normalised into arguments; those under their declared names are
   not changed. *)
LEMMA NormalisedIs ==
    ASSUME NEW p \in Params, p.arg \in Codes, NEW normal, Normal(p, normal)
    PROVE  /\ normal \in Params /\ normal.arg \in Codes
           /\ PlainlyNamed(normal) => PlainlyNamed(p) /\ normal.arg = p.arg /\ normal.confirmed = p.confirmed
<1>1. p \in [arg : Codes, res : {Suggested}, confirmed : BOOLEAN,
             alias : (Codes \ {Empty}) \cup {Nothing}, claimed : BOOLEAN]
  BY GatesAssumption DEF Params
<1>2. PICK a \in NormalArgs(p), c \in NormalFlags(p) : normal = [p EXCEPT !.arg = a, !.confirmed = c]
  BY DEF Normal
<1>3. a \in Codes /\ c \in BOOLEAN BY <1>1, <1>2 DEF NormalArgs, NormalFlags
<1>4. /\ normal.arg = a /\ normal.confirmed = c /\ normal.alias = p.alias /\ normal.claimed = p.claimed
      /\ normal \in Params
  BY <1>1, <1>2, <1>3 DEF Params
<1>5. PlainlyNamed(p) => a = p.arg /\ c = p.confirmed
  BY <1>1, <1>2 DEF PlainlyNamed, NormalArgs, NormalFlags
<1> QED BY <1>3, <1>4, <1>5 DEF PlainlyNamed

\* Setting the flag of a call that runs code changes nothing else.
LEMMA FlagSet ==
    ASSUME NEW p \in Params, p.arg \in Codes, NEW b \in BOOLEAN
    PROVE  LET q == [p EXCEPT !.confirmed = b]
           IN  q \in Params /\ q.arg = p.arg /\ q.confirmed = b
<1>1. p \in [arg : Codes, res : {Suggested}, confirmed : BOOLEAN,
             alias : (Codes \ {Empty}) \cup {Nothing}, claimed : BOOLEAN]
  BY GatesAssumption DEF Params
<1>2. [p EXCEPT !.confirmed = b] \in [arg : Codes, res : {Suggested}, confirmed : BOOLEAN,
             alias : (Codes \ {Empty}) \cup {Nothing}, claimed : BOOLEAN]
  BY <1>1
<1> QED BY <1>1, <1>2 DEF Params

LEMMA PinIsRung == ASSUME NEW d \in {"proceed", "narrow_scope"}, NEW r \in Rungs PROVE Pin(d, r) \in Rungs
  BY GatesAssumption DEF Pin

\* The two conjuncts of TypeOK that relate a stage to its call.
ArgsFit ==
    \A t \in Turns :
        /\ at[t] \in {"confirm", "confirmCard"} => params[t].arg \in Areas
        /\ at[t] \in {"code", "codeCard"} => params[t].arg \in Codes

LEMMA LeaveTypes ==
    ASSUME TypeOK, NEW t \in Turns, NEW s \in {"thinking", "done"}, Leave(t, s)
    PROVE  /\ at' \in [Turns -> Stages] /\ params' \in [Turns -> Params] /\ over' \in [Turns -> BOOLEAN]
           /\ granted' \in [Turns -> SUBSET Codes]
           /\ how' \in [Turns -> {"none", "open", "reuse", "card", "memory"}]
           /\ ArgsFit'
<1>1. at' \in [Turns -> Stages] /\ granted' \in [Turns -> SUBSET Codes]
  BY DEF Leave, Goto, TypeOK, Stages
<1>2. params' \in [Turns -> Params]
  BY ParamsFacts DEF Leave, SetParams, TypeOK, ParamsOK
<1>3. over' \in [Turns -> BOOLEAN] /\ how' \in [Turns -> {"none", "open", "reuse", "card", "memory"}]
  BY DEF Leave, TypeOK
<1>4. ArgsFit'
  BY DEF Leave, Goto, SetParams, TypeOK, ArgsFit
<1> QED
  BY <1>1, <1>2, <1>3, <1>4

\* A step that sets the stage and the arguments of a turn consistently.
LEMMA SetTypes ==
    ASSUME TypeOK, NEW t \in Turns, NEW s \in Stages, NEW p \in Params,
           Goto(t, s), SetParams(t, p),
           s \in {"confirm", "confirmCard"} => p.arg \in Areas,
           s \in {"code", "codeCard"} => p.arg \in Codes
    PROVE  at' \in [Turns -> Stages] /\ params' \in [Turns -> Params] /\ ArgsFit'
  BY DEF Goto, SetParams, TypeOK, ArgsFit

\* Every step keeps the types; the code gate sees code and the confirmation an area.
LEMMA TypeStep == ASSUME TypeOK, NEW t \in Turns, Step(t) PROVE TypeOK'
<1>0. /\ params[t] \in Params
      /\ \A p \in Params :
            /\ p.arg \in Areas \cup Codes
            /\ p.arg \in Codes => \A b \in BOOLEAN : [p EXCEPT !.confirmed = b] \in Params
            /\ p.arg \in Areas => \A r \in Rungs : [p EXCEPT !.res = r] \in Params
  BY ParamsFacts DEF TypeOK, ParamsOK
<1>1. CASE StartTurn(t) \/ StartManual(t)
  <2>1. at' \in [Turns -> Stages] /\ ArgsFit'
    BY <1>1 DEF StartTurn, StartManual, TypeOK, Goto, Stages, ArgsFit
  <2>2. NoMemory \in [Areas -> [known : BOOLEAN, delta : Deltas]]
    BY DEF NoMemory, Deltas
  <2>3. memory' \in [Areas -> [known : BOOLEAN, delta : Deltas]]
    BY <1>1, <2>2 DEF StartTurn, StartManual, TypeOK
  <2>4. crowded' \subseteq Turns /\ manual' \subseteq Turns
    BY <1>1 DEF StartTurn, StartManual, Crowd, TypeOK
  <2> QED
    BY <1>1, <2>1, <2>3, <2>4 DEF StartTurn, StartManual, TypeOK, ArgsFit
<1>2. CASE EndTurn(t) \/ Expire(t) \/ Run(t)
  BY <1>2, LeaveTypes DEF EndTurn, Expire, Run, TypeOK, ArgsFit
<1>3. CASE EstimatePayload(t)
  <2>1. PICK estimate \in {"none", "warn", "cap"} :
           /\ over' = [over EXCEPT ![t] = (estimate = "cap")]
           /\ at' = [at EXCEPT ![t] = IF estimate = "none" THEN AfterPayload(params[t]) ELSE "payloadCard"]
    BY <1>3 DEF EstimatePayload, Goto
  <2>2. over' \in [Turns -> BOOLEAN]
    BY <2>1 DEF TypeOK
  <2>3. at' \in [Turns -> Stages] /\ ArgsFit'
    BY <1>0, <1>3, <2>1 DEF EstimatePayload, AfterPayload, TypeOK, Stages, Cards, ArgsFit
  <2> QED
    BY <1>3, <2>2, <2>3 DEF EstimatePayload, TypeOK, ArgsFit
<1>4. CASE GateCode(t)
  <2>1. [params[t] EXCEPT !.confirmed = FALSE] \in Params
    BY <1>0, <1>4 DEF GateCode, TypeOK
  <2> DEFINE stripped == [params[t] EXCEPT !.confirmed = FALSE]
  <2>2. at' \in [Turns -> Stages] /\ params' \in [Turns -> Params] /\ ArgsFit'
    <3>0. params[t].arg \in Codes /\ stripped.arg = params[t].arg BY <1>0, <1>4 DEF GateCode, TypeOK, Params
    <3>1. CASE ToTool(t, stripped)
      <4>1. PICK normal : Normal(stripped, normal) /\ SetParams(t, normal) /\ Goto(t, "run")
        BY <3>1 DEF ToTool, Normal
      <4>2. normal \in Params BY <4>1, <2>1, <3>0, NormalisedIs
      <4> QED BY <4>1, <4>2, SetTypes DEF Stages
    <3>2. CASE SetParams(t, stripped) /\ Goto(t, "codeCard")
      <4>1. "codeCard" \in Stages BY DEF Stages, Cards
      <4> QED BY <2>1, <3>0, <3>2, <4>1, SetTypes
    <3> QED BY <1>4, <3>1, <3>2 DEF GateCode
  <2> QED
    BY <1>4, <2>2 DEF GateCode, TypeOK, ArgsFit
<1>5. CASE ReuseLayer(t) \/ EstimateFetch(t)
  BY <1>5 DEF ReuseLayer, EstimateFetch, Let, Goto, TypeOK, Stages, Cards
<1>6. CASE ReplayDecision(t)
  <2> DEFINE delta == memory[params[t].arg].delta
             p == IF delta = Nothing THEN params[t] ELSE [params[t] EXCEPT !.res = delta]
  <2>1. params[t].arg \in Areas
    BY <1>6 DEF ReplayDecision, TypeOK
  <2>2. p \in Params
    BY <1>0, <2>1 DEF TypeOK, Deltas
  <2>3. SetParams(t, p) /\ Goto(t, "run") /\ how' = [how EXCEPT ![t] = "memory"]
    BY <1>6 DEF ReplayDecision, Let
  <2>4. at' \in [Turns -> Stages] /\ params' \in [Turns -> Params] /\ ArgsFit'
    BY <2>2, <2>3, SetTypes DEF Stages
  <2> QED
    BY <1>6, <2>3, <2>4 DEF ReplayDecision, TypeOK, ArgsFit
<1>7. ASSUME NEW d \in {"proceed", "cancel", "narrow_scope"}, NEW revised \in Params,
             AnswerPayload(t, d, revised)
      PROVE  TypeOK'
  <2>1. CASE PayloadAccepts(t, d)
    <3> DEFINE p == IF d = "narrow_scope" THEN revised ELSE params[t]
    <3>1. /\ SetParams(t, p) /\ Goto(t, AfterPayload(p)) /\ UNCHANGED <<granted, how>>
          /\ over' = [over EXCEPT ![t] = @ /\ d # "narrow_scope"]
      BY <1>7, <2>1 DEF AnswerPayload
    <3>2. p \in Params
      BY <1>0
    <3>3. /\ AfterPayload(p) \in Stages
          /\ AfterPayload(p) \in {"confirm", "confirmCard"} => p.arg \in Areas
          /\ AfterPayload(p) \in {"code", "codeCard"} => p.arg \in Codes
      BY <1>0, <3>2 DEF AfterPayload, Stages
    <3>4. at' \in [Turns -> Stages] /\ params' \in [Turns -> Params] /\ ArgsFit'
      BY <3>1, <3>2, <3>3, SetTypes
    <3>5. over' \in [Turns -> BOOLEAN]
      BY <3>1 DEF TypeOK
    <3> QED
      BY <1>7, <3>1, <3>4, <3>5 DEF AnswerPayload, TypeOK, ArgsFit
  <2>2. CASE ~PayloadAccepts(t, d)
    BY <1>7, <2>2, LeaveTypes DEF AnswerPayload, TypeOK, ArgsFit
  <2> QED
    BY <2>1, <2>2
<1>8. ASSUME NEW d \in {"proceed", "cancel", "narrow_scope"}, AnswerCode(t, d) PROVE TypeOK'
  <2>1. CASE d = "proceed"
    <3> DEFINE given == [params[t] EXCEPT !.confirmed = TRUE]
    <3>0. PICK normal : Normal(given, normal) /\ SetParams(t, normal) /\ Goto(t, "run")
      BY <1>8, <2>1 DEF AnswerCode, ToTool, Normal
    <3>1. granted' = [granted EXCEPT ![t] = {params[t].arg}] /\ UNCHANGED <<over, how>>
      BY <1>8, <2>1 DEF AnswerCode
    <3>2. params[t].arg \in Codes /\ given \in Params /\ given.arg = params[t].arg
      BY <1>0, <1>8 DEF AnswerCode, TypeOK, Params
    <3>3. at' \in [Turns -> Stages] /\ params' \in [Turns -> Params] /\ ArgsFit'
      <4>1. normal \in Params BY <3>0, <3>2, NormalisedIs
      <4> QED BY <3>0, <4>1, SetTypes DEF Stages
    <3>4. granted' \in [Turns -> SUBSET Codes]
      BY <3>1, <3>2 DEF TypeOK
    <3> QED
      BY <1>8, <3>1, <3>3, <3>4 DEF AnswerCode, TypeOK, ArgsFit
  <2>2. CASE d # "proceed"
    BY <1>8, <2>2, LeaveTypes DEF AnswerCode, TypeOK, ArgsFit
  <2> QED
    BY <2>1, <2>2
<1>9. ASSUME NEW d \in {"proceed", "cancel", "narrow_scope"}, NEW rung \in Rungs,
             AnswerConfirm(t, d, rung)
      PROVE  TypeOK'
  <2>1. CASE d = "cancel"
    BY <1>9, <2>1, LeaveTypes DEF AnswerConfirm, TypeOK, ArgsFit
  <2>2. CASE d # "cancel"
    <3> DEFINE pinned == Pin(d, rung)
               area == params[t].arg
    <3>1. /\ SetParams(t, [params[t] EXCEPT !.res = pinned]) /\ Goto(t, "run")
          /\ how' = [how EXCEPT ![t] = "card"]
          /\ memory' = Remember(t, pinned)
          /\ approved' = [approved EXCEPT ![t][area] = pinned]
          /\ UNCHANGED <<over, granted>>
      BY <1>9, <2>2 DEF AnswerConfirm, Let
    <3>2. area \in Areas /\ pinned \in Rungs
      BY <1>9, <2>2, PinIsRung DEF AnswerConfirm, TypeOK
    <3> HIDE DEF pinned
    <3>3. [params[t] EXCEPT !.res = pinned] \in Params
      BY <1>0, <3>2
    <3>4. at' \in [Turns -> Stages] /\ params' \in [Turns -> Params] /\ ArgsFit'
      BY <3>1, <3>3, SetTypes DEF Stages
    <3>5. memory' \in [Areas -> [known : BOOLEAN, delta : Deltas]]
      BY <3>1, <3>2 DEF Remember, TypeOK, Deltas
    <3>6. approved' \in [Turns -> [Areas -> Deltas]]
      BY <3>1, <3>2 DEF TypeOK, Deltas
    <3> QED
      BY <1>9, <3>1, <3>4, <3>5, <3>6 DEF AnswerConfirm, TypeOK, ArgsFit
  <2> QED
    BY <2>1, <2>2
<1>10. ASSUME NEW p \in Params, Propose(t, p) PROVE TypeOK'
  <2>1. at' \in [Turns -> Stages] /\ params' \in [Turns -> Params] /\ ArgsFit'
    BY <1>10, SetTypes DEF Propose, Stages
  <2>2. calls' \in [Turns -> 0..MaxCalls]
    BY <1>10, GatesAssumption DEF Propose, TypeOK
  <2> QED
    BY <1>10, <2>1, <2>2 DEF Propose, TypeOK, ArgsFit
<1> QED
  BY <1>1, <1>2, <1>3, <1>4, <1>5, <1>6, <1>7, <1>8, <1>9, <1>10 DEF Step

\* What a step leaves alone of the other turns.
LEMMA OthersKeep ==
    ASSUME TypeOK, NEW t \in Turns, Step(t), NEW u \in Turns, u # t
    PROVE  /\ at'[u] = at[u] /\ params'[u] = params[u] /\ over'[u] = over[u] /\ granted'[u] = granted[u]
           /\ approved'[u] = approved[u] /\ how'[u] = how[u] /\ (u \in manual' <=> u \in manual)
<1> USE DEF TypeOK, Goto, SetParams, Let, Leave, ToTool
<1>1. CASE StartTurn(t) \/ StartManual(t) \/ EndTurn(t) \/ Expire(t) \/ Run(t)
  BY <1>1 DEF StartTurn, StartManual, EndTurn, Expire, Run
<1>2. CASE EstimatePayload(t) \/ GateCode(t) \/ ReuseLayer(t) \/ ReplayDecision(t) \/ EstimateFetch(t)
  BY <1>2 DEF EstimatePayload, GateCode, ReuseLayer, ReplayDecision, EstimateFetch
<1>3. CASE \E d \in {"proceed", "cancel", "narrow_scope"} : \E revised \in Params : AnswerPayload(t, d, revised)
  BY <1>3 DEF AnswerPayload
<1>4. CASE \E d \in {"proceed", "cancel", "narrow_scope"} : AnswerCode(t, d)
  BY <1>4 DEF AnswerCode
<1>5. CASE \E d \in {"proceed", "cancel", "narrow_scope"} : \E rung \in Rungs : AnswerConfirm(t, d, rung)
  BY <1>5 DEF AnswerConfirm
<1>6. CASE \E p \in Params : Propose(t, p)
  BY <1>6 DEF Propose
<1> QED
  BY <1>1, <1>2, <1>3, <1>4, <1>5, <1>6 DEF Step

\* The call is over: its locals are those of no call.
LEMMA LeaveGate ==
    ASSUME TypeOK, NEW t \in Turns, NEW s \in {"thinking", "done"}, Leave(t, s)
    PROVE  GateOf(t)'
  BY DEF Leave, Goto, SetParams, TypeOK, GateOf

LEMMA GateStep == ASSUME TypeOK, NEW t \in Turns, GateOf(t), Step(t) PROVE GateOf(t)'
<1>0. params[t].arg \in Areas => params[t].arg \notin Codes
  BY GatesAssumption
<1>1. CASE EndTurn(t) \/ Expire(t) \/ Run(t)
  BY <1>1, LeaveGate DEF EndTurn, Expire, Run
<1>2. CASE StartTurn(t) \/ StartManual(t)
  BY <1>2 DEF StartTurn, StartManual, GateOf, Goto, TypeOK
<1>3. CASE EstimatePayload(t)
  BY <1>3 DEF EstimatePayload, GateOf, Goto, TypeOK, AfterPayload
<1>4. CASE GateCode(t)
  <2> DEFINE stripped == [params[t] EXCEPT !.confirmed = FALSE]
  <2>1. /\ params[t] \in Params /\ params[t].arg \in Codes /\ stripped \in Params
        /\ stripped.arg = params[t].arg /\ stripped.confirmed = FALSE
    <3>1. params[t] \in Params /\ params[t].arg \in Codes BY <1>4 DEF GateCode, TypeOK
    <3> QED BY <3>1, FlagSet
  <2>2. CASE params[t].arg = Empty
    <3>1. PICK normal : Normal(stripped, normal) /\ SetParams(t, normal) /\ Goto(t, "run")
      BY <1>4, <2>2 DEF GateCode, ToTool, Normal
    <3>2. params'[t] = normal /\ at'[t] = "run" BY <3>1 DEF SetParams, Goto, TypeOK
    <3> HIDE DEF stripped
    <3>3. PlainlyNamed(normal) => normal.arg = Empty /\ normal.confirmed = FALSE
      BY <3>1, <2>1, <2>2, NormalisedIs
    <3> QED BY <3>2, <3>3 DEF GateOf
  <2>3. CASE params[t].arg # Empty
    <3>1. params'[t] = stripped /\ at'[t] = "codeCard" BY <1>4, <2>3 DEF GateCode, SetParams, Goto, TypeOK
    <3> QED BY <2>1, <3>1 DEF GateOf
  <2> QED BY <2>2, <2>3
<1>5. CASE ReuseLayer(t) \/ EstimateFetch(t)
  BY <1>0, <1>5 DEF ReuseLayer, EstimateFetch, Let, Goto, TypeOK, GateOf
<1>6. CASE ReplayDecision(t)
  <2> DEFINE delta == memory[params[t].arg].delta
             p == IF delta = Nothing THEN params[t] ELSE [params[t] EXCEPT !.res = delta]
  <2>1. /\ at[t] = "confirm" /\ at'[t] = "run" /\ over' = over /\ params'[t] = p
        /\ params[t].arg \in Areas /\ params[t] \in Params
    BY <1>6 DEF ReplayDecision, Let, Goto, SetParams, TypeOK
  <2>2. p.arg = params[t].arg
    BY <2>1 DEF Params
  <2> QED
    BY <1>0, <2>1, <2>2 DEF GateOf
<1>7. ASSUME NEW d \in {"proceed", "cancel", "narrow_scope"}, NEW revised \in Params,
             AnswerPayload(t, d, revised)
      PROVE  GateOf(t)'
  <2>1. CASE PayloadAccepts(t, d)
    <3>1. at'[t] \in {"code", "confirm"}
      BY <1>7, <2>1 DEF AnswerPayload, Goto, TypeOK, AfterPayload
    <3> QED
      BY <3>1 DEF GateOf
  <2>2. CASE ~PayloadAccepts(t, d)
    BY <1>7, <2>2, LeaveGate DEF AnswerPayload
  <2> QED
    BY <2>1, <2>2
<1>8. ASSUME NEW d \in {"proceed", "cancel", "narrow_scope"}, AnswerCode(t, d) PROVE GateOf(t)'
  <2>1. CASE d = "proceed"
    <3> DEFINE given == [params[t] EXCEPT !.confirmed = TRUE]
    <3>1. PICK normal : Normal(given, normal) /\ SetParams(t, normal) /\ Goto(t, "run")
      BY <1>8, <2>1 DEF AnswerCode, ToTool, Normal
    <3>2. at'[t] = "run" /\ params'[t] = normal /\ granted'[t] = {params[t].arg}
      BY <1>8, <2>1, <3>1 DEF AnswerCode, Goto, SetParams, TypeOK
    <3>3. params[t].arg \in Codes /\ given \in Params /\ given.arg = params[t].arg /\ given.confirmed = TRUE
      <4>1. params[t] \in Params /\ params[t].arg \in Codes BY <1>8 DEF AnswerCode, TypeOK
      <4> QED BY <4>1, FlagSet
    <3> HIDE DEF given
    <3>4. PlainlyNamed(normal) => normal.arg = params[t].arg /\ normal.confirmed = TRUE
      BY <3>1, <3>3, NormalisedIs
    <3> QED
      BY <3>2, <3>4 DEF GateOf
  <2>2. CASE d # "proceed"
    BY <1>8, <2>2, LeaveGate DEF AnswerCode
  <2> QED
    BY <2>1, <2>2
<1>9. ASSUME NEW d \in {"proceed", "cancel", "narrow_scope"}, NEW rung \in Rungs,
             AnswerConfirm(t, d, rung)
      PROVE  GateOf(t)'
  <2>1. CASE d = "cancel"
    BY <1>9, <2>1, LeaveGate DEF AnswerConfirm
  <2>2. CASE d # "cancel"
    <3>1. /\ at[t] = "confirmCard" /\ at'[t] = "run" /\ over' = over /\ params[t].arg \in Areas
          /\ params'[t] = [params[t] EXCEPT !.res = Pin(d, rung)]
      BY <1>9, <2>2 DEF AnswerConfirm, Let, Goto, SetParams, TypeOK
    <3>2. params'[t].arg = params[t].arg
      BY <3>1 DEF TypeOK, Params
    <3> QED
      BY <1>0, <3>1, <3>2 DEF GateOf
  <2> QED
    BY <2>1, <2>2
<1>10. ASSUME NEW p \in Params, Propose(t, p) PROVE GateOf(t)'
  BY <1>10 DEF Propose, Goto, TypeOK, GateOf
<1> QED
  BY <1>1, <1>2, <1>3, <1>4, <1>5, <1>6, <1>7, <1>8, <1>9, <1>10 DEF Step

-----------------------------------------------------------------------------
\* A turn that starts beside another makes both of them crowded.
LEMMA AloneStep == ASSUME TypeOK, AloneInv, NEW t \in Turns, Step(t) PROVE AloneInv' /\ crowded \subseteq crowded'
<1>1. CASE StartTurn(t) \/ StartManual(t)
  <2>1. at' = [at EXCEPT ![t] = "thinking"] /\ at[t] = "off"
    BY <1>1 DEF StartTurn, StartManual, Goto
  <2> DEFINE others == {u \in Turns : Active(u)}
  <2>2. crowded' = IF others = {} THEN crowded ELSE crowded \cup others \cup {t}
    BY <1>1 DEF StartTurn, StartManual, Crowd
  <2> QED
    BY <2>1, <2>2 DEF AloneInv, Active, TypeOK
<1>2. CASE ~(StartTurn(t) \/ StartManual(t))
  <2>1. crowded' = crowded
    BY <1>2 DEF Step, EndTurn, EstimatePayload, GateCode, ReuseLayer, ReplayDecision,
         EstimateFetch, AnswerPayload, AnswerCode, AnswerConfirm, Expire, Run, Propose
  <2>2. Active(t)
    BY <1>2 DEF Step, EndTurn, EstimatePayload, GateCode, ReuseLayer, ReplayDecision, Active,
         EstimateFetch, AnswerPayload, AnswerCode, AnswerConfirm, Expire, Run, Propose, Cards
  <2>3. \A u \in Turns : u # t => at'[u] = at[u]
    BY OthersKeep
  <2> QED
    BY <2>1, <2>2, <2>3 DEF AloneInv, Active
<1> QED
  BY <1>1, <1>2

\* The call is over: the memory and the approvals stay.
LEMMA LeaveMemory ==
    ASSUME TypeOK, NEW t \in Turns, MemoryOf(t), Active(t), NEW s \in {"thinking", "done"}, Leave(t, s),
           memory' = memory, approved' = approved, manual' = manual
    PROVE  MemoryOf(t)'
  BY DEF Leave, Goto, TypeOK, MemoryOf, Active

\* The memory of the turn that steps.
LEMMA MemoryStep == ASSUME TypeOK, NEW t \in Turns, MemoryOf(t), SkipOf(t), Step(t) PROVE MemoryOf(t)'
<1>1. CASE EndTurn(t) \/ Expire(t) \/ Run(t)
  BY <1>1, LeaveMemory DEF EndTurn, Expire, Run, Active, Cards
<1>2. CASE StartTurn(t) \/ StartManual(t)
  BY <1>2 DEF StartTurn, StartManual, MemoryOf, NoMemory, Goto, TypeOK, Active
<1>3. CASE EstimatePayload(t) \/ GateCode(t) \/ \E p \in Params : Propose(t, p)
  <2>1. /\ UNCHANGED <<memory, approved, how, manual>> /\ Active(t) /\ at[t] # "run"
        /\ at'[t] \in {"payload", "code", "confirm", "payloadCard", "codeCard"}
           \/ (at'[t] = "run" /\ at[t] = "code")
    BY <1>3 DEF EstimatePayload, GateCode, ToTool, Propose, Goto, TypeOK, Active, AfterPayload
  <2> QED
    BY <2>1 DEF MemoryOf, SkipOf, Active
<1>4. CASE ReuseLayer(t) \/ EstimateFetch(t)
  <2>1. /\ UNCHANGED <<memory, approved, params, manual>>
        /\ at[t] = "confirm" /\ params[t].arg \in Areas
        /\ \/ at'[t] = "run" /\ how'[t] \in {"reuse", "open"}
           \/ at'[t] = "confirmCard" /\ how'[t] = how[t] /\ ~memory[params[t].arg].known
    BY <1>4 DEF ReuseLayer, EstimateFetch, Let, Goto, TypeOK
  <2> QED
    BY <2>1 DEF MemoryOf, Active
<1>5. CASE ReplayDecision(t)
  <2> DEFINE area == params[t].arg
             delta == memory[area].delta
             p == IF delta = Nothing THEN params[t] ELSE [params[t] EXCEPT !.res = delta]
  <2>1. /\ UNCHANGED <<memory, approved, manual>> /\ at[t] = "confirm" /\ at'[t] = "run"
        /\ area \in Areas /\ memory[area].known /\ params'[t] = p /\ params[t] \in Params
    BY <1>5 DEF ReplayDecision, Let, Goto, SetParams, TypeOK
  <2>2. p.arg = area /\ (delta # Nothing => p.res = delta)
    BY <2>1 DEF Params
  <2> HIDE DEF p
  <2> QED
    BY <2>1, <2>2 DEF MemoryOf, Active
<1>6. ASSUME NEW d \in {"proceed", "cancel", "narrow_scope"}, NEW revised \in Params,
             AnswerPayload(t, d, revised)
      PROVE  MemoryOf(t)'
  <2>1. CASE PayloadAccepts(t, d)
    <3>1. /\ UNCHANGED <<memory, approved, how, manual>> /\ at[t] = "payloadCard"
          /\ at'[t] \in {"code", "confirm"}
      BY <1>6, <2>1 DEF AnswerPayload, Goto, TypeOK, AfterPayload
    <3> QED
      BY <3>1 DEF MemoryOf, Active
  <2>2. CASE ~PayloadAccepts(t, d)
    BY <1>6, <2>2, LeaveMemory DEF AnswerPayload, Active
  <2> QED
    BY <2>1, <2>2
<1>7. ASSUME NEW d \in {"proceed", "cancel", "narrow_scope"}, AnswerCode(t, d) PROVE MemoryOf(t)'
  <2>1. CASE d = "proceed"
    <3>1. UNCHANGED <<memory, approved, how, manual>> /\ at[t] = "codeCard" /\ at'[t] = "run"
      BY <1>7, <2>1 DEF AnswerCode, ToTool, Normal, Goto, TypeOK
    <3> QED
      BY <3>1 DEF MemoryOf, SkipOf, Active
  <2>2. CASE d # "proceed"
    BY <1>7, <2>2, LeaveMemory DEF AnswerCode, Active
  <2> QED
    BY <2>1, <2>2
<1>8. ASSUME NEW d \in {"proceed", "cancel", "narrow_scope"}, NEW rung \in Rungs,
             AnswerConfirm(t, d, rung)
      PROVE  MemoryOf(t)'
  <2>1. CASE d = "cancel"
    BY <1>8, <2>1, LeaveMemory DEF AnswerConfirm, Active
  <2>2. CASE d # "cancel"
    <3> DEFINE pinned == Pin(d, rung)
               area == params[t].arg
    <3>1. /\ at[t] = "confirmCard" /\ at'[t] = "run" /\ how'[t] = "card"
          /\ memory' = Remember(t, pinned)
          /\ approved' = [approved EXCEPT ![t][area] = pinned] /\ manual' = manual
      BY <1>8, <2>2 DEF AnswerConfirm, Let, Goto, TypeOK
    <3>2. area \in Areas /\ pinned \in Rungs /\ pinned # Nothing
      BY <2>2, <3>1, PinIsRung, GatesAssumption DEF TypeOK
    <3> HIDE DEF pinned
    <3>3. /\ approved'[t][area] = pinned
          /\ memory'[area].known /\ memory'[area].delta \in {Nothing, pinned}
      BY <3>1, <3>2 DEF Remember, TypeOK
    <3>4. \A a \in Areas : a # area => approved'[t][a] = approved[t][a] /\ memory'[a] = memory[a]
      BY <3>1, <3>2 DEF Remember, TypeOK
    <3> QED
      BY <3>1, <3>2, <3>3, <3>4 DEF MemoryOf, Active
  <2> QED
    BY <2>1, <2>2
<1> QED
  BY <1>1, <1>2, <1>3, <1>4, <1>5, <1>6, <1>7, <1>8 DEF Step

\* A turn that stays alone: another one can neither start nor step beside it.
LEMMA OtherMemory ==
    ASSUME TypeOK, AloneInv, NEW t \in Turns, Step(t),
           NEW u \in Turns, u # t, u \notin crowded', MemoryOf(u)
    PROVE  MemoryOf(u)'
<1>1. /\ at'[u] = at[u] /\ params'[u] = params[u] /\ approved'[u] = approved[u] /\ how'[u] = how[u]
      /\ u \in manual' <=> u \in manual
  BY OthersKeep
<1>2. ~Active(u)
  <2>1. CASE StartTurn(t) \/ StartManual(t)
    BY <2>1 DEF StartTurn, StartManual, Crowd
  <2>2. CASE ~(StartTurn(t) \/ StartManual(t))
    <3>1. Active(t)
      BY <2>2 DEF Step, EndTurn, EstimatePayload, GateCode, ReuseLayer, ReplayDecision, Active,
           EstimateFetch, AnswerPayload, AnswerCode, AnswerConfirm, Expire, Run, Propose, Cards
    <3> QED
      BY <3>1, AloneStep DEF AloneInv
  <2> QED
    BY <2>1, <2>2
<1> QED
  BY <1>1, <1>2 DEF MemoryOf, Active

\* An approval is not taken back.
LEMMA ApprovalsStay ==
    ASSUME TypeOK, NEW t \in Turns, Step(t), NEW u \in Turns, NEW a \in Areas, approved[u][a] # Nothing
    PROVE  approved'[u][a] # Nothing
<1>1. CASE approved' = approved BY <1>1
<1>2. ASSUME NEW d \in {"proceed", "cancel", "narrow_scope"}, NEW rung \in Rungs, AnswerConfirm(t, d, rung)
      PROVE  approved'[u][a] # Nothing
  <2>1. CASE d = "cancel" BY <1>2, <2>1 DEF AnswerConfirm
  <2>2. CASE d # "cancel"
    <3>1. Pin(d, rung) # Nothing BY <2>2, PinIsRung, GatesAssumption
    <3>2. approved' = [approved EXCEPT ![t][params[t].arg] = Pin(d, rung)] BY <1>2, <2>2 DEF AnswerConfirm
    <3> QED BY <3>1, <3>2 DEF TypeOK
  <2> QED BY <2>1, <2>2
<1> QED
  BY <1>1, <1>2 DEF Step, StartTurn, StartManual, EndTurn, EstimatePayload, GateCode, ReuseLayer,
     ReplayDecision, EstimateFetch, AnswerPayload, AnswerCode, Expire, Run, Propose

\* What is remembered was approved.
LEMMA ApprovedStep ==
    ASSUME TypeOK, NEW t \in Turns, Step(t), NEW a \in Areas, Approved(a) PROVE Approved(a)'
<1>1. CASE UNCHANGED <<memory, approved>> BY <1>1 DEF Approved
<1>2. CASE memory' = NoMemory BY <1>2 DEF Approved, NoMemory
<1>3. ASSUME NEW d \in {"proceed", "narrow_scope"}, NEW rung \in Rungs, AnswerConfirm(t, d, rung)
      PROVE  Approved(a)'
  <2> DEFINE pinned == Pin(d, rung)
             area == params[t].arg
  <2>1. memory' = Remember(t, pinned) /\ approved' = [approved EXCEPT ![t][area] = pinned]
    BY <1>3 DEF AnswerConfirm
  <2>2. area \in Areas /\ pinned \in Rungs /\ pinned # Nothing
    BY <1>3, PinIsRung, GatesAssumption DEF AnswerConfirm, TypeOK
  <2> HIDE DEF pinned
  <2>3. CASE a = area
    <3>1. memory'[a].known /\ memory'[a].delta \in {Nothing, pinned} /\ approved'[t][a] = pinned
      BY <2>1, <2>2, <2>3 DEF Remember, TypeOK
    <3> QED BY <2>2, <3>1 DEF Approved
  <2>4. CASE a # area
    <3>1. memory'[a] = memory[a] /\ \A u \in Turns : approved'[u][a] = approved[u][a]
      BY <2>1, <2>2, <2>4 DEF Remember, TypeOK
    <3> QED BY <3>1 DEF Approved
  <2> QED BY <2>3, <2>4
<1>4. \/ UNCHANGED <<memory, approved>> \/ memory' = NoMemory
      \/ \E d \in {"proceed", "narrow_scope"} : \E rung \in Rungs : AnswerConfirm(t, d, rung)
  BY DEF Step, StartTurn, StartManual, EndTurn, EstimatePayload, GateCode, ReuseLayer,
     ReplayDecision, EstimateFetch, AnswerPayload, AnswerCode, AnswerConfirm, Expire, Run, Propose
<1> QED BY <1>1, <1>2, <1>3, <1>4

\* A card is skipped for what is remembered.
LEMMA SkipStep ==
    ASSUME TypeOK, NEW t \in Turns, Step(t), SkipOf(t), \A a \in Areas : Approved(a) PROVE SkipOf(t)'
<1>1. CASE EndTurn(t) \/ Expire(t) \/ Run(t)
  BY <1>1 DEF EndTurn, Expire, Run, Leave, Goto, TypeOK, SkipOf
<1>2. CASE StartTurn(t) \/ StartManual(t) \/ EstimatePayload(t) \/ \E p \in Params : Propose(t, p)
  <2>1. how' = how /\ at'[t] # "run" /\ at[t] # "run"
    BY <1>2 DEF StartTurn, StartManual, EstimatePayload, Propose, Goto, TypeOK, AfterPayload
  <2> QED BY <2>1 DEF SkipOf
<1>3. CASE GateCode(t)
  <2>1. how' = how /\ at[t] = "code" BY <1>3 DEF GateCode
  <2> QED BY <2>1 DEF SkipOf
<1>4. CASE ReuseLayer(t) \/ EstimateFetch(t)
  <2>1. \/ at'[t] = "run" /\ how'[t] \in {"reuse", "open"}
        \/ at'[t] = "confirmCard" /\ how' = how /\ at[t] = "confirm"
    BY <1>4 DEF ReuseLayer, EstimateFetch, Let, Goto, TypeOK
  <2> QED BY <2>1 DEF SkipOf
<1>5. CASE ReplayDecision(t)
  <2>1. /\ params[t].arg \in Areas /\ memory[params[t].arg].known /\ params[t] \in Params
        /\ approved' = approved /\ at'[t] = "run"
        /\ params'[t].arg = params[t].arg
    BY <1>5 DEF ReplayDecision, Let, Goto, SetParams, TypeOK, Params
  <2> QED BY <2>1 DEF SkipOf, Approved
<1>6. CASE \E d \in {"proceed", "cancel", "narrow_scope"} : \E revised \in Params : AnswerPayload(t, d, revised)
  <2>1. at[t] = "payloadCard" /\ at'[t] # "run" /\ (how'[t] = "none" \/ how' = how)
    BY <1>6 DEF AnswerPayload, Leave, Goto, TypeOK, AfterPayload
  <2> QED BY <2>1 DEF SkipOf
<1>7. CASE \E d \in {"proceed", "cancel", "narrow_scope"} : AnswerCode(t, d)
  <2>1. at[t] = "codeCard" /\ (how'[t] = "none" \/ how' = how)
    BY <1>7 DEF AnswerCode, Leave, TypeOK
  <2> QED BY <2>1 DEF SkipOf
<1>8. CASE \E d \in {"proceed", "cancel", "narrow_scope"} : \E rung \in Rungs : AnswerConfirm(t, d, rung)
  <2>1. \/ at'[t] # "run" /\ how'[t] = "none"
        \/ at'[t] = "run" /\ how'[t] = "card"
    BY <1>8 DEF AnswerConfirm, Leave, Let, Goto, TypeOK
  <2> QED BY <2>1 DEF SkipOf
<1> QED BY <1>1, <1>2, <1>3, <1>4, <1>5, <1>6, <1>7, <1>8 DEF Step

LEMMA InvInit == Init => Inv
<1> SUFFICES ASSUME Init PROVE Inv
  OBVIOUS
<1>1. TypeOK
  BY ParamsFacts, GatesAssumption DEF Init, TypeOK, Stages, NoMemory, Deltas, ParamsOK
<1> QED
  BY <1>1 DEF Init, Inv, AloneInv, Active, GateOf, SkipOf, Approved, NoMemory, MemoryOf

LEMMA InvStep == Inv /\ [Next]_vars => Inv'
<1> SUFFICES ASSUME Inv, [Next]_vars PROVE Inv'
  OBVIOUS
<1>1. CASE UNCHANGED vars
  BY <1>1 DEF vars, Inv, TypeOK, AloneInv, Active, GateOf, SkipOf, Approved, MemoryOf
<1>2. ASSUME NEW t \in Turns, Step(t) PROVE Inv'
  <2>1. TypeOK' /\ AloneInv' /\ crowded \subseteq crowded'
    BY <1>2, TypeStep, AloneStep DEF Inv
  <2>2. ASSUME NEW u \in Turns PROVE GateOf(u)'
    <3>1. CASE u = t
      BY <1>2, <3>1, GateStep DEF Inv
    <3>2. CASE u # t
      <4>1. at'[u] = at[u] /\ params'[u] = params[u] /\ over'[u] = over[u] /\ granted'[u] = granted[u]
        BY <1>2, <3>2, OthersKeep DEF Inv
      <4> QED
        BY <4>1 DEF Inv, GateOf
    <3> QED
      BY <3>1, <3>2
  <2>4. \A a \in Areas : Approved(a)' BY <1>2, ApprovedStep DEF Inv
  <2>5. ASSUME NEW u \in Turns PROVE SkipOf(u)'
    <3>1. CASE u = t BY <1>2, <3>1, SkipStep DEF Inv
    <3>2. CASE u # t
      <4>1. at'[u] = at[u] /\ params'[u] = params[u] /\ how'[u] = how[u]
        BY <1>2, <3>2, OthersKeep DEF Inv
      <4> QED BY <1>2, <4>1, ApprovalsStay DEF Inv, SkipOf
    <3> QED BY <3>1, <3>2
  <2>3. ASSUME NEW u \in Turns \ crowded' PROVE MemoryOf(u)'
    <3>1. MemoryOf(u)
      BY <2>1, <2>3 DEF Inv
    <3>2. CASE u = t
      BY <1>2, <3>1, <3>2, MemoryStep DEF Inv
    <3>3. CASE u # t
      BY <1>2, <2>3, <3>1, <3>3, OtherMemory DEF Inv
    <3> QED
      BY <3>2, <3>3
  <2> QED
    BY <2>1, <2>2, <2>3, <2>4, <2>5 DEF Inv
<1> QED
  BY <1>1, <1>2, NextIsStep

LEMMA InvHolds == Spec => []Inv
  BY InvInit, InvStep, PTL DEF Spec

-----------------------------------------------------------------------------
(* Every reachable state is well typed: the code gate only ever sees code, and
   the confirmation an area. *)
THEOREM TypeCorrect == Spec => []TypeOK
<1>1. Inv => TypeOK
  BY DEF Inv
<1> QED
  BY <1>1, InvHolds, PTL

(* Of the calls that name their arguments as the tool declares them none runs code as
   confirmed that the user did not approve in that very call, for any code the model
   proposes and any reply. *)
THEOREM ApprovedCodeRuns == Spec => []CodeRunsAsApproved
<1>1. Inv => CodeRunsAsApproved
  BY DEF Inv, GateOf, CodeRunsAsApproved
<1> QED
  BY <1>1, InvHolds, PTL

(* A card is skipped only on an approval, which is the turn's own if it is a chat turn
   alone on the connection, for any number of earlier turns and calls. *)
THEOREM OwnReplays == Spec => []ReplaysOwnApproval
<1>1. Inv => ReplaysOwnApproval
  <2> SUFFICES ASSUME Inv, NEW t \in Turns, at[t] = "run", how[t] = "memory"
               PROVE  \E u \in (IF t \in crowded \cup manual THEN Turns ELSE {t}) :
                        /\ approved[u][params[t].arg] # Nothing
                        /\ t \notin crowded /\ memory[params[t].arg].delta # Nothing =>
                              params[t].res = approved[u][params[t].arg]
    BY DEF ReplaysOwnApproval
  <2> DEFINE area == params[t].arg
  <2>1. area \in Areas /\ \E u \in Turns : approved[u][area] # Nothing BY DEF Inv, SkipOf
  <2>2. CASE t \in crowded BY <2>1, <2>2
  <2>3. CASE t \notin crowded
    <3>1. memory[area].known /\ (memory[area].delta # Nothing => params[t].res = memory[area].delta)
      BY <2>3 DEF Inv, MemoryOf
    <3>2. CASE t \in manual
      <4>1. PICK u \in Turns :
              approved[u][area] # Nothing /\ (memory[area].delta # Nothing => memory[area].delta = approved[u][area])
        BY <2>1, <3>1 DEF Inv, Approved
      <4> QED BY <3>1, <3>2, <4>1
    <3>3. CASE t \notin manual
      <4>1. approved[t][area] # Nothing /\ memory[area].delta \in {Nothing, approved[t][area]}
        BY <2>1, <2>3, <3>1, <3>3 DEF Inv, MemoryOf, Active
      <4> QED BY <2>3, <3>1, <3>3, <4>1
    <3> QED BY <3>2, <3>3
  <2> QED BY <2>2, <2>3
<1> QED
  BY <1>1, InvHolds, PTL

\* A turn alone on the connection asks about an area once.
THEOREM AsksOnce == Spec => []AskedOncePerTurn
<1>1. Inv => AskedOncePerTurn
  BY DEF Inv, MemoryOf, AskedOncePerTurn
<1> QED
  BY <1>1, InvHolds, PTL

-----------------------------------------------------------------------------
\* A mesh under review.

\* The mesh, its display and its journal agree with the recipe.
MeshFits(s) ==
    /\ IF note[s] THEN mesh[s] = Hand /\ adopted[s] ELSE mesh[s] \in {None, Build(recipe[s])}
    /\ face[s] \in {None, mesh[s]}
    /\ mesh[s] # None /\ ~adopted[s] => journal[s] = recipe[s]

\* What a thread on the session has in hand.
JobFits(w, s) ==
    /\ job[w].at \in {"ensure", "build", "face", "write", "shown"}
    /\ job[w].at = "build" => mesh[s] = None /\ job[w].holds = Build(recipe[s])
    /\ job[w].at = "face" => mesh[s] # None
    /\ job[w].at \in {"write", "shown"} => job[w].holds = mesh[s] /\ mesh[s] # None
    /\ job[w].at = "shown" => face[s] = mesh[s]

ArtFits(s) ==
    \A a \in art[s] :
        /\ a.mesh = IF a.note THEN Hand ELSE Build(a.recipe)
        /\ a.face = a.mesh
        /\ a.replays # Hand => a.replays = a.mesh

OneThread(s) == \A v, w \in Threads : job[v].on = s /\ job[w].on = s => v = w

Fits(s) ==
    /\ MeshFits(s) /\ ArtFits(s) /\ OneThread(s)
    /\ \A w \in Threads : job[w].on = s => JobFits(w, s)

\* A thread of a review works on its own mesh; one at work has a mesh to work on.
JobsFit ==
    /\ \A s \in Sessions : job[s] = Idle \/ job[s].on = s
    /\ \A w \in Threads : job[w] = Idle \/ (job[w].on \in Sessions /\ job[w].at # "idle")

MeshInv == MeshTypeOK /\ JobsFit /\ \A s \in Sessions \ raced : Fits(s)

-----------------------------------------------------------------------------
\* The names of meshes are all different.
LEMMA MeshFacts ==
    /\ Hand # None /\ Hand \in Meshes /\ None \in Meshes
    /\ \A r \in Recipes : Build(r) \in Meshes /\ Build(r) # Hand /\ Build(r) # None
    /\ \A r, q \in Recipes : Build(r) = Build(q) => r = q
    /\ Declared \in Recipes
<1>1. /\ Hand # None /\ \A r \in Recipes : Build(r) # Hand /\ Build(r) # None
      /\ \A r, q \in Recipes : Build(r) = Build(q) => r = q
  BY DEF Hand, None, Build
<1>2. Hand \in Meshes /\ None \in Meshes /\ \A r \in Recipes : Build(r) \in Meshes
  BY DEF Meshes
<1>3. Declared \in Recipes
  BY DEF Declared, Recipes
<1> QED
  BY <1>1, <1>2, <1>3

Jobs == [at : {"idle", "ensure", "build", "face", "rebuild", "write", "shown"},
         on : Sessions \cup {NoSession}, holds : Meshes]

LEMMA IdleIsJob == Idle \in Jobs /\ Idle.on = NoSession /\ Idle.at = "idle"
  BY MeshFacts DEF Idle, Jobs

\* The parts of MeshTypeOK that Regenerate and Begin touch.
LEMMA BeginTypes ==
    ASSUME MeshTypeOK, NEW w \in Threads, NEW s \in Sessions, Begin(w, s)
    PROVE  job' \in [Threads -> Jobs] /\ raced' \subseteq Sessions
<1>1. [at |-> "ensure", on |-> s, holds |-> None] \in Jobs
  BY MeshFacts DEF Jobs
<1> QED
  BY <1>1 DEF Begin, MeshTypeOK, Jobs

LEMMA RegenerateTypes ==
    ASSUME MeshTypeOK, NEW w \in Threads, NEW s \in Sessions, NEW r \in Recipes, Regenerate(w, s, r)
    PROVE  /\ recipe' \in [Sessions -> Recipes] /\ mesh' \in [Sessions -> Meshes]
           /\ face' \in [Sessions -> Meshes] /\ job' \in [Threads -> Jobs] /\ raced' \subseteq Sessions
<1>1. recipe' \in [Sessions -> Recipes]
  BY DEF Regenerate, MeshTypeOK
<1>2. CASE note[s]
  BY <1>1, <1>2 DEF Regenerate, MeshTypeOK, Jobs
<1>3. CASE ~note[s]
  <2>1. Begin(w, s) /\ mesh' = [mesh EXCEPT ![s] = None] /\ face' = [face EXCEPT ![s] = None]
    BY <1>3 DEF Regenerate
  <2>2. mesh' \in [Sessions -> Meshes] /\ face' \in [Sessions -> Meshes]
    BY <2>1, MeshFacts DEF MeshTypeOK
  <2> QED
    BY <1>1, <2>1, <2>2, BeginTypes
<1> QED
  BY <1>2, <1>3

\* The steps of a thread, and the replies of a user.
LEMMA NextCases ==
    ASSUME [MeshNext]_meshVars
    PROVE  \/ \E s \in Sessions : OpenGate(s) \/ Reply(s) \/ Replaced(s) \/ Revised(s)
                                   \/ Present(s) \/ Accept(s)
           \/ \E w \in Threads : \/ MeshOp(w) \/ Ensure(w) \/ Built(w) \/ BuildFails(w)
                                 \/ Face(w) \/ EditDone(w)
           \/ UNCHANGED meshVars
  BY DEF MeshNext, Work, AllClosed

LEMMA FreezeIsArtifact == ASSUME MeshTypeOK, NEW s \in Sessions PROVE Freeze(s) \in Artifacts
<1>1. s \in Threads /\ job[s] \in Jobs /\ mesh[s] \in Meshes /\ face[s] \in Meshes
  BY DEF MeshTypeOK, Threads, Jobs
<1>2. job[s].holds \in Meshes /\ (job[s].at = "write" => Displayed(s)[s] \in Meshes)
  BY <1>1 DEF Jobs, Displayed, MeshTypeOK
<1>3. Displayed(s)[s] \in Meshes
  BY <1>1, <1>2 DEF Displayed
<1>4. (IF adopted[s] THEN Hand ELSE Build(journal[s])) \in Meshes
  BY MeshFacts DEF MeshTypeOK
<1> QED
  BY <1>2, <1>3, <1>4 DEF Freeze, Artifacts, MeshTypeOK

\* Every step keeps the types.
LEMMA MeshTypeStep == MeshTypeOK /\ JobsFit /\ [MeshNext]_meshVars => MeshTypeOK'
<1> SUFFICES ASSUME MeshTypeOK, JobsFit, [MeshNext]_meshVars PROVE MeshTypeOK'
  OBVIOUS
<1>0. /\ Sessions \subseteq Threads /\ job \in [Threads -> Jobs]
      /\ MeshTypeOK' <=> /\ gate' \in [Sessions -> {"off", "present", "card", "revise", "adopt", "accept", "accepted", "refused"}]
                     /\ round' \in [Sessions -> 0..MaxRounds]
                     /\ atGate' \in Sessions \cup {NoSession}
                     /\ recipe' \in [Sessions -> Recipes]
                     /\ mesh' \in [Sessions -> Meshes]
                     /\ face' \in [Sessions -> Meshes]
                     /\ note' \in [Sessions -> BOOLEAN]
                     /\ adopted' \in [Sessions -> BOOLEAN]
                     /\ journal' \in [Sessions -> Recipes]
                     /\ job' \in [Threads -> Jobs]
                     /\ art' \in [Sessions -> SUBSET Artifacts]
                     /\ raced' \subseteq Sessions
  BY DEF MeshTypeOK, Jobs, Threads
<1>1. ASSUME NEW s \in Sessions, OpenGate(s) PROVE MeshTypeOK'
  <2>1. job' \in [Threads -> Jobs] /\ raced' \subseteq Sessions
    BY <1>0, <1>1, BeginTypes DEF OpenGate
  <2>2. round' \in [Sessions -> 0..MaxRounds]
    BY <1>1, MeshAssumption DEF OpenGate, MeshTypeOK
  <2>3. /\ gate' \in [Sessions -> {"off", "present", "card", "revise", "adopt", "accept", "accepted", "refused"}]
        /\ atGate' \in Sessions \cup {NoSession}
    BY <1>1 DEF OpenGate, SetGate, MeshTypeOK
  <2> QED
    BY <1>0, <1>1, <2>1, <2>2, <2>3 DEF OpenGate, MeshTypeOK
<1>2. ASSUME NEW s \in Sessions, Proceed(s) \/ Adopt(s) \/ Decline(s) PROVE MeshTypeOK'
  <2>1. CASE Proceed(s) \/ Adopt(s)
    <3>1. job' \in [Threads -> Jobs] /\ raced' \subseteq Sessions
      BY <1>0, <2>1, BeginTypes DEF Proceed, Adopt
    <3> QED
      BY <1>0, <2>1, <3>1 DEF Proceed, Adopt, SetGate, MeshTypeOK
  <2>2. CASE Decline(s)
    BY <1>0, <2>2 DEF Decline, Refuse, SetGate, MeshTypeOK
  <2> QED
    BY <1>2, <2>1, <2>2
<1>3. ASSUME NEW s \in Sessions, Reset(s) PROVE MeshTypeOK'
  <2>1. job' \in [Threads -> Jobs] /\ raced' \subseteq Sessions
    BY <1>0, <1>3, BeginTypes DEF Reset
  <2>2. mesh' \in [Sessions -> Meshes] /\ face' \in [Sessions -> Meshes] /\ recipe' \in [Sessions -> Recipes]
    BY <1>3, MeshFacts DEF Reset, MeshTypeOK
  <2>3. note' \in [Sessions -> BOOLEAN] /\ adopted' \in [Sessions -> BOOLEAN] /\ journal' \in [Sessions -> Recipes]
    BY <1>3 DEF Reset, MeshTypeOK
  <2> QED
    BY <1>0, <1>3, <2>1, <2>2, <2>3 DEF Reset, SetGate, MeshTypeOK
<1>4. ASSUME NEW s \in Sessions, Resize(s) PROVE MeshTypeOK'
  <2>1. PICK r \in Recipes : Regenerate(s, s, r)
    BY <1>4 DEF Resize, MeshTypeOK, Recipes
  <2> QED
    BY <1>0, <1>4, <2>1, RegenerateTypes DEF Resize, Refuse, SetGate, MeshTypeOK
<1>5. ASSUME NEW w \in Threads, MeshOp(w) PROVE MeshTypeOK'
  <2>1. atGate \in Sessions
    BY <1>5 DEF MeshOp, MeshTypeOK
  <2>2. PICK r \in Recipes : Regenerate(w, atGate, r)
    BY <1>5, <2>1 DEF MeshOp, MeshTypeOK, Recipes
  <2> QED
    BY <1>0, <1>5, <2>1, <2>2, RegenerateTypes DEF MeshOp, MeshTypeOK
<1>6. ASSUME NEW w \in Threads, Ensure(w) \/ Face(w) \/ Built(w) PROVE MeshTypeOK'
  <2> DEFINE s == job[w].on
  <2>1. /\ s \in Sessions /\ Build(recipe[s]) \in Meshes /\ mesh[s] \in Meshes
        /\ job[w] \in Jobs /\ job[w].holds \in Meshes
    BY <1>0, <1>6, MeshFacts, IdleIsJob DEF JobsFit, Ensure, Face, Built, MeshTypeOK, Jobs
  <2>2. \A stage \in {"build", "face", "rebuild", "write", "shown"}, m \in Meshes :
           /\ [job[w] EXCEPT !.at = stage, !.holds = m] \in Jobs
           /\ [job[w] EXCEPT !.at = stage] \in Jobs
    BY <2>1 DEF Jobs
  <2> HIDE DEF s
  <2>3. PICK j \in Jobs : job' = [job EXCEPT ![w] = j]
    <3>1. CASE Ensure(w)
      BY <2>1, <2>2, <3>1 DEF Ensure, s
    <3>2. CASE Face(w)
      <4>1. \/ job' = [job EXCEPT ![w] = [job[w] EXCEPT !.at = "rebuild", !.holds = Build(recipe[s])]]
            \/ job' = [job EXCEPT ![w] = [job[w] EXCEPT !.at = "write", !.holds = mesh[s]]]
            \/ job' = [job EXCEPT ![w] = [job[w] EXCEPT !.at = "shown", !.holds = mesh[s]]]
        BY <3>2 DEF Face, s
      <4> QED
        BY <2>1, <2>2, <4>1
    <3>3. CASE Built(w)
      <4>1. job' = [job EXCEPT ![w] = [job[w] EXCEPT !.at = IF job[w].at = "build" THEN "face" ELSE "write"]]
        BY <3>3 DEF Built, Goes
      <4> QED
        BY <2>1, <2>2, <4>1
    <3> QED
      BY <1>6, <3>1, <3>2, <3>3
  <2>4. job' \in [Threads -> Jobs]
    BY <1>0, <2>3
  <2>5. CASE Ensure(w) \/ Face(w)
    BY <1>0, <2>4, <2>5 DEF Ensure, Face, MeshTypeOK
  <2>6. CASE Built(w)
    <3>1. mesh' = [mesh EXCEPT ![s] = job[w].holds] /\ journal' = [journal EXCEPT ![s] = recipe[s]]
      BY <2>6 DEF Built, s
    <3>2. mesh' \in [Sessions -> Meshes] /\ journal' \in [Sessions -> Recipes]
      BY <2>1, <3>1 DEF MeshTypeOK
    <3> QED
      BY <1>0, <2>4, <2>6, <3>2 DEF Built, MeshTypeOK
  <2> QED
    BY <1>6, <2>5, <2>6
<1>7. ASSUME NEW w \in Threads, BuildFails(w) PROVE MeshTypeOK'
  <2>1. job' \in [Threads -> Jobs]
    BY <1>0, <1>7, IdleIsJob DEF BuildFails
  <2>2. w \in Editors \/ w \in Sessions
    BY DEF Threads
  <2> QED
    BY <1>0, <1>7, <2>1, <2>2 DEF BuildFails, Refuse, SetGate, MeshTypeOK
<1>8. ASSUME NEW w \in Threads, Returns(w)
      PROVE  /\ job' \in [Threads -> Jobs] /\ face' \in [Sessions -> Meshes]
             /\ UNCHANGED <<atGate, recipe, mesh, note, adopted, journal, raced>>
  <2>1. job' \in [Threads -> Jobs]
    BY <1>0, <1>8, IdleIsJob DEF Returns
  <2>2. job[w].on \in Sessions /\ job[w].holds \in Meshes
    BY <1>0, <1>8, IdleIsJob DEF JobsFit, Returns, Jobs
  <2>3. Displayed(w) \in [Sessions -> Meshes]
    BY <2>2 DEF Displayed, MeshTypeOK
  <2> QED
    BY <1>8, <2>1, <2>3 DEF Returns
<1>9. ASSUME NEW w \in Threads, EditDone(w) PROVE MeshTypeOK'
  BY <1>0, <1>8, <1>9 DEF EditDone, MeshTypeOK
<1>10. ASSUME NEW s \in Sessions, Present(s) PROVE MeshTypeOK'
  BY <1>0, <1>8, <1>10 DEF Present, SetGate, MeshTypeOK
<1>11. ASSUME NEW s \in Sessions, Accept(s) PROVE MeshTypeOK'
  <2>1. art' \in [Sessions -> SUBSET Artifacts]
    BY <1>11, FreezeIsArtifact DEF Accept, MeshTypeOK
  <2> QED
    BY <1>0, <1>8, <1>11, <2>1 DEF Accept, SetGate, MeshTypeOK
<1>12. ASSUME NEW s \in Sessions, Revised(s) PROVE MeshTypeOK'
  <2>1. job' \in [Threads -> Jobs]
    BY <1>0, <1>12, IdleIsJob DEF Revised
  <2>2. round' \in [Sessions -> 0..MaxRounds]
    BY <1>12, MeshAssumption DEF Revised, MeshTypeOK
  <2> QED
    BY <1>0, <1>12, <2>1, <2>2 DEF Revised, Refuse, SetGate, MeshTypeOK
<1>13. ASSUME NEW s \in Sessions, Replaced(s) PROVE MeshTypeOK'
  <2>1. [job[s] EXCEPT !.at = "ensure"] \in Jobs
    BY <1>0 DEF Jobs
  <2>2. job' \in [Threads -> Jobs]
    BY <1>0, <1>13, <2>1, IdleIsJob DEF Replaced, Goes
  <2>3. mesh' \in [Sessions -> Meshes] /\ face' \in [Sessions -> Meshes]
    BY <1>13, MeshFacts DEF Replaced, MeshTypeOK
  <2>4. note' \in [Sessions -> BOOLEAN] /\ adopted' \in [Sessions -> BOOLEAN] /\ journal' \in [Sessions -> Recipes]
    BY <1>13 DEF Replaced, MeshTypeOK
  <2> QED
    BY <1>0, <1>13, <2>2, <2>3, <2>4 DEF Replaced, Refuse, SetGate, MeshTypeOK
<1>14. CASE UNCHANGED meshVars
  BY <1>14 DEF meshVars, MeshTypeOK
<1> QED
  BY <1>1, <1>2, <1>3, <1>4, <1>5, <1>6, <1>7, <1>9, <1>10, <1>11, <1>12, <1>13, <1>14, NextCases DEF Reply

\* A thread that starts, goes on or is done fits what JobsFit says of it.
LEMMA JobsStep == MeshTypeOK /\ JobsFit /\ [MeshNext]_meshVars => JobsFit'
<1> SUFFICES ASSUME MeshTypeOK, JobsFit, [MeshNext]_meshVars PROVE JobsFit'
  OBVIOUS
<1>0. Sessions \subseteq Threads /\ job \in [Threads -> Jobs] /\ NoSession \notin Sessions
  BY MeshAssumption DEF MeshTypeOK, Jobs, Threads
<1>1. ASSUME NEW w \in Threads, NEW j, job' = [job EXCEPT ![w] = j],
             j = Idle \/ (j.on \in Sessions /\ j.at # "idle" /\ (w \in Sessions => j.on = w))
      PROVE  JobsFit'
  BY <1>0, <1>1 DEF JobsFit, Idle
<1>2. ASSUME NEW w \in Threads, NEW s \in Sessions, Begin(w, s), w \in Sessions => w = s PROVE JobsFit'
  <2> DEFINE j == [at |-> "ensure", on |-> s, holds |-> None]
  <2>1. job' = [job EXCEPT ![w] = j] /\ j.on = s /\ j.at # "idle"
    BY <1>2 DEF Begin
  <2> HIDE DEF j
  <2> QED
    BY <1>1, <1>2, <2>1
<1>3. ASSUME job' = job PROVE JobsFit'
  BY <1>3 DEF JobsFit, Idle
<1>4. ASSUME NEW s \in Sessions, OpenGate(s) \/ Proceed(s) \/ Reset(s) \/ Adopt(s) PROVE JobsFit'
  BY <1>0, <1>2, <1>4 DEF OpenGate, Proceed, Reset, Adopt
<1>5. ASSUME NEW s \in Sessions, Decline(s) PROVE JobsFit'
  BY <1>3, <1>5 DEF Decline
<1>6. ASSUME NEW s \in Sessions, Resize(s) PROVE JobsFit'
  BY <1>0, <1>2, <1>3, <1>6 DEF Resize, Regenerate
<1>7. ASSUME NEW w \in Threads, MeshOp(w) PROVE JobsFit'
  <2>1. w \notin Sessions /\ atGate \in Sessions
    BY <1>7, MeshAssumption DEF MeshOp, MeshTypeOK
  <2> QED
    BY <1>2, <1>3, <1>7, <2>1 DEF MeshOp, Regenerate
<1>8. ASSUME NEW w \in Threads, Ensure(w) \/ Face(w) \/ Built(w) PROVE JobsFit'
  <2>1. /\ job[w] \in Jobs /\ job[w] # Idle
    BY <1>0, <1>8, IdleIsJob DEF Ensure, Face, Built
  <2>2. job[w].on \in Sessions /\ (w \in Sessions => job[w].on = w)
    BY <2>1 DEF JobsFit
  <2>3. \A stage \in {"build", "face", "rebuild", "write", "shown"}, m \in Meshes :
           LET j == [job[w] EXCEPT !.at = stage, !.holds = m]
               k == [job[w] EXCEPT !.at = stage]
           IN  /\ j.on = job[w].on /\ j.at # "idle"
               /\ k.on = job[w].on /\ k.at # "idle"
    BY <2>1 DEF Jobs
  <2>4. Build(recipe[job[w].on]) \in Meshes /\ mesh[job[w].on] \in Meshes
    BY <2>2, MeshFacts DEF MeshTypeOK
  <2>5. PICK j : job' = [job EXCEPT ![w] = j] /\ j.on = job[w].on /\ j.at # "idle"
    <3>1. CASE Ensure(w)
      BY <2>3, <2>4, <3>1 DEF Ensure
    <3>2. CASE Face(w)
      BY <2>3, <2>4, <3>2 DEF Face
    <3>3. CASE Built(w)
      <4>1. job' = [job EXCEPT ![w] = [job[w] EXCEPT !.at = IF job[w].at = "build" THEN "face" ELSE "write"]]
        BY <3>3 DEF Built, Goes
      <4> QED
        BY <2>3, <2>4, <4>1
    <3> QED
      BY <1>8, <3>1, <3>2, <3>3
  <2> QED
    BY <1>1, <2>2, <2>5
<1>9. ASSUME NEW w \in Threads, BuildFails(w) \/ Returns(w) PROVE JobsFit'
  BY <1>1, <1>9 DEF BuildFails, Returns
<1>10. ASSUME NEW s \in Sessions, Revised(s) PROVE JobsFit'
  BY <1>0, <1>1, <1>3, <1>10 DEF Revised
<1>11. ASSUME NEW s \in Sessions, Replaced(s) PROVE JobsFit'
  <2>1. CASE job' = [job EXCEPT ![s] = Idle]
    BY <1>0, <1>1, <2>1
  <2>2. CASE Goes(s, "ensure")
    <3> DEFINE j == [job[s] EXCEPT !.at = "ensure"]
    <3>1. job[s] \in Jobs /\ job[s].on = s
      BY <1>0, <1>11, IdleIsJob DEF Replaced, JobsFit
    <3>2. job' = [job EXCEPT ![s] = j] /\ j.on = s /\ j.at # "idle"
      BY <2>2, <3>1 DEF Goes, Jobs
    <3> HIDE DEF j
    <3> QED
      BY <1>0, <1>1, <3>2
  <2> QED
    BY <1>11, <2>1, <2>2 DEF Replaced
<1>12. CASE UNCHANGED meshVars
  BY <1>3, <1>12 DEF meshVars
<1> QED
  BY <1>0, <1>4, <1>5, <1>6, <1>7, <1>8, <1>9, <1>10, <1>11, <1>12, NextCases
     DEF Reply, EditDone, Present, Accept

-----------------------------------------------------------------------------
\* A session that a step does not touch.
LEMMA Untouched ==
    ASSUME NEW s \in Sessions, Fits(s),
           /\ note'[s] = note[s] /\ mesh'[s] = mesh[s] /\ recipe'[s] = recipe[s] /\ face'[s] = face[s]
           /\ adopted'[s] = adopted[s] /\ journal'[s] = journal[s] /\ art'[s] = art[s],
           \A w \in Threads : job'[w].on = s => job'[w] = job[w]
    PROVE  Fits(s)'
<1>1. MeshFits(s)' /\ ArtFits(s)'
  BY DEF Fits, MeshFits, ArtFits
<1>2. OneThread(s)'
  BY DEF Fits, OneThread
<1>3. ASSUME NEW w \in Threads, job'[w].on = s PROVE JobFits(w, s)'
  <2>1. job'[w] = job[w] /\ JobFits(w, s)
    BY <1>3 DEF Fits
  <2> QED
    BY <2>1 DEF JobFits
<1> QED
  BY <1>1, <1>2, <1>3 DEF Fits

\* A thread starts on a session that stays unraced: it is the only one there.
LEMMA BeginAlone ==
    ASSUME MeshTypeOK, NEW w \in Threads, NEW s \in Sessions, Begin(w, s)
    PROVE  /\ raced \subseteq raced'
           /\ \A v \in Threads : v # w => job'[v] = job[v]
           /\ job'[w].on = s /\ job'[w].at = "ensure"
           /\ s \notin raced' => \A v \in Threads : job'[v].on = s => v = w
  BY DEF Begin, Busy, MeshTypeOK

\* The one thread on a session has just started, on a mesh that fits.
LEMMA Started ==
    ASSUME MeshTypeOK, NEW w \in Threads, NEW s \in Sessions, Begin(w, s), s \notin raced',
           MeshFits(s)', ArtFits(s)'
    PROVE  Fits(s)'
<1>1. OneThread(s)'
  BY BeginAlone DEF OneThread
<1>2. \A v \in Threads : job'[v].on = s => JobFits(v, s)'
  BY BeginAlone DEF JobFits
<1> QED
  BY <1>1, <1>2 DEF Fits

(* A recipe edit, refused or not.  A refused one only meets a mesh that is flagged,
   which no thread builds. *)
LEMMA RegenerateFits ==
    ASSUME MeshTypeOK, NEW w \in Threads, NEW s \in Sessions, NEW r \in Recipes, Regenerate(w, s, r),
           UNCHANGED <<note, adopted, journal, art>>,
           s \notin raced', Fits(s)
    PROVE  Fits(s)'
<1>1. CASE note[s]
  <2>1. UNCHANGED <<mesh, face, job>> /\ mesh[s] = Hand
    BY <1>1 DEF Regenerate, Fits, MeshFits
  <2>2. MeshFits(s)' /\ ArtFits(s)'
    BY <1>1, <2>1 DEF Fits, MeshFits, ArtFits
  <2>3. \A v \in Threads : job[v].on = s => JobFits(v, s)'
    BY <2>1, MeshFacts DEF Fits, JobFits
  <2> QED
    BY <2>1, <2>2, <2>3 DEF Fits, OneThread
<1>2. CASE ~note[s]
  <2>1. Begin(w, s) /\ mesh'[s] = None /\ face'[s] = None
    BY <1>2 DEF Regenerate, MeshTypeOK
  <2>2. MeshFits(s)' /\ ArtFits(s)'
    BY <1>2, <2>1 DEF Fits, MeshFits, ArtFits
  <2> QED
    BY <2>1, <2>2, Started
<1> QED
  BY <1>1, <1>2

\* Every step keeps a session that no two threads have met on as it should be.
LEMMA FitsStep == ASSUME MeshInv, [MeshNext]_meshVars, NEW x \in Sessions, x \notin raced' PROVE Fits(x)'
<1>0. MeshTypeOK /\ JobsFit /\ Sessions \subseteq Threads /\ NoSession \notin Sessions
  BY MeshAssumption DEF MeshInv, Threads
<1>a. ASSUME raced \subseteq raced' PROVE Fits(x)
  BY <1>a DEF MeshInv
<1>1. ASSUME NEW s \in Sessions, OpenGate(s) \/ Proceed(s) \/ Adopt(s) PROVE Fits(x)'
  <2>1. Begin(s, s) /\ UNCHANGED <<recipe, mesh, face, note, adopted, journal, art>>
    BY <1>1 DEF OpenGate, Proceed, Adopt
  <2>2. Fits(x)
    BY <1>0, <1>a, <2>1, BeginAlone
  <2>3. CASE x = s
    <3>1. MeshFits(x)' /\ ArtFits(x)'
      BY <2>1, <2>2 DEF Fits, MeshFits, ArtFits
    <3> QED
      BY <1>0, <2>1, <2>3, <3>1, Started
  <2>4. CASE x # s
    BY <1>0, <2>1, <2>2, <2>4, BeginAlone, Untouched
  <2> QED
    BY <2>3, <2>4
<1>2. ASSUME NEW s \in Sessions, Reset(s) PROVE Fits(x)'
  <2>1. /\ Begin(s, s) /\ UNCHANGED <<adopted, journal, art>>
        /\ recipe' = [recipe EXCEPT ![s] = Declared] /\ note' = [note EXCEPT ![s] = FALSE]
        /\ mesh' = [mesh EXCEPT ![s] = None] /\ face' = [face EXCEPT ![s] = None]
    BY <1>2 DEF Reset
  <2>2. Fits(x)
    BY <1>0, <1>a, <2>1, BeginAlone
  <2>3. CASE x = s
    <3>1. note'[x] = FALSE /\ mesh'[x] = None /\ face'[x] = None
      BY <1>0, <2>1, <2>3 DEF MeshTypeOK
    <3>2. MeshFits(x)' /\ ArtFits(x)'
      BY <2>1, <2>2, <3>1 DEF Fits, MeshFits, ArtFits
    <3> QED
      BY <1>0, <2>1, <2>3, <3>2, Started
  <2>4. CASE x # s
    <3>1. note'[x] = note[x] /\ mesh'[x] = mesh[x] /\ recipe'[x] = recipe[x] /\ face'[x] = face[x]
      BY <1>0, <2>1, <2>4 DEF MeshTypeOK
    <3>2. \A v \in Threads : job'[v].on = x => job'[v] = job[v]
      BY <1>0, <2>1, <2>4, BeginAlone
    <3> QED
      BY <2>1, <2>2, <3>1, <3>2, Untouched
  <2> QED
    BY <2>3, <2>4
<1>3. ASSUME NEW s \in Sessions, Replaced(s), Goes(s, "ensure") PROVE Fits(x)'
  <2>1. /\ raced' = raced /\ UNCHANGED <<recipe, art>> /\ Fits(x)
        /\ job[s] \in Jobs /\ job[s].at = "face"
    BY <1>0, <1>3, <1>a DEF Replaced, MeshTypeOK, Jobs
  <2>2. /\ note' = [note EXCEPT ![s] = TRUE] /\ adopted' = [adopted EXCEPT ![s] = TRUE]
        /\ journal' = [journal EXCEPT ![s] = recipe[s]]
        /\ mesh' = [mesh EXCEPT ![s] = Hand] /\ face' = [face EXCEPT ![s] = None]
    <3>1. [job[s] EXCEPT !.at = "ensure"] # Idle /\ s \in Threads
      BY <1>0, <2>1, IdleIsJob DEF Jobs
    <3>2. job' # [job EXCEPT ![s] = Idle]
      BY <1>0, <1>3, <3>1 DEF Goes, MeshTypeOK
    <3> QED
      BY <1>3, <3>2 DEF Replaced
  <2>3. job[s].on = s
    BY <1>0, <2>1, IdleIsJob DEF JobsFit
  <2>4. /\ job'[s].on = s /\ job'[s].at = "ensure"
        /\ \A v \in Threads : v # s => job'[v] = job[v]
    BY <1>0, <1>3, <2>1, <2>3 DEF Goes, MeshTypeOK, Jobs
  <2>5. CASE x = s
    <3>1. note'[x] = TRUE /\ adopted'[x] = TRUE /\ mesh'[x] = Hand /\ face'[x] = None
      BY <1>0, <2>2, <2>5 DEF MeshTypeOK
    <3>2. MeshFits(x)' /\ ArtFits(x)'
      BY <2>1, <3>1 DEF Fits, MeshFits, ArtFits
    <3>3. OneThread(x)' /\ \A v \in Threads : job'[v].on = x => v = s
      BY <1>0, <2>1, <2>3, <2>4, <2>5 DEF Fits, OneThread
    <3>4. JobFits(s, x)'
      BY <2>4 DEF JobFits
    <3> QED
      BY <3>2, <3>3, <3>4 DEF Fits
  <2>6. CASE x # s
    <3>1. /\ note'[x] = note[x] /\ mesh'[x] = mesh[x] /\ face'[x] = face[x]
          /\ adopted'[x] = adopted[x] /\ journal'[x] = journal[x]
      BY <1>0, <2>2, <2>6 DEF MeshTypeOK
    <3>2. \A v \in Threads : job'[v].on = x => job'[v] = job[v]
      BY <2>4, <2>6
    <3> QED
      BY <2>1, <3>1, <3>2, Untouched
  <2> QED
    BY <2>5, <2>6
<1>4. ASSUME NEW w \in Threads, NEW s \in Sessions, NEW r \in Recipes, Regenerate(w, s, r),
             UNCHANGED <<note, adopted, journal, art>>
      PROVE  Fits(x)'
  <2>1. /\ raced \subseteq raced'
        /\ s # x => \A v \in Threads : job'[v].on = x => job'[v] = job[v]
    BY <1>0, <1>4, BeginAlone DEF Regenerate
  <2>2. Fits(x)
    BY <1>a, <2>1
  <2>3. CASE x = s
    BY <1>0, <1>4, <2>2, <2>3, RegenerateFits
  <2>4. CASE x # s
    <3>1. mesh'[x] = mesh[x] /\ recipe'[x] = recipe[x] /\ face'[x] = face[x]
      BY <1>0, <1>4, <2>4 DEF Regenerate, MeshTypeOK
    <3> QED
      BY <1>4, <2>1, <2>2, <2>4, <3>1, Untouched
  <2> QED
    BY <2>3, <2>4
<1>5. ASSUME NEW s \in Sessions, Resize(s) PROVE Fits(x)'
  <2>1. PICK r \in Recipes : Regenerate(s, s, r)
    BY <1>0, <1>5 DEF Resize, MeshTypeOK, Recipes
  <2> QED
    BY <1>0, <1>4, <1>5, <2>1 DEF Resize
<1>6. ASSUME NEW w \in Threads, MeshOp(w) PROVE Fits(x)'
  <2>1. atGate \in Sessions
    BY <1>0, <1>6 DEF MeshOp, MeshTypeOK
  <2>2. PICK r \in Recipes : Regenerate(w, atGate, r)
    BY <1>0, <1>6, <2>1 DEF MeshOp, MeshTypeOK, Recipes
  <2> QED
    BY <1>4, <1>6, <2>1, <2>2 DEF MeshOp
<1>7. ASSUME NEW s \in Sessions, Decline(s) PROVE Fits(x)'
  BY <1>7, <1>a, Untouched DEF Decline
<1>8. ASSUME NEW w \in Threads, raced' = raced, job' = [job EXCEPT ![w] = Idle],
             UNCHANGED <<recipe, mesh, face, note, adopted, journal, art>>
      PROVE  Fits(x)'
  BY <1>0, <1>8, <1>a, IdleIsJob, Untouched DEF MeshTypeOK
<1>9. ASSUME NEW w \in Threads, BuildFails(w) PROVE Fits(x)'
  BY <1>8, <1>9 DEF BuildFails
<1>10. ASSUME NEW s \in Sessions, Revised(s) PROVE Fits(x)'
  <2>1. CASE job' = job
    BY <1>10, <2>1, <1>a, Untouched DEF Revised
  <2>2. CASE job' # job
    BY <1>0, <1>8, <1>10, <2>2 DEF Revised
  <2> QED
    BY <2>1, <2>2
<1>11. ASSUME UNCHANGED meshVars PROVE Fits(x)'
  BY <1>11, <1>a, Untouched DEF meshVars
<1>12. ASSUME NEW w \in Threads, NEW stage \in {"build", "face", "write", "shown"}, NEW m \in Meshes,
              raced' = raced, UNCHANGED <<recipe, mesh, face, note, adopted, journal, art>>,
              job[w].on \in Sessions,
              job' = [job EXCEPT ![w] = [job[w] EXCEPT !.at = stage, !.holds = m]],
              job[w].on = x =>
                  /\ stage = "build" => mesh[x] = None /\ m = Build(recipe[x])
                  /\ stage = "face" => mesh[x] # None
                  /\ stage \in {"write", "shown"} => m = mesh[x] /\ mesh[x] # None
                  /\ stage = "shown" => face[x] = mesh[x]
       PROVE  Fits(x)'
  <2>1. /\ job'[w].on = job[w].on /\ job'[w].at = stage /\ job'[w].holds = m
        /\ \A v \in Threads : v # w => job'[v] = job[v]
    BY <1>0, <1>12 DEF MeshTypeOK
  <2>2. Fits(x)
    BY <1>12, <1>a
  <2>3. MeshFits(x)' /\ ArtFits(x)' /\ OneThread(x)'
    BY <1>12, <2>1, <2>2 DEF Fits, MeshFits, ArtFits, OneThread
  <2>4. ASSUME NEW v \in Threads, job'[v].on = x PROVE JobFits(v, x)'
    <3>1. CASE v = w
      BY <1>12, <2>1, <2>4, <3>1 DEF JobFits
    <3>2. CASE v # w
      BY <1>12, <2>1, <2>2, <2>4, <3>2 DEF JobFits, Fits
    <3> QED
      BY <3>1, <3>2
  <2> QED
    BY <2>3, <2>4 DEF Fits
<1>13. ASSUME NEW w \in Threads, job[w].at # "idle"
       PROVE  /\ job[w].on \in Sessions /\ job[w] \in Jobs /\ job[w].holds \in Meshes
              /\ mesh[job[w].on] \in Meshes /\ recipe[job[w].on] \in Recipes
              /\ Build(recipe[job[w].on]) \in Meshes
  BY <1>0, <1>13, IdleIsJob, MeshFacts DEF JobsFit, MeshTypeOK, Jobs
<1>14. ASSUME NEW w \in Threads, Ensure(w) PROVE Fits(x)'
  <2>1. /\ job[w].at = "ensure" /\ job[w].on \in Sessions /\ job[w] \in Jobs /\ job[w].holds \in Meshes
        /\ Build(recipe[job[w].on]) \in Meshes
    BY <1>13, <1>14 DEF Ensure
  <2>2. CASE mesh[job[w].on] = None
    <3>1. job' = [job EXCEPT ![w] = [job[w] EXCEPT !.at = "build", !.holds = Build(recipe[job[w].on])]]
      BY <1>14, <2>2 DEF Ensure
    <3> QED
      BY <1>12, <1>14, <2>1, <2>2, <3>1 DEF Ensure
  <2>3. CASE mesh[job[w].on] # None
    <3>1. job' = [job EXCEPT ![w] = [job[w] EXCEPT !.at = "face"]]
      BY <1>14, <2>3 DEF Ensure
    <3>2. [job[w] EXCEPT !.at = "face"] = [job[w] EXCEPT !.at = "face", !.holds = job[w].holds]
      BY <2>1 DEF Jobs
    <3>3. job' = [job EXCEPT ![w] = [job[w] EXCEPT !.at = "face", !.holds = job[w].holds]]
      BY <3>1, <3>2
    <3> QED
      BY <1>12, <1>14, <2>1, <2>3, <3>3 DEF Ensure
  <2> QED
    BY <2>2, <2>3
<1>15. ASSUME NEW w \in Threads, Face(w) PROVE Fits(x)'
  <2> DEFINE s == job[w].on
  <2>1. job[w].at = "face" /\ s \in Sessions /\ mesh[s] \in Meshes
    BY <1>13, <1>15 DEF Face
  <2>2. raced' = raced /\ UNCHANGED <<recipe, mesh, face, note, adopted, journal, art>> /\ Fits(x)
    BY <1>15, <1>a DEF Face
  <2>3. s = x => mesh[x] # None /\ face[x] \in {None, mesh[x]}
    BY <2>1, <2>2 DEF Fits, JobFits, MeshFits
  <2>4. CASE mesh[s] # None /\ face[s] = None
    <3>1. job' = [job EXCEPT ![w] = [job[w] EXCEPT !.at = "write", !.holds = mesh[s]]]
      BY <1>15, <2>4 DEF Face
    <3> QED
      BY <1>12, <2>1, <2>2, <2>4, <3>1
  <2>5. CASE mesh[s] # None /\ face[s] # None
    <3>1. job' = [job EXCEPT ![w] = [job[w] EXCEPT !.at = "shown", !.holds = mesh[s]]]
      BY <1>15, <2>5 DEF Face
    <3> QED
      BY <1>12, <2>1, <2>2, <2>3, <2>5, <3>1
  <2>6. CASE mesh[s] = None
    <3>1. job' = [job EXCEPT ![w] = [job[w] EXCEPT !.at = "rebuild", !.holds = Build(recipe[s])]]
      BY <1>15, <2>6 DEF Face
    <3>2. s # x
      BY <2>3, <2>6
    <3>3. \A v \in Threads : job'[v].on = x => job'[v] = job[v]
      BY <1>0, <3>1, <3>2 DEF MeshTypeOK
    <3> QED
      BY <2>2, <3>3, Untouched
  <2> QED
    BY <2>4, <2>5, <2>6
<1>16. ASSUME NEW w \in Threads, Built(w) PROVE Fits(x)'
  <2> DEFINE s == job[w].on
  <2>1. job[w].at \in {"build", "rebuild"} /\ s \in Sessions /\ recipe[s] \in Recipes
    BY <1>13, <1>16 DEF Built
  <2>2. /\ raced' = raced /\ UNCHANGED <<recipe, face, note, adopted, art>> /\ Fits(x)
        /\ mesh' = [mesh EXCEPT ![s] = job[w].holds] /\ journal' = [journal EXCEPT ![s] = recipe[s]]
        /\ job' = [job EXCEPT ![w].at = IF job[w].at = "build" THEN "face" ELSE "write"]
    BY <1>16, <1>a DEF Built, Goes
  <2>3. \A v \in Threads : v # w => job'[v] = job[v]
    BY <2>2, <1>0 DEF MeshTypeOK
  <2>4. job'[w].on = s /\ job'[w].at = (IF job[w].at = "build" THEN "face" ELSE "write")
    BY <2>2, <1>0 DEF MeshTypeOK
  <2>5. CASE s = x
    <3>1. job[w].at = "build" /\ mesh[x] = None /\ job[w].holds = Build(recipe[x]) /\ face[x] = None /\ ~note[x]
      BY <2>1, <2>2, <2>5, MeshFacts DEF Fits, JobFits, MeshFits
    <3>2. mesh'[x] = Build(recipe[x]) /\ journal'[x] = recipe[x] /\ mesh'[x] # None
      BY <1>0, <2>1, <2>2, <2>5, <3>1, MeshFacts DEF MeshTypeOK
    <3>3. MeshFits(x)' /\ ArtFits(x)'
      BY <2>2, <3>1, <3>2 DEF Fits, MeshFits, ArtFits
    <3>4. OneThread(x)' /\ \A v \in Threads : job'[v].on = x => v = w
      BY <2>2, <2>3, <2>4, <2>5 DEF Fits, OneThread
    <3>5. JobFits(w, x)'
      BY <2>4, <3>1, <3>2 DEF JobFits
    <3> QED
      BY <3>3, <3>4, <3>5 DEF Fits
  <2>6. CASE s # x
    <3>1. mesh'[x] = mesh[x] /\ journal'[x] = journal[x]
      BY <1>0, <2>2, <2>6 DEF MeshTypeOK
    <3> QED
      BY <2>2, <2>3, <2>4, <2>6, <3>1, Untouched
  <2> QED
    BY <2>5, <2>6
<1>17. ASSUME NEW w \in Threads, Returns(w), ArtFits(x)' PROVE Fits(x)'
  <2> DEFINE s == job[w].on
  <2>1. job[w].at \in {"write", "shown"} /\ s \in Sessions
    BY <1>13, <1>17 DEF Returns
  <2>2. /\ raced' = raced /\ UNCHANGED <<recipe, mesh, note, adopted, journal>> /\ Fits(x)
        /\ job' = [job EXCEPT ![w] = Idle] /\ face' = Displayed(w)
    BY <1>17, <1>a DEF Returns
  <2>3. face'[x] = face[x] \/ (s = x /\ face'[x] = job[w].holds)
    BY <1>0, <2>1, <2>2 DEF Displayed, MeshTypeOK
  <2>4. face'[x] \in {None, mesh[x]} /\ (face[x] = mesh[x] => face'[x] = mesh[x])
    BY <2>1, <2>2, <2>3 DEF Fits, JobFits, MeshFits
  <2>5. \A v \in Threads : job'[v].on = x => job'[v] = job[v]
    BY <1>0, <2>2, IdleIsJob DEF MeshTypeOK
  <2>6. MeshFits(x)' /\ OneThread(x)'
    BY <2>2, <2>4, <2>5 DEF Fits, MeshFits, OneThread
  <2>7. ASSUME NEW v \in Threads, job'[v].on = x PROVE JobFits(v, x)'
    <3>1. job'[v] = job[v] /\ JobFits(v, x)
      BY <2>2, <2>5, <2>7 DEF Fits
    <3> QED
      BY <2>2, <2>4, <3>1 DEF JobFits
  <2> QED
    BY <1>17, <2>6, <2>7 DEF Fits
<1>18. ASSUME NEW w \in Threads, Returns(w), art' = art PROVE Fits(x)'
  <2>1. ArtFits(x)'
    BY <1>18, <1>a DEF Returns, Fits, ArtFits
  <2> QED
    BY <1>17, <1>18, <2>1
<1>19. ASSUME NEW s \in Sessions, Accept(s) PROVE Fits(x)'
  <2>1. Returns(s) /\ art' = [art EXCEPT ![s] = {Freeze(s)}] /\ Fits(x) /\ s \in Threads
    BY <1>0, <1>19, <1>a DEF Accept, Returns
  <2>2. CASE x = s
    <3>1. job[s].at \in {"write", "shown"} /\ job[s].on = s
      BY <1>0, <2>1, IdleIsJob DEF Returns, JobsFit
    <3>2. job[s].holds = mesh[s] /\ mesh[s] # None /\ (job[s].at = "shown" => face[s] = mesh[s]) /\ MeshFits(s)
      BY <2>1, <2>2, <3>1 DEF Fits, JobFits
    <3>3. Displayed(s)[s] = mesh[s]
      BY <1>0, <3>1, <3>2 DEF Displayed, MeshTypeOK
    <3>4. mesh[s] = (IF note[s] THEN Hand ELSE Build(recipe[s])) /\ (~adopted[s] => mesh[s] = Build(journal[s]))
      BY <3>2 DEF MeshFits
    <3>5. art'[s] = {Freeze(s)}
      BY <1>0, <2>1 DEF MeshTypeOK
    <3>6. /\ Freeze(s).mesh = mesh[s] /\ Freeze(s).recipe = recipe[s] /\ Freeze(s).note = note[s]
          /\ Freeze(s).face = mesh[s] /\ Freeze(s).replays = (IF adopted[s] THEN Hand ELSE Build(journal[s]))
      BY <3>2, <3>3 DEF Freeze
    <3>7. ArtFits(x)'
      BY <2>2, <3>4, <3>5, <3>6 DEF ArtFits
    <3> QED
      BY <1>17, <2>1, <3>7
  <2>3. CASE x # s
    <3>1. art'[x] = art[x]
      BY <1>0, <2>1, <2>3 DEF MeshTypeOK
    <3>2. ArtFits(x)'
      BY <2>1, <3>1 DEF Fits, ArtFits
    <3> QED
      BY <1>17, <2>1, <3>2
  <2> QED
    BY <2>2, <2>3
<1>20. ASSUME NEW w \in Threads, EditDone(w) PROVE Fits(x)'
  BY <1>18, <1>20 DEF EditDone
<1>21. ASSUME NEW s \in Sessions, Present(s) PROVE Fits(x)'
  BY <1>0, <1>18, <1>21 DEF Present
<1>22. ASSUME NEW s \in Sessions, Replaced(s) PROVE Fits(x)'
  BY <1>0, <1>3, <1>8, <1>22 DEF Replaced
<1> QED
  BY <1>1, <1>2, <1>22, <1>5, <1>6, <1>7, <1>9, <1>10, <1>11, <1>14, <1>15, <1>16,
     <1>19, <1>20, <1>21, NextCases DEF Reply

LEMMA MeshInvInit == MeshInit => MeshInv
<1> SUFFICES ASSUME MeshInit PROVE MeshInv
  OBVIOUS
<1>1. MeshTypeOK
  BY MeshFacts, IdleIsJob, MeshAssumption DEF MeshInit, MeshTypeOK, Jobs
<1>2. JobsFit
  BY DEF MeshInit, JobsFit, Threads
<1>3. \A s \in Sessions : MeshFits(s) /\ ArtFits(s)
  BY DEF MeshInit, MeshFits, ArtFits
<1>4. \A s \in Sessions, w \in Threads : job[w].on # s
  BY IdleIsJob, MeshAssumption DEF MeshInit
<1> QED
  BY <1>1, <1>2, <1>3, <1>4 DEF MeshInv, Fits, OneThread

LEMMA MeshInvStep == MeshInv /\ [MeshNext]_meshVars => MeshInv'
  BY MeshTypeStep, JobsStep, FitsStep DEF MeshInv

LEMMA MeshInvHolds == MeshSpec => []MeshInv
  BY MeshInvInit, MeshInvStep, PTL DEF MeshSpec

-----------------------------------------------------------------------------
\* Every reachable state is well typed: no review shows more cards than its rounds.
THEOREM MeshTypes == MeshSpec => []MeshTypeOK
<1>1. MeshInv => MeshTypeOK
  BY DEF MeshInv
<1> QED
  BY <1>1, MeshInvHolds, PTL

(* What accept freezes for a session no two threads have met on belongs together:
   the mesh is what the recipe builds or is flagged, the display file shows it, and
   a journal that can be replayed replays to it. *)
THEOREM AcceptedMeshesAreSound == MeshSpec => []AcceptedIsSound
<1>1. MeshInv => AcceptedIsItsRecipe
  BY DEF MeshInv, Fits, ArtFits, AcceptedIsItsRecipe
<1>2. MeshInv => FaceIsTheMesh
  BY DEF MeshInv, Fits, ArtFits, FaceIsTheMesh
<1>3. MeshInv => JournalReplays
  BY DEF MeshInv, Fits, ArtFits, JournalReplays
<1>4. MeshInv => AcceptedIsSound
  BY <1>1, <1>2, <1>3 DEF AcceptedIsSound
<1> QED
  BY <1>4, MeshInvHolds, PTL

\* Only a reset takes a hand edit away from a session no two threads have met on.
THEOREM HandEditsStay == MeshSpec => HandEditStays
<1>1. ASSUME MeshInv, [MeshNext]_meshVars, NEW s \in Sessions \ raced, mesh[s] = Hand, mesh'[s] # Hand
      PROVE  recipe'[s] = Declared /\ ~note'[s]
  <2>0. MeshTypeOK /\ JobsFit /\ note[s] /\ \A w \in Threads : job[w].on = s => job[w].at \notin {"build", "rebuild"}
    BY <1>1, MeshFacts DEF MeshInv, Fits, MeshFits, JobFits, MeshTypeOK
  <2>1. ASSUME NEW t \in Sessions, Reset(t) PROVE recipe'[s] = Declared /\ ~note'[s]
    BY <1>1, <2>0, <2>1 DEF Reset, MeshTypeOK
  <2>2. ASSUME NEW t \in Sessions, Replaced(t) PROVE FALSE
    BY <1>1, <2>0, <2>2 DEF Replaced, MeshTypeOK
  <2>3. ASSUME NEW w \in Threads, NEW t \in Sessions, NEW r, Regenerate(w, t, r) PROVE FALSE
    BY <1>1, <2>0, <2>3 DEF Regenerate, MeshTypeOK
  <2>4. ASSUME NEW w \in Threads, Built(w) PROVE FALSE
    <3>1. job[w].on # s
      BY <2>0, <2>4 DEF Built
    <3> QED
      BY <1>1, <2>0, <2>4, <3>1 DEF Built, MeshTypeOK
  <2>5. ASSUME NEW t \in Sessions, Resize(t) PROVE FALSE
    BY <2>3, <2>5 DEF Resize, Threads
  <2>6. ASSUME NEW w \in Threads, MeshOp(w) PROVE FALSE
    BY <2>0, <2>3, <2>6 DEF MeshOp, MeshTypeOK
  <2>7. mesh' # mesh
    BY <1>1
  <2> QED
    BY <1>1, <2>1, <2>2, <2>4, <2>5, <2>6, <2>7, NextCases
       DEF Reply, OpenGate, Proceed, Adopt, Decline, Revised, Present, Accept, Returns, Ensure, BuildFails,
           Face, EditDone, meshVars
<1>2. MeshInv /\ [MeshNext]_meshVars =>
        [\A s \in Sessions \ raced : mesh[s] = Hand /\ mesh'[s] # Hand =>
            recipe'[s] = Declared /\ ~note'[s]]_meshVars
  BY <1>1
<1> QED
  BY <1>2, MeshInvHolds, PTL DEF MeshSpec, HandEditStays
=============================================================================
