------------------------- MODULE CaseTargetingProofs -------------------------
(***************************************************************************)
(* Proofs about CaseTargeting for any number of Cases and turns.  GInv     *)
(* (types, and every Case id held anywhere names a stored Case) holds for  *)
(* any number of connections and any concurrency.  RInv adds why the rows  *)
(* of a turn stay in its Case when the session has one connection that     *)
(* runs one turn at a time and the store accepts new Cases.                *)
(***************************************************************************)
EXTENDS CaseTargeting, TLAPS

StoredOrNone == exists \cup {None}

\* The pointer, the pins and the Cases of a turn name stored Cases.
CasesAreStored ==
    /\ active \in StoredOrNone
    /\ \A c \in Conns : pin[c] \in StoredOrNone
    /\ \A t \in Turns : owner[t] \in StoredOrNone /\ target[t] \in StoredOrNone

\* A connection that reads, opens or has minted a Case has a Case.
ReadsACase ==
    \A c \in Conns : stage[c] \in {"read", "minted", "opening", "created"} => synced[c] \in Cases

\* A turn that was launched has a connection; only a live turn is in a tool call.
TurnsHaveHomes ==
    \A t \in Turns : /\ Live(t) => home[t] \in Conns
                     /\ InCall(t) => Live(t)

GInv == TypeOK /\ CasesAreStored /\ ReadsACase /\ TurnsHaveHomes

-----------------------------------------------------------------------------
LEMMA GInvInit == Init => GInv
BY TargetingAssumption DEF Init, GInv, TypeOK, CasesAreStored, ReadsACase, TurnsHaveHomes,
   StoredOrNone, CaseOrNone, Live, InCall, Stages

\* The case a connection writes to is a stored one.
LEMMA TurnCaseStored ==
    ASSUME GInv, NEW c \in Conns
    PROVE  TurnCase(c) \in StoredOrNone /\ Written(TurnCase(c)) \subseteq exists
BY DEF GInv, CasesAreStored, StoredOrNone, TurnCase, Written

\* What the synchronous part of the sync leaves behind.
LEMMA SyncFacts ==
    ASSUME GInv, NEW c \in Conns, Sync(c)
    PROVE  /\ stage' \in [Conns -> Stages] /\ synced' \in [Conns -> CaseOrNone \cup {Never}]
           /\ history' \in [Conns -> CaseOrNone] /\ accum' \in [Conns -> SUBSET Turns]
           /\ pin' \in [Conns -> CaseOrNone] /\ \A d \in Conns : pin'[d] \in StoredOrNone
           /\ \A d \in Conns : stage'[d] \in {"read", "minted", "opening", "created"} => synced'[d] \in Cases
<1> USE TargetingAssumption DEF GInv, TypeOK, CaseOrNone, Stages
<1>1. CASE active \in Cases /\ synced[c] # active
  <2>1. /\ stage' = [stage EXCEPT ![c] = "read"] /\ synced' = [synced EXCEPT ![c] = active]
        /\ history' = [history EXCEPT ![c] = None] /\ UNCHANGED <<pin, accum>>
    BY <1>1 DEF Sync
  <2> QED BY <1>1, <2>1 DEF ReadsACase, CasesAreStored, StoredOrNone
<1>2. CASE active = None
  <2>1. /\ stage' = [stage EXCEPT ![c] = "mint"] /\ synced' = [synced EXCEPT ![c] = None]
        /\ pin' = pin
        /\ history' = history \/ history' = [history EXCEPT ![c] = None]
        /\ accum' = accum \/ accum' = [accum EXCEPT ![c] = {}]
    BY <1>2 DEF Sync
  <2> QED BY <2>1 DEF ReadsACase, CasesAreStored, StoredOrNone
<1>3. CASE active \in Cases /\ synced[c] = active
  BY <1>3 DEF Sync, PinTurn, ReadsACase, CasesAreStored, StoredOrNone
<1> QED BY <1>1, <1>2, <1>3 DEF Sync

LEMMA AutonameTypes ==
    ASSUME TypeOK, NEW t \in Turns, NEW k \in CaseOrNone, Autoname(t, k)
    PROVE  titles' \in [Cases -> Turns \cup {Untitled, Given}] /\ autonamed' \in SUBSET Cases
BY DEF TypeOK, CaseOrNone, Autoname, NeedsName

(* Every step keeps the types and names only stored Cases. *)
LEMMA GInvStep == GInv /\ [Next]_vars => GInv'
<1> SUFFICES ASSUME GInv, [Next]_vars PROVE GInv' OBVIOUS
<1> USE TargetingAssumption
        DEF GInv, TypeOK, CaseOrNone, Stages, CasesAreStored, StoredOrNone, ReadsACase,
            TurnsHaveHomes, Live, InCall, caseVars, connVars, startVars, turnVars
<1>1. ASSUME NEW c \in Conns, NEW k \in CaseOrNone, UserMessage(c, k) PROVE GInv'
  <2>1. CASE k # None /\ k # active
    <3>1. /\ k \in exists /\ active' = k /\ synced' = [synced EXCEPT ![c] = Never]
          /\ stage' = [stage EXCEPT ![c] = "rebound"]
          /\ UNCHANGED <<history, pin, accum, caseVars, turnVars>>
      BY <1>1, <2>1 DEF UserMessage
    <3>2. TypeOK' BY <3>1
    <3>3. CasesAreStored' /\ ReadsACase' /\ TurnsHaveHomes' BY <3>1
    <3> QED BY <3>2, <3>3
  <2>2. CASE ~(k # None /\ k # active)
    <3>1. Sync(c) /\ UNCHANGED <<active, caseVars, turnVars>>
      BY <1>1, <2>2 DEF UserMessage
    <3> QED BY <3>1, SyncFacts
  <2> QED BY <2>1, <2>2
<1>2. ASSUME NEW c \in Conns, SyncRebound(c) PROVE GInv'
  BY <1>2, SyncFacts DEF SyncRebound
<1>3. ASSUME NEW c \in Conns, SyncRead(c) \/ SyncFails(c) PROVE GInv'
  <2>1. synced[c] \in Cases BY <1>3 DEF SyncRead, SyncFails
  <2>2. accum' \in [Conns -> SUBSET Turns] /\ history' \in [Conns -> CaseOrNone]
    <3>1. CASE SyncRead(c) BY <3>1, <2>1 DEF SyncRead
    <3>2. CASE SyncFails(c) BY <3>2 DEF SyncFails
    <3> QED BY <1>3, <3>1, <3>2
  <2>3. /\ pin' = pin \/ pin' = [pin EXCEPT ![c] = active]
        /\ \/ stage' = [stage EXCEPT ![c] = "mint"]
           \/ stage' = [stage EXCEPT ![c] = "launch"]
        /\ UNCHANGED <<active, synced, caseVars, turnVars>>
    BY <1>3 DEF SyncRead, SyncFails, AfterSync, PinTurn
  <2>4. TypeOK'
    <3>1. stage' \in [Conns -> Stages] /\ pin' \in [Conns -> CaseOrNone] BY <2>3
    <3> QED BY <2>2, <2>3, <3>1
  <2>5. CasesAreStored' /\ ReadsACase' /\ TurnsHaveHomes' BY <2>3
  <2> QED BY <2>4, <2>5
<1>4. ASSUME NEW c \in Conns, NEW k \in Cases, MintCase(c, k) PROVE GInv'
  BY <1>4 DEF MintCase
<1>5. ASSUME NEW c \in Conns, AutoCreated(c) \/ MintRefused(c) PROVE GInv'
  <2>1. /\ pin' = [pin EXCEPT ![c] = active] /\ stage' = [stage EXCEPT ![c] = "launch"]
        /\ UNCHANGED <<active, synced, history, exists, deleted, titles, stored, turnVars>>
    BY <1>5 DEF AutoCreated, MintRefused, PinTurn
  <2>2. accum' \in [Conns -> SUBSET Turns] /\ autonamed' \in SUBSET Cases
    BY <1>5 DEF AutoCreated, MintRefused
  <2>3. TypeOK' BY <2>1, <2>2
  <2>4. CasesAreStored' /\ ReadsACase' /\ TurnsHaveHomes' BY <2>1
  <2> QED BY <2>3, <2>4
<1>6. ASSUME NEW c \in Conns, NEW t \in Turns, Launch(c, t) PROVE GInv'
  <2>2. rows' \in [Turns -> SUBSET exists] BY <1>6 DEF Launch, Written
  <2>3. accum' \in [Conns -> SUBSET Turns]
    <3> DEFINE M == UNION {accum[d] : d \in {home[u] : u \in {v \in Turns : Live(v)}}}
    <3>1. \A v \in Turns : Live(v) => accum[home[v]] \in SUBSET Turns OBVIOUS
    <3>2. M \in SUBSET Turns BY <3>1
    <3>3. accum' = [accum EXCEPT ![c] = @ \cup M] BY <1>6 DEF Launch
    <3> HIDE DEF M
    <3> QED BY <3>2, <3>3
  <2>4. owner' \in [Turns -> CaseOrNone] /\ \A u \in Turns : owner'[u] \in StoredOrNone
    BY <1>6, TurnCaseStored DEF Launch
  <2>5. status' \in [Turns -> {"unused", "naming", "running", "closing", "done"}]
    BY <1>6 DEF Launch
  <2>1. context' \in [Turns -> CaseOrNone \cup {Never}] BY <1>6 DEF Launch
  <2>6. TypeOK' BY <1>6, <2>1, <2>2, <2>3, <2>4, <2>5 DEF Launch
  <2>7. CasesAreStored' /\ ReadsACase' BY <1>6, <2>4 DEF Launch
  <2>8. TurnsHaveHomes' BY <1>6 DEF Launch
  <2> QED BY <2>6, <2>7, <2>8
<1>7. ASSUME NEW c \in Conns, NEW k \in Cases, SelectCase(c, k) PROVE GInv'
  BY <1>7 DEF SelectCase, Opens
<1>8. ASSUME NEW c \in Conns, NEW k \in Cases, NEW title \in {Untitled, Given},
             CreateCase(c, k, title) PROVE GInv'
  BY <1>8 DEF CreateCase, Opens
<1>9. ASSUME NEW c \in Conns, CaseOpened(c) \/ OpenFails(c) PROVE GInv'
  <2>1. /\ stage' = [stage EXCEPT ![c] = "idle"] /\ UNCHANGED <<active, synced, pin, caseVars, turnVars>>
    BY <1>9 DEF CaseOpened, OpenFails
  <2>2. accum' \in [Conns -> SUBSET Turns] /\ history' \in [Conns -> CaseOrNone]
    <3>1. CASE CaseOpened(c)
      <4>1. synced[c] \in Cases BY <3>1 DEF CaseOpened
      <4> QED BY <3>1, <4>1 DEF CaseOpened
    <3>2. CASE OpenFails(c) BY <3>2 DEF OpenFails
    <3> QED BY <1>9, <3>1, <3>2
  <2>3. TypeOK' BY <2>1, <2>2
  <2>4. CasesAreStored' /\ ReadsACase' /\ TurnsHaveHomes' BY <2>1
  <2> QED BY <2>3, <2>4
<1>10. ASSUME NEW c \in Conns, NEW k \in Cases, DeleteCase(c, k) PROVE GInv'
  BY <1>10 DEF DeleteCase
<1>11. ASSUME NEW t \in Turns, WriteRow(t) PROVE GInv'
  <2>1. Written(TurnCase(home[t])) \subseteq exists BY <1>11, TurnCaseStored DEF WriteRow
  <2> QED BY <1>11, <2>1 DEF WriteRow
<1>12. ASSUME NEW t \in Turns, StartTool(t) PROVE GInv'
  <2>1. TurnCase(home[t]) \in StoredOrNone BY <1>12, TurnCaseStored DEF StartTool
  <2> QED BY <1>12, <2>1 DEF StartTool
<1>13. ASSUME NEW t \in Turns, EmitLayer(t) PROVE GInv'
  BY <1>13 DEF EmitLayer
<1>14. ASSUME NEW t \in Turns, PersistTool(t) PROVE GInv'
  <2>1. Written(target[t]) \subseteq exists BY DEF Written
  <2>2. home[t] \in Conns /\ accum[home[t]] \in SUBSET Turns BY <1>14 DEF PersistTool
  <2> QED BY <1>14, <2>1, <2>2 DEF PersistTool
<1>15. ASSUME NEW t \in Turns, EndTurn(t) PROVE GInv'
  BY <1>15, AutonameTypes DEF EndTurn
<1>16. ASSUME NEW t \in Turns, CancelTurn(t) PROVE GInv'
  BY <1>16 DEF CancelTurn
<1>17. ASSUME NEW t \in Turns, CloseTurn(t) PROVE GInv'
  <2>1. Written(owner[t]) \subseteq exists BY DEF Written
  <2> QED BY <1>17, <2>1 DEF CloseTurn
<1>18. ASSUME UNCHANGED vars PROVE GInv' BY <1>18 DEF vars
<1>19. ASSUME NEW t \in Turns, EnterLoop(t) PROVE GInv'
  <2>1. titles' \in [Cases -> Turns \cup {Untitled, Given}] /\ autonamed' \in SUBSET Cases
    BY <1>19, AutonameTypes DEF EnterLoop
  <2>2. history[home[t]] \in CaseOrNone BY <1>19 DEF EnterLoop
  <2> QED BY <1>19, <2>1, <2>2 DEF EnterLoop
<1> HIDE TargetingAssumption
         DEF GInv, TypeOK, CaseOrNone, Stages, CasesAreStored, StoredOrNone, ReadsACase,
             TurnsHaveHomes, Live, InCall, caseVars, connVars, startVars, turnVars
<1> QED
  BY <1>1, <1>2, <1>3, <1>4, <1>5, <1>6, <1>7, <1>8, <1>9, <1>10, <1>11, <1>12, <1>13,
     <1>14, <1>15, <1>16, <1>17, <1>18, <1>19 DEF Next, ConnStep, TurnStep

(* Types, and every Case id in use names a stored Case (_mint_case stores the
   Case before it moves the pointer). *)
THEOREM TypeCorrect == Spec => []TypeOK
<1>1. Init => GInv BY GInvInit
<1>2. GInv /\ [Next]_vars => GInv' BY GInvStep
<1>3. GInv => TypeOK BY DEF GInv
<1> QED BY <1>1, <1>2, <1>3, PTL DEF Spec

-----------------------------------------------------------------------------
(* From here on: one connection and one turn at a time. *)
OneConnOneTurn ==
    /\ \A c, d \in Conns : c = d
    /\ Concurrent = FALSE

Preparing == {"rebound", "read", "mint", "minted", "launch"}

(* No turn is alive while a prompt is being prepared, and the pointer does not
   move between its pin and its launch. *)
PreparesAlone ==
    \A c \in Conns :
       /\ stage[c] \in Preparing => ~Busy(c)
       /\ stage[c] = "launch" => pin[c] = active

\* While a turn is alive the pin of its connection is the turn's Case, or it has none.
PinHolds == \A t \in Turns : Live(t) => pin[home[t]] = owner[t]

\* A tool call captured the turn's Case; a turn not launched has written nothing.
CallsAreAimed ==
    \A t \in Turns : /\ InCall(t) /\ owner[t] # None => target[t] = owner[t]
                     /\ status[t] = "unused" => rows[t] = {}

RInv == PreparesAlone /\ PinHolds /\ CallsAreAimed /\ NoStrayRows

LEMMA RInvInit == Init => RInv
BY DEF Init, RInv, PreparesAlone, PinHolds, CallsAreAimed, NoStrayRows, Preparing, Live,
   InCall

\* A sync leaves a prompt in preparation, pinned to the pointer if it may launch.
LEMMA SyncPrepares ==
    ASSUME GInv, NEW c \in Conns, Sync(c)
    PROVE  /\ stage'[c] \in {"read", "mint", "launch"}
           /\ stage'[c] = "launch" => pin'[c] = active
BY DEF Sync, PinTurn, GInv, TypeOK

(* Every step of the single connection keeps the rows of a turn in its Case. *)
LEMMA RInvStep == ASSUME OneConnOneTurn, GInv, RInv, [Next]_vars PROVE RInv'
<1> USE TargetingAssumption
        DEF RInv, PreparesAlone, PinHolds, CallsAreAimed, NoStrayRows, Preparing, Live,
            InCall, Busy, caseVars, connVars, startVars, turnVars
<1>t. TypeOK /\ TurnsHaveHomes BY DEF GInv
<1>h. \A c, d \in Conns : c = d BY DEF OneConnOneTurn
<1>1. ASSUME NEW c \in Conns, NEW k \in CaseOrNone, UserMessage(c, k) PROVE RInv'
  <2>1. ~Busy(c) BY <1>1 DEF UserMessage, OneConnOneTurn
  <2>2. \A t \in Turns : ~Live(t) BY <2>1, <1>t, <1>h DEF TurnsHaveHomes
  <2>3. /\ stage'[c] \in {"rebound", "read", "mint", "launch"}
        /\ stage'[c] = "launch" => pin'[c] = active'
    BY <1>1, <1>t, SyncPrepares DEF UserMessage, TypeOK
  <2>4. UNCHANGED <<status, home, owner, tool, target, rows>> BY <1>1 DEF UserMessage
  <2> QED BY <2>1, <2>2, <2>3, <2>4, <1>h
<1>2. ASSUME NEW c \in Conns, SyncRebound(c) \/ SyncRead(c) \/ SyncFails(c) PROVE RInv'
  <2>1. ~Busy(c) BY <1>2 DEF SyncRebound, SyncRead, SyncFails
  <2>2. \A t \in Turns : ~Live(t) BY <2>1, <1>t, <1>h DEF TurnsHaveHomes
  <2>3. /\ stage'[c] \in {"read", "mint", "launch"}
        /\ stage'[c] = "launch" => pin'[c] = active'
    BY <1>2, <1>t, SyncPrepares
       DEF SyncRebound, SyncRead, SyncFails, AfterSync, PinTurn, TypeOK, CaseOrNone
  <2>4. UNCHANGED <<status, home, owner, tool, target, rows>>
    BY <1>2 DEF SyncRebound, SyncRead, SyncFails
  <2> QED BY <2>1, <2>2, <2>3, <2>4, <1>h
<1>3. ASSUME NEW c \in Conns, NEW k \in Cases, MintCase(c, k) PROVE RInv'
  <2>1. ~Busy(c) BY <1>3 DEF MintCase
  <2> QED BY <2>1, <1>3, <1>t, <1>h DEF MintCase, TypeOK
<1>4. ASSUME NEW c \in Conns, AutoCreated(c) \/ MintRefused(c) PROVE RInv'
  <2>1. ~Busy(c) BY <1>4 DEF AutoCreated, MintRefused
  <2>2. \A t \in Turns : ~Live(t) BY <2>1, <1>t, <1>h DEF TurnsHaveHomes
  <2>3. /\ pin'[c] = active /\ UNCHANGED <<active, status, home, owner, tool, target, rows>>
    BY <1>4, <1>t DEF AutoCreated, MintRefused, PinTurn, TypeOK
  <2> QED BY <2>1, <2>2, <2>3, <1>h
<1>5. ASSUME NEW c \in Conns, NEW t \in Turns, Launch(c, t) PROVE RInv'
  <2>1. ~Busy(c) /\ pin[c] = active BY <1>5 DEF Launch
  <2>2. \A u \in Turns : ~Live(u) BY <2>1, <1>t, <1>h DEF TurnsHaveHomes
  <2>3. /\ owner' = [owner EXCEPT ![t] = pin[c]] /\ home' = [home EXCEPT ![t] = c]
        /\ rows' = [rows EXCEPT ![t] = {pin[c]} \ {None}]
        /\ stage' = [stage EXCEPT ![c] = "idle"]
        /\ UNCHANGED <<active, pin, tool, target>>
    BY <1>5, <2>1 DEF Launch, TurnCase, Written
  <2>4. /\ status[t] = "unused" /\ status'[t] \in {"naming", "running"}
        /\ \A u \in Turns : u # t => status'[u] = status[u]
    BY <1>5, <2>2 DEF Launch
  <2>5. ~InCall(t) BY <2>4, <1>t DEF TurnsHaveHomes
  <2>6. PreparesAlone' BY <2>3, <1>t, <1>h DEF TypeOK
  <2>7. PinHolds' BY <2>1, <2>2, <2>3, <2>4, <1>t DEF TypeOK
  <2>8. CallsAreAimed' BY <2>3, <2>4, <2>5, <1>t DEF TypeOK
  <2>9. NoStrayRows' BY <2>3, <1>t DEF TypeOK
  <2> QED BY <2>6, <2>7, <2>8, <2>9
<1>6. ASSUME NEW c \in Conns, NEW k \in Cases,
             \/ SelectCase(c, k) \/ DeleteCase(c, k)
             \/ \E title \in {Untitled, Given} : CreateCase(c, k, title)
      PROVE RInv'
  <2>1. /\ stage[c] = "idle" /\ stage'[c] \in {"idle", "opening", "created"}
        /\ UNCHANGED <<pin, status, home, owner, tool, target, rows>>
    BY <1>6, <1>t DEF SelectCase, DeleteCase, CreateCase, TypeOK
  <2> QED BY <2>1, <1>h
<1>7. ASSUME NEW c \in Conns, CaseOpened(c) \/ OpenFails(c) PROVE RInv'
  <2>1. stage'[c] = "idle" /\ UNCHANGED <<pin, status, home, owner, tool, target, rows>>
    BY <1>7, <1>t DEF CaseOpened, OpenFails, TypeOK
  <2> QED BY <2>1, <1>h
<1>8. ASSUME NEW t \in Turns, WriteRow(t) PROVE RInv'
  <2>1. pin[home[t]] = owner[t] BY <1>8 DEF WriteRow
  <2>2. owner[t] # None => rows'[t] \subseteq rows[t] \cup {owner[t]}
    <3>1. owner[t] # None => TurnCase(home[t]) = owner[t] BY <2>1 DEF TurnCase
    <3> QED BY <1>8, <1>t, <3>1 DEF WriteRow, Written, TypeOK
  <2>3. \A u \in Turns : u # t => rows'[u] = rows[u] BY <1>8, <1>t DEF WriteRow, TypeOK
  <2>4. NoStrayRows' BY <1>8, <2>2, <2>3 DEF WriteRow
  <2>5. CallsAreAimed' BY <1>8, <2>3 DEF WriteRow
  <2>6. PreparesAlone' /\ PinHolds' BY <1>8 DEF WriteRow
  <2> QED BY <2>4, <2>5, <2>6
<1>9. ASSUME NEW t \in Turns, StartTool(t) PROVE RInv'
  <2>1. pin[home[t]] = owner[t] BY <1>9 DEF StartTool
  <2>2. /\ owner[t] # None => target'[t] = owner[t]
        /\ \A u \in Turns : u # t => target'[u] = target[u] /\ tool'[u] = tool[u]
    BY <1>9, <2>1, <1>t DEF StartTool, TurnCase, TypeOK
  <2>3. CallsAreAimed' BY <1>9, <2>2 DEF StartTool
  <2>4. PreparesAlone' /\ PinHolds' /\ NoStrayRows' BY <1>9 DEF StartTool
  <2> QED BY <2>3, <2>4
<1>10. ASSUME NEW t \in Turns, EmitLayer(t) PROVE RInv'
  BY <1>10, <1>t DEF EmitLayer, TypeOK
<1>11. ASSUME NEW t \in Turns, PersistTool(t) PROVE RInv'
  <2>1. Live(t) /\ (owner[t] # None => target[t] = owner[t])
    BY <1>11, <1>t DEF PersistTool, TurnsHaveHomes
  <2>2. /\ owner[t] # None => rows'[t] \subseteq rows[t] \cup {owner[t]}
        /\ \A u \in Turns : u # t => rows'[u] = rows[u]
    BY <1>11, <2>1, <1>t DEF PersistTool, Written, TypeOK
  <2>3. /\ tool' = [tool EXCEPT ![t] = "done"]
        /\ UNCHANGED <<active, stage, pin, status, home, owner, target>>
    BY <1>11 DEF PersistTool
  <2>4. NoStrayRows' BY <2>2, <2>3, <1>t DEF TypeOK
  <2>5. CallsAreAimed' BY <2>1, <2>2, <2>3, <1>t DEF TypeOK
  <2> QED BY <2>3, <2>4, <2>5
<1>12. ASSUME NEW t \in Turns, EndTurn(t) \/ CancelTurn(t) PROVE RInv'
  <2>1. /\ status[t] \in {"naming", "running"} /\ status' = [status EXCEPT ![t] = "closing"]
        /\ UNCHANGED <<active, stage, pin, home, owner, tool, target, rows>>
    BY <1>12 DEF EndTurn, CancelTurn
  <2> QED BY <2>1, <1>t DEF TypeOK
<1>13. ASSUME NEW t \in Turns, CloseTurn(t) PROVE RInv'
  <2>1. /\ status' = [status EXCEPT ![t] = "done"]
        /\ rows' = [rows EXCEPT ![t] = @ \cup ({owner[t]} \ {None})]
        /\ UNCHANGED <<active, stage, pin, home, owner, tool, target>>
    BY <1>13 DEF CloseTurn, Written
  <2> QED BY <2>1, <1>t DEF TypeOK
<1>14. ASSUME UNCHANGED vars PROVE RInv' BY <1>14 DEF vars
<1>15. ASSUME NEW t \in Turns, EnterLoop(t) PROVE RInv'
  <2>1. /\ status[t] = "naming" /\ status' = [status EXCEPT ![t] = "running"]
        /\ UNCHANGED <<active, stage, pin, home, owner, tool, target, rows>>
    BY <1>15 DEF EnterLoop
  <2> QED BY <2>1, <1>t DEF TypeOK
<1> HIDE TargetingAssumption
         DEF RInv, PreparesAlone, PinHolds, CallsAreAimed, NoStrayRows, Preparing, Live,
             InCall, Busy, caseVars, connVars, startVars, turnVars
<1> QED
  BY <1>1, <1>2, <1>3, <1>4, <1>5, <1>6, <1>7, <1>8, <1>9, <1>10, <1>11, <1>12, <1>13,
     <1>14, <1>15 DEF Next, ConnStep, TurnStep

(* On one connection that runs one turn at a time, no select, create or delete
   during a turn re-aims a row of it (_turn_case_id and the turn pin). *)
THEOREM RowsStayInTheirCase == ASSUME OneConnOneTurn PROVE Spec => []NoStrayRows
<1>1. Init => GInv /\ RInv BY GInvInit, RInvInit
<1>2. GInv /\ RInv /\ [Next]_vars => (GInv /\ RInv)' BY GInvStep, RInvStep
<1>3. GInv /\ RInv => NoStrayRows BY DEF RInv
<1> QED BY <1>1, <1>2, <1>3, PTL DEF Spec
-----------------------------------------------------------------------------
\* Conversations a turn of the active Case may be launched with.
Allowed == {active} \cup deleted \cup {k \in {None} : ReadFails}

(* Still one connection.  Its marker is the pointer or has been reset by a stamp; a
   Case is read or opened only under its own marker and minted only under none; and
   outside the awaits that leave the history empty, it holds an allowed conversation. *)
HistoryFollows ==
    \A c \in Conns :
       /\ synced[c] \in {active, Never}
       /\ stage[c] = "rebound" => synced[c] = Never
       /\ stage[c] = "mint" => active = None
       /\ stage[c] \in {"read", "opening", "created"} => synced[c] = active /\ history[c] = None
       /\ stage[c] \notin {"rebound", "read", "opening", "created"} => history[c] \in Allowed

\* Conversations turn t may send.
Fits(t) == {owner[t]} \cup deleted \cup {k \in {None} : ReadFails} \cup opened[t]

(* While a turn names its Case, the history it will take is one it may send, and so is
   that of a Case being opened on its connection. *)
NamingFollows ==
    \A t \in Turns : status[t] = "naming" =>
       /\ history[home[t]] \in Fits(t)
       /\ stage[home[t]] \in {"opening", "created"} => synced[home[t]] \in opened[t]

\* A turn that was not launched has no context.
Fresh == \A t \in Turns : status[t] = "unused" => context[t] = Never

HInv == HistoryFollows /\ NamingFollows /\ Fresh /\ TurnContextIsItsCase

LEMMA HInvInit == Init => HInv
BY DEF Init, HInv, HistoryFollows, Allowed, NamingFollows, Fresh, TurnContextIsItsCase

\* After the synchronous part of a sync the history is that of the pointer, or awaited.
LEMMA SyncFollows ==
    ASSUME OneConnOneTurn, GInv, HInv, NEW c \in Conns, Sync(c),
           stage[c] \in {"idle", "rebound"}, UNCHANGED <<active, deleted>>
    PROVE  HistoryFollows'
<1> USE TargetingAssumption DEF GInv, TypeOK, CaseOrNone, Stages, HInv, HistoryFollows, Allowed
<1>h. \A d, e \in Conns : d = e BY DEF OneConnOneTurn
<1>1. CASE active \in Cases /\ synced[c] # active
  <2>1. /\ stage' = [stage EXCEPT ![c] = "read"] /\ synced' = [synced EXCEPT ![c] = active]
        /\ history' = [history EXCEPT ![c] = None]
    BY <1>1 DEF Sync
  <2> QED BY <2>1, <1>h
<1>2. CASE active = None
  <2>1. /\ stage' = [stage EXCEPT ![c] = "mint"] /\ synced' = [synced EXCEPT ![c] = None]
        /\ IF synced[c] = None THEN history' = history
           ELSE history' = [history EXCEPT ![c] = None]
    BY <1>2 DEF Sync
  <2>2. history'[c] \in Allowed BY <1>2, <2>1
  <2> QED BY <1>2, <2>1, <2>2, <1>h
<1>3. CASE active \in Cases /\ synced[c] = active
  <2>1. /\ stage' = [stage EXCEPT ![c] = "launch"] /\ UNCHANGED <<synced, history>>
    BY <1>3 DEF Sync, PinTurn
  <2> QED BY <1>3, <2>1, <1>h
<1> QED BY <1>1, <1>2, <1>3 DEF Sync

(* Every step of the single connection keeps its history with its pointer. *)
LEMMA HInvStep == ASSUME OneConnOneTurn, GInv, RInv, HInv, [Next]_vars PROVE HInv'
<1> USE TargetingAssumption DEF caseVars, connVars, startVars, turnVars
<1>t. TypeOK BY DEF GInv
<1>h. \A c, d \in Conns : c = d BY DEF OneConnOneTurn
<1>k. ASSUME UNCHANGED <<owner, context>>, deleted \subseteq deleted',
             \A t \in Turns : opened[t] \subseteq opened'[t]
      PROVE  TurnContextIsItsCase'
  BY <1>k DEF HInv, TurnContextIsItsCase
<1>q. ASSUME NEW c \in Conns, ~Busy(c), UNCHANGED <<status, home, owner, context, opened>>,
             deleted \subseteq deleted'
      PROVE  NamingFollows' /\ Fresh' /\ TurnContextIsItsCase'
  <2>1. \A t \in Turns : ~Live(t) BY <1>q, <1>h DEF GInv, TurnsHaveHomes, Busy
  <2>2. \A t \in Turns : status'[t] # "naming" BY <1>q, <2>1 DEF Live
  <2> QED BY <1>q, <1>k, <2>2 DEF NamingFollows, HInv, Fresh
<1>1. ASSUME NEW c \in Conns, NEW k \in CaseOrNone, UserMessage(c, k) PROVE HInv'
  <2>0. ~Busy(c) BY <1>1 DEF UserMessage, OneConnOneTurn
  <2>1. CASE k # None /\ k # active
    <3>1. /\ stage' = [stage EXCEPT ![c] = "rebound"] /\ synced' = [synced EXCEPT ![c] = Never]
          /\ UNCHANGED <<status, home, owner, context, opened, deleted>>
      BY <1>1, <2>1 DEF UserMessage
    <3>2. HistoryFollows' BY <3>1, <1>t, <1>h DEF HistoryFollows, TypeOK
    <3> QED BY <3>1, <3>2, <2>0, <1>q DEF HInv
  <2>2. CASE ~(k # None /\ k # active)
    <3>1. Sync(c) /\ stage[c] = "idle" /\ UNCHANGED <<active, deleted, status, home, owner, context, opened>>
      BY <1>1, <2>2 DEF UserMessage
    <3> QED BY <3>1, SyncFollows, <2>0, <1>q DEF HInv
  <2> QED BY <2>1, <2>2
<1>2. ASSUME NEW c \in Conns, SyncRebound(c) PROVE HInv'
  <2>1. ~Busy(c) BY <1>2 DEF SyncRebound, RInv, PreparesAlone, Preparing
  <2> QED BY <1>2, <2>1, SyncFollows, <1>q DEF HInv, SyncRebound
<1>3. ASSUME NEW c \in Conns, SyncRead(c) \/ SyncFails(c) PROVE HInv'
  <2>1. /\ stage[c] = "read" /\ stage'[c] \in {"mint", "launch"}
        /\ stage'[c] = "mint" => active = None
        /\ UNCHANGED <<active, synced, deleted, status, home, owner, context, opened>>
        /\ \/ history' = [history EXCEPT ![c] = synced[c]]
           \/ ReadFails /\ history' = history
    BY <1>3, <1>t DEF SyncRead, SyncFails, AfterSync, PinTurn, TypeOK
  <2>2. synced[c] = active /\ history[c] = None BY <2>1 DEF HInv, HistoryFollows
  <2>3. ReadFails => None \in Allowed BY DEF Allowed
  <2>4. history'[c] \in Allowed
    <3>1. CASE history' = [history EXCEPT ![c] = synced[c]]
      BY <3>1, <2>2, <1>t DEF TypeOK, Allowed
    <3>2. CASE ReadFails /\ history' = history
      BY <3>2, <2>2, <2>3
    <3> QED BY <2>1, <3>1, <3>2
  <2>5. HistoryFollows' BY <2>1, <2>2, <2>4, <1>h DEF HistoryFollows, Allowed
  <2>6. ~Busy(c) BY <2>1 DEF RInv, PreparesAlone, Preparing
  <2> QED BY <2>1, <2>5, <2>6, <1>q DEF HInv
<1>4. ASSUME NEW c \in Conns, NEW k \in Cases, MintCase(c, k) PROVE HInv'
  <2>1. /\ active' = k /\ synced'[c] = k /\ stage[c] = "mint" /\ stage'[c] = "minted"
        /\ history'[c] = IF history[c] = None THEN k ELSE history[c]
        /\ k \notin exists /\ UNCHANGED <<deleted, status, home, owner, context, opened>>
    BY <1>4, <1>t DEF MintCase, TypeOK
  <2>2. history[c] \in Allowed BY <2>1 DEF HInv, HistoryFollows
  <2>3. history'[c] \in Allowed'
    <3>1. CASE history[c] = None BY <3>1, <2>1 DEF Allowed
    <3>2. CASE history[c] # None
      <4>1. active = None BY <2>1 DEF HInv, HistoryFollows
      <4>2. history[c] \in deleted BY <2>2, <3>2, <4>1 DEF Allowed
      <4> QED BY <2>1, <3>2, <4>2 DEF Allowed
    <3> QED BY <3>1, <3>2
  <2>4. HistoryFollows' BY <2>1, <2>3, <1>h DEF HistoryFollows
  <2>5. ~Busy(c) BY <2>1 DEF RInv, PreparesAlone, Preparing
  <2> QED BY <2>1, <2>4, <2>5, <1>q DEF HInv
<1>5. ASSUME NEW c \in Conns, AutoCreated(c) \/ MintRefused(c) PROVE HInv'
  <2>1. /\ stage[c] \in {"mint", "minted"} /\ stage'[c] = "launch"
        /\ UNCHANGED <<active, synced, history, deleted, status, home, owner, context, opened>>
    BY <1>5, <1>t DEF AutoCreated, MintRefused, PinTurn, TypeOK
  <2>2. HistoryFollows' BY <2>1, <1>h DEF HInv, HistoryFollows, Allowed
  <2>3. ~Busy(c) BY <2>1 DEF RInv, PreparesAlone, Preparing
  <2> QED BY <2>1, <2>2, <2>3, <1>q DEF HInv
<1>6. ASSUME NEW c \in Conns, NEW t \in Turns, Launch(c, t) PROVE HInv'
  <2>1. /\ stage[c] = "launch" /\ stage' = [stage EXCEPT ![c] = "idle"]
        /\ context' = context \/ context' = [context EXCEPT ![t] = history[c]]
        /\ owner' = [owner EXCEPT ![t] = TurnCase(c)] /\ home' = [home EXCEPT ![t] = c]
        /\ UNCHANGED <<active, synced, history, deleted, opened>>
    BY <1>6 DEF Launch
  <2>2. TurnCase(c) = active BY <2>1 DEF RInv, PreparesAlone, TurnCase
  <2>3. history[c] \in Allowed BY <2>1 DEF HInv, HistoryFollows
  <2>4. ~Busy(c) BY <2>1 DEF RInv, PreparesAlone, Preparing
  <2>5. \A u \in Turns : ~Live(u) BY <2>4, <1>h DEF GInv, TurnsHaveHomes, Busy
  <2>6. \A u \in Turns : u # t => status'[u] # "naming" /\ owner'[u] = owner[u]
    BY <1>6, <2>1, <2>5, <1>t DEF Launch, Live, TypeOK
  <2>7. history[c] \in {owner'[t]} \cup deleted \cup {k \in {None} : ReadFails}
    BY <2>1, <2>2, <2>3, <1>t DEF Allowed, TypeOK
  <2>8. NamingFollows' BY <2>1, <2>6, <2>7, <1>t DEF NamingFollows, Fits, TypeOK
  <2>9. TurnContextIsItsCase'
    <3> SUFFICES ASSUME NEW u \in Turns, context'[u] # Never
                 PROVE  context'[u] \in {owner'[u]} \cup deleted \cup {k \in {None} : ReadFails} \cup opened[u]
      BY <2>1 DEF TurnContextIsItsCase
    <3>1. CASE u = t
      <4>1. context[t] = Never BY <1>6 DEF Launch, HInv, Fresh
      <4> QED BY <3>1, <4>1, <2>1, <2>7, <1>t DEF TypeOK
    <3>2. CASE u # t
      BY <3>2, <2>1, <2>6, <1>t DEF HInv, TurnContextIsItsCase, TypeOK
    <3> QED BY <3>1, <3>2
  <2>10. HistoryFollows' BY <2>1, <2>3, <1>h, <1>t DEF HInv, HistoryFollows, Allowed, TypeOK
  <2>11. Fresh' BY <1>6, <2>1, <1>t DEF Launch, HInv, Fresh, TypeOK
  <2> QED BY <2>8, <2>9, <2>10, <2>11 DEF HInv
<1>7. ASSUME NEW c \in Conns, NEW k \in Cases,
             SelectCase(c, k) \/ \E title \in {Untitled, Given} : CreateCase(c, k, title)
      PROVE HInv'
  <2>1. /\ active' = k /\ synced'[c] = k /\ stage'[c] \in {"opening", "created"}
        /\ history'[c] = None /\ UNCHANGED <<deleted, status, home, owner, context>>
        /\ Opens(c, k)
    BY <1>7, <1>t DEF SelectCase, CreateCase, TypeOK
  <2>2. HistoryFollows' BY <2>1, <1>h DEF HistoryFollows
  <2>3. \A t \in Turns : status[t] = "naming" => home[t] = c
    BY <1>h DEF GInv, TurnsHaveHomes, Live
  <2>4. NamingFollows'
    <3> SUFFICES ASSUME NEW t \in Turns, status'[t] = "naming"
                 PROVE  history'[home'[t]] \in Fits(t)' /\ synced'[home'[t]] \in opened'[t]
      BY DEF NamingFollows
    <3>1. home'[t] = c /\ None \in opened'[t] /\ k \in opened'[t] BY <2>1, <2>3 DEF Opens
    <3> QED BY <2>1, <3>1 DEF Fits
  <2>5. Fresh' BY <2>1 DEF HInv, Fresh
  <2>6. TurnContextIsItsCase'
    <3>1. \A t \in Turns : opened[t] \subseteq opened'[t] BY <2>1 DEF Opens
    <3>2. UNCHANGED <<owner, context>> /\ deleted \subseteq deleted' BY <2>1
    <3> QED BY <1>k, <3>1, <3>2
  <2> QED BY <2>2, <2>4, <2>5, <2>6 DEF HInv
<1>8. ASSUME NEW c \in Conns, CaseOpened(c) \/ OpenFails(c) PROVE HInv'
  <2>1. /\ stage[c] \in {"opening", "created"} /\ stage'[c] = "idle"
        /\ UNCHANGED <<active, synced, deleted, status, home, owner, context, opened>>
        /\ history'[c] = synced[c] \/ (ReadFails /\ history' = history)
    BY <1>8, <1>t DEF CaseOpened, OpenFails, TypeOK
  <2>2. synced[c] = active /\ history[c] = None BY <2>1 DEF HInv, HistoryFollows
  <2>3. history'[c] \in Allowed BY <2>1, <2>2 DEF Allowed
  <2>4. HistoryFollows' BY <2>1, <2>2, <2>3, <1>h DEF HistoryFollows, Allowed
  <2>5. \A t \in Turns : status[t] = "naming" =>
           home[t] = c /\ history[c] \in Fits(t) /\ synced[c] \in opened[t]
    BY <2>1, <1>h DEF HInv, NamingFollows, GInv, TurnsHaveHomes, Live
  <2>6. NamingFollows' BY <2>1, <2>5 DEF NamingFollows, Fits
  <2>7. Fresh' BY <2>1 DEF HInv, Fresh
  <2> QED BY <2>1, <2>4, <2>6, <2>7, <1>k DEF HInv
<1>9. ASSUME NEW c \in Conns, NEW k \in Cases, DeleteCase(c, k) PROVE HInv'
  <2>1. /\ stage[c] = "idle" /\ stage' = stage /\ deleted' = deleted \cup {k}
        /\ UNCHANGED <<history, status, home, owner, context, opened>>
        /\ IF k = active THEN active' = None /\ synced'[c] = None ELSE UNCHANGED <<active, synced>>
    BY <1>9, <1>t DEF DeleteCase, TypeOK
  <2>2. HistoryFollows' BY <2>1, <1>h DEF HInv, HistoryFollows, Allowed
  <2>3. \A t \in Turns : status[t] = "naming" => home[t] = c
    BY <1>h DEF GInv, TurnsHaveHomes, Live
  <2>4. NamingFollows' BY <2>1, <2>3 DEF HInv, NamingFollows, Fits
  <2>5. Fresh' BY <2>1 DEF HInv, Fresh
  <2> QED BY <2>1, <2>2, <2>4, <2>5, <1>k DEF HInv
<1>10. ASSUME NEW t \in Turns, EnterLoop(t) PROVE HInv'
  <2>1. /\ status[t] = "naming" /\ status' = [status EXCEPT ![t] = "running"]
        /\ context' = [context EXCEPT ![t] = history[home[t]]]
        /\ UNCHANGED <<active, stage, synced, history, deleted, home, owner, opened>>
    BY <1>10 DEF EnterLoop
  <2>2. history[home[t]] \in Fits(t) BY <2>1 DEF HInv, NamingFollows
  <2>3. TurnContextIsItsCase' BY <2>1, <2>2, <1>t DEF HInv, TurnContextIsItsCase, Fits, TypeOK
  <2>4. NamingFollows' /\ Fresh' BY <2>1, <1>t DEF HInv, NamingFollows, Fresh, Fits, TypeOK
  <2>5. HistoryFollows' BY <2>1 DEF HInv, HistoryFollows, Allowed
  <2> QED BY <2>3, <2>4, <2>5 DEF HInv
<1>12. ASSUME NEW t \in Turns, CloseTurn(t) PROVE HInv'
  <2>1. /\ status[t] = "closing" /\ status' = [status EXCEPT ![t] = "done"]
        /\ context' = [context EXCEPT ![t] = Never] /\ opened' = [opened EXCEPT ![t] = {}]
        /\ UNCHANGED <<active, stage, synced, history, deleted, home, owner>>
    BY <1>12 DEF CloseTurn
  <2>2. TurnContextIsItsCase' BY <2>1, <1>t DEF HInv, TurnContextIsItsCase, TypeOK
  <2>3. NamingFollows' /\ Fresh' BY <2>1, <1>t DEF HInv, NamingFollows, Fresh, Fits, TypeOK
  <2>4. HistoryFollows' BY <2>1 DEF HInv, HistoryFollows, Allowed
  <2> QED BY <2>2, <2>3, <2>4 DEF HInv
<1>13. ASSUME NEW t \in Turns,
              \/ WriteRow(t) \/ StartTool(t) \/ EmitLayer(t) \/ PersistTool(t)
              \/ EndTurn(t) \/ CancelTurn(t)
       PROVE HInv'
  <2>1. /\ UNCHANGED <<active, stage, synced, history, deleted, home, owner, context, opened>>
        /\ status' = status \/ status' = [status EXCEPT ![t] = "closing"]
    BY <1>13 DEF WriteRow, StartTool, EmitLayer, PersistTool, EndTurn, CancelTurn
  <2>2. NamingFollows' /\ Fresh' BY <2>1, <1>t DEF HInv, NamingFollows, Fresh, Fits, TypeOK
  <2>3. HistoryFollows' BY <2>1 DEF HInv, HistoryFollows, Allowed
  <2> QED BY <2>1, <2>2, <2>3, <1>k DEF HInv
<1>11. ASSUME UNCHANGED vars PROVE HInv'
  BY <1>11 DEF vars, HInv, HistoryFollows, Allowed, NamingFollows, Fresh, Fits, TurnContextIsItsCase
<1> QED
  BY <1>1, <1>2, <1>3, <1>4, <1>5, <1>6, <1>7, <1>8, <1>9, <1>10, <1>11, <1>12, <1>13
     DEF Next, ConnStep, TurnStep

(* On one connection that runs one turn at a time, a turn sends the model the
   conversation of its own Case, that of a deleted one, or none after a failed read,
   whatever is stamped, selected, created or deleted before; the one other conversation
   it may send is that of a Case opened while it still named its own. *)
THEOREM ContextIsTheTurnsCase == ASSUME OneConnOneTurn PROVE Spec => []TurnContextIsItsCase
<1> DEFINE CInv == GInv /\ RInv /\ HInv
<1>1. Init => CInv BY GInvInit, RInvInit, HInvInit
<1>2. CInv /\ [Next]_vars => CInv' BY GInvStep, RInvStep, HInvStep
<1>3. CInv => TurnContextIsItsCase BY DEF HInv
<1> QED BY <1>1, <1>2, <1>3, PTL DEF Spec
=============================================================================
