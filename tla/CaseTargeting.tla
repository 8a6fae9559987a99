--------------------------- MODULE CaseTargeting ---------------------------
(***************************************************************************)
(* Which Case a prompt, its turn and everything the turn persists belong   *)
(* to.  The active-Case pointer is shared by the connections of a session; *)
(* each connection has its own sync marker, history list, layer            *)
(* accumulator and turn pin; each turn captures some of them at its start  *)
(* and reads others when it writes.                                        *)
(*                                                                         *)
(* Sources: server/turn/engine.py (_prepare_user_turn), server/turn/cases.py *)
(* (sync, mint, commands, auto-naming), server/session/state.py and        *)
(* case_state.py (pointer, pin), server/dispatch/persist.py and emitter.py *)
(* (row, card and layer writes), server/turn/stream.py (the turn).         *)
(*                                                                         *)
(* One action is what a handler or turn does between two awaits.           *)
(***************************************************************************)
EXTENDS Naturals

CONSTANTS
    Conns,       \* connections of the session
    Cases,       \* Case ids, minted or to be minted
    Turns,       \* turns; each produces at most one layer, named after it
    None,        \* no Case
    Never,       \* _CASE_SYNC_NEVER
    Untitled,    \* the title "Untitled Case"
    Given,       \* a title the user, or the prompt that created the Case, gave it
    Concurrent,  \* may a prompt arrive while a turn of its connection still runs?
    MintFails,   \* may the store refuse a new Case?
    ReadFails    \* may the store fail to read a Case?

ASSUME TargetingAssumption ==
    /\ {None, Never} \cap Cases = {} /\ None # Never
    /\ {Untitled, Given} \cap Turns = {} /\ Untitled # Given
    /\ {Concurrent, MintFails, ReadFails} \subseteq BOOLEAN

CaseOrNone == Cases \cup {None}

VARIABLES
    active,    \* _SESSION_ACTIVE_CASE of the session
    exists,    \* Cases in the store
    deleted,   \* Cases with status deleted
    titles,    \* Case -> title, or the turn whose prompt named it
    autonamed, \* _AUTONAMED_CASES: the Cases whose naming is settled
    stored,    \* Case -> layers of its persisted summaries
    stage,     \* connection -> where its handler awaits
    synced,    \* connection -> case_context_synced_to
    history,   \* connection -> the Case whose conversation chat_history holds
    pin,       \* connection -> current_turn_case_id
    accum,     \* connection -> its emitter's loaded layers
    status,    \* turn -> unused, naming, running, closing or done
    home,      \* turn -> connection
    owner,     \* turn -> turn_case_id captured at task entry
    probe,     \* turn -> the Case the naming at its start is about
    context,   \* turn -> the Case whose conversation it sends to the model
    opened,    \* history: turn -> what was opened on its connection while it was naming
    tool,      \* turn -> state of its tool call
    target,    \* turn -> the Case its tool call captured
    rows       \* turn -> Cases it wrote a chat row, tool card or chart to

caseVars == <<exists, deleted, titles, autonamed, stored>>
connVars == <<stage, synced, history, pin, accum>>
startVars == <<home, owner, probe, context, opened>>
turnVars == <<status, startVars, tool, target, rows>>
vars == <<active, caseVars, connVars, turnVars>>

Stages == {"idle", "rebound", "read", "mint", "minted", "launch", "opening", "created"}

TypeOK ==
    /\ active \in CaseOrNone
    /\ exists \in SUBSET Cases /\ deleted \in SUBSET exists
    /\ titles \in [Cases -> Turns \cup {Untitled, Given}]
    /\ autonamed \in SUBSET Cases
    /\ stored \in [Cases -> SUBSET Turns]
    /\ stage \in [Conns -> Stages]
    /\ synced \in [Conns -> CaseOrNone \cup {Never}]
    /\ history \in [Conns -> CaseOrNone]
    /\ pin \in [Conns -> CaseOrNone]
    /\ accum \in [Conns -> SUBSET Turns]
    /\ status \in [Turns -> {"unused", "naming", "running", "closing", "done"}]
    /\ home \in [Turns -> Conns \cup {None}]
    /\ owner \in [Turns -> CaseOrNone]
    /\ probe \in [Turns -> CaseOrNone]
    /\ context \in [Turns -> CaseOrNone \cup {Never}]
    /\ opened \in [Turns -> SUBSET CaseOrNone]
    /\ tool \in [Turns -> {"none", "called", "emitted", "done"}]
    /\ target \in [Turns -> CaseOrNone]
    /\ rows \in [Turns -> SUBSET exists]

\* Any Cases may be in the store already; a new connection has synced to none.
Init ==
    /\ active = None
    /\ exists \in SUBSET Cases /\ deleted = {}
    /\ titles = [k \in Cases |-> Given] /\ autonamed = {}
    /\ stored = [k \in Cases |-> {}]
    /\ stage = [c \in Conns |-> "idle"]
    /\ synced = [c \in Conns |-> Never]
    /\ history = [c \in Conns |-> None]
    /\ pin = [c \in Conns |-> None]
    /\ accum = [c \in Conns |-> {}]
    /\ status = [t \in Turns |-> "unused"]
    /\ home = [t \in Turns |-> None]
    /\ owner = [t \in Turns |-> None]
    /\ probe = [t \in Turns |-> None]
    /\ context = [t \in Turns |-> Never]
    /\ opened = [t \in Turns |-> {}]
    /\ tool = [t \in Turns |-> "none"]
    /\ target = [t \in Turns |-> None]
    /\ rows = [t \in Turns |-> {}]

-----------------------------------------------------------------------------
\* Mutant of TurnCase: the live pointer decides where a write goes.
LivePointer(c) == active

\* _turn_case_id: the connection's pin, else the live pointer.
TurnCase(c) == IF pin[c] # None THEN pin[c] ELSE active

\* A write with no Case goes nowhere.
Written(k) == {k} \ {None}

Live(t) == status[t] \in {"naming", "running", "closing"}
Busy(c) == \E t \in Turns : home[t] = c /\ Live(t)

\* The pin, and the user row that is written under it.
PinTurn(c, current) ==
    /\ pin' = [pin EXCEPT ![c] = current]
    /\ stage' = [stage EXCEPT ![c] = "launch"]

(* Mutant of Sync: a connection that holds a conversation does not sync again. *)
SyncsOnce(c) ==
    \/ /\ active \in Cases /\ synced[c] = Never /\ history[c] = None
       /\ stage' = [stage EXCEPT ![c] = "read"]
       /\ synced' = [synced EXCEPT ![c] = active]
       /\ history' = [history EXCEPT ![c] = None]
       /\ UNCHANGED <<pin, accum>>
    \/ /\ active = None
       /\ stage' = [stage EXCEPT ![c] = "mint"]
       /\ UNCHANGED <<synced, history, accum, pin>>
    \/ /\ active \in Cases /\ (synced[c] # Never \/ history[c] # None)
       /\ PinTurn(c, active)
       /\ UNCHANGED <<synced, history, accum>>

(* _sync_case_context up to its first await, and what follows when it has none:
   a stale connection reads the Case, one with no Case mints one, a synced one
   pins. *)
Sync(c) ==
    \/ /\ active \in Cases /\ synced[c] # active
       /\ stage' = [stage EXCEPT ![c] = "read"]
       /\ synced' = [synced EXCEPT ![c] = active]
       /\ history' = [history EXCEPT ![c] = None]
       /\ UNCHANGED <<pin, accum>>
    \/ /\ active = None
       /\ stage' = [stage EXCEPT ![c] = "mint"]
       /\ synced' = [synced EXCEPT ![c] = None]
       /\ IF synced[c] = None THEN UNCHANGED <<history, accum>>
          ELSE /\ history' = [history EXCEPT ![c] = None]
               /\ accum' = [accum EXCEPT ![c] = {}]
       /\ UNCHANGED pin
    \/ /\ active \in Cases /\ synced[c] = active
       /\ PinTurn(c, active)
       /\ UNCHANGED <<synced, history, accum>>

(* A prompt stamped with Case k, or unstamped (None): a differing stamp moves
   the pointer and is persisted first. *)
UserMessage(c, k) ==
    /\ stage[c] = "idle"
    /\ k = None \/ k \in exists
    /\ Concurrent \/ ~Busy(c)
    /\ \E t \in Turns : status[t] = "unused"
    /\ IF k # None /\ k # active
       THEN /\ active' = k
            /\ synced' = [synced EXCEPT ![c] = Never]
            /\ stage' = [stage EXCEPT ![c] = "rebound"]
            /\ UNCHANGED <<history, pin, accum>>
       ELSE Sync(c) /\ UNCHANGED active
    /\ UNCHANGED <<caseVars, turnVars>>

\* The stamp is persisted; the sync reads the pointer again.
SyncRebound(c) ==
    /\ stage[c] = "rebound"
    /\ Sync(c)
    /\ UNCHANGED <<active, caseVars, turnVars>>

\* A Case is minted when there is none by now; otherwise the turn is pinned.
AfterSync(c) ==
    IF active = None THEN stage' = [stage EXCEPT ![c] = "mint"] /\ UNCHANGED pin
    ELSE PinTurn(c, active)

(* The Case was read: seed the emitter, refill the history, pin whatever the
   pointer says now. *)
SyncRead(c) ==
    /\ stage[c] = "read"
    /\ accum' = [accum EXCEPT ![c] = stored[synced[c]]]
    /\ history' = [history EXCEPT ![c] = synced[c]]
    /\ AfterSync(c)
    /\ UNCHANGED <<active, synced, caseVars, turnVars>>

\* The read fails: the history stays empty, and the connection counts as synced.
SyncFails(c) ==
    /\ ReadFails
    /\ stage[c] = "read"
    /\ accum' = [accum EXCEPT ![c] = {}]
    /\ AfterSync(c)
    /\ UNCHANGED <<active, synced, history, caseVars, turnVars>>

(* _mint_case: the Case is stored, then becomes the session's and this
   connection's; an auto-created Case keeps the conversation that led to it. *)
MintCase(c, k) ==
    /\ stage[c] = "mint"
    /\ k \in Cases \ exists
    /\ exists' = exists \cup {k}
    /\ active' = k
    /\ synced' = [synced EXCEPT ![c] = k]
    /\ history' = [history EXCEPT ![c] = IF @ = None THEN k ELSE @]
    /\ stage' = [stage EXCEPT ![c] = "minted"]
    /\ UNCHANGED <<deleted, titles, autonamed, stored, pin, accum, turnVars>>

\* The session record was touched: the Case has its name, flush the accumulator and pin.
AutoCreated(c) ==
    /\ stage[c] = "minted"
    /\ autonamed' = autonamed \cup {synced[c]}
    /\ accum' = [accum EXCEPT ![c] = {}]
    /\ PinTurn(c, active)
    /\ UNCHANGED <<active, synced, history, exists, deleted, titles, stored, turnVars>>

\* The store refuses the new Case: the turn goes on with the pointer as it is.
MintRefused(c) ==
    /\ MintFails
    /\ stage[c] = "mint"
    /\ PinTurn(c, active)
    /\ UNCHANGED <<active, synced, history, accum, caseVars, turnVars>>

\* _maybe_autoname_case reads a Case whose naming is not settled.
NeedsName(k) == k # None /\ k \notin autonamed

(* The prompt of the turn names an untitled Case, if a title can be made of it, and the
   naming is settled; a store that fails leaves it open. *)
Autoname(t, k) ==
    \/ /\ NeedsName(k)
       /\ \E title \in {t, Untitled} :
             titles' = IF titles[k] = Untitled THEN [titles EXCEPT ![k] = title] ELSE titles
       /\ autonamed' = autonamed \cup {k}
    \/ /\ ReadFails \/ ~NeedsName(k)
       /\ UNCHANGED <<titles, autonamed>>

(* The task is created and runs to its first await: it captures its Case, and its
   history list unless the naming of the Case comes first; the turn of the same
   stream is superseded; every live turn of another connection hands its layers to
   this one's emitter. *)
Launch(c, t) ==
    /\ stage[c] = "launch"
    /\ status[t] = "unused"
    /\ status' = [u \in Turns |->
                    IF u = t THEN IF NeedsName(active) THEN "naming" ELSE "running"
                    ELSE IF status[u] \in {"naming", "running"} /\ owner[u] = pin[c] THEN "closing"
                    ELSE status[u]]
    /\ home' = [home EXCEPT ![t] = c]
    /\ owner' = [owner EXCEPT ![t] = TurnCase(c)]
    /\ probe' = [probe EXCEPT ![t] = active]
    /\ context' = IF NeedsName(active) THEN context ELSE [context EXCEPT ![t] = history[c]]
    /\ rows' = [rows EXCEPT ![t] = Written(pin[c])]
    /\ accum' = [accum EXCEPT ![c] = @ \cup UNION {accum[d] : d \in {home[u] : u \in {v \in Turns : Live(v)}}}]
    /\ stage' = [stage EXCEPT ![c] = "idle"]
    /\ UNCHANGED <<active, caseVars, synced, history, pin, opened, tool, target>>

\* The naming at the start is over: only now the turn takes its connection's history list.
EnterLoop(t) ==
    /\ status[t] = "naming"
    /\ Autoname(t, probe[t])
    /\ context' = [context EXCEPT ![t] = history[home[t]]]
    /\ status' = [status EXCEPT ![t] = "running"]
    /\ UNCHANGED <<active, exists, deleted, stored, connVars, home, owner, probe, opened, tool, target, rows>>

-----------------------------------------------------------------------------
\* Case k is opened on connection c, whose history is empty until it was read.
Opens(c, k) ==
    opened' = [t \in Turns |-> IF status[t] = "naming" /\ home[t] = c
                               THEN opened[t] \cup {None, k} ELSE opened[t]]

(* case-command select: pointer, marker and history at once, the emitter after
   the Case was read. *)
SelectCase(c, k) ==
    /\ stage[c] = "idle"
    /\ k \in exists
    /\ active' = k
    /\ synced' = [synced EXCEPT ![c] = k]
    /\ history' = [history EXCEPT ![c] = None]
    /\ stage' = [stage EXCEPT ![c] = "opening"]
    /\ Opens(c, k)
    /\ UNCHANGED <<pin, accum, caseVars, status, home, owner, probe, context, tool, target, rows>>

\* case-command create, with or without a title, from its stored Case on.
CreateCase(c, k, title) ==
    /\ stage[c] = "idle"
    /\ k \in Cases \ exists
    /\ exists' = exists \cup {k}
    /\ titles' = [titles EXCEPT ![k] = title]
    /\ active' = k
    /\ synced' = [synced EXCEPT ![c] = k]
    /\ history' = [history EXCEPT ![c] = None]
    /\ stage' = [stage EXCEPT ![c] = "created"]
    /\ Opens(c, k)
    /\ UNCHANGED <<deleted, autonamed, stored, pin, accum, status, home, owner, probe, context,
                   tool, target, rows>>

\* The opened Case's layers replace the accumulator and its rows the history.
CaseOpened(c) ==
    /\ stage[c] \in {"opening", "created"}
    /\ accum' = [accum EXCEPT ![c] = IF stage[c] = "created" THEN {} ELSE stored[synced[c]]]
    /\ history' = [history EXCEPT ![c] = synced[c]]
    /\ stage' = [stage EXCEPT ![c] = "idle"]
    /\ UNCHANGED <<active, synced, pin, caseVars, turnVars>>

\* The read fails: the Case is open with no history and the accumulator of the one left.
OpenFails(c) ==
    /\ ReadFails
    /\ stage[c] = "opening"
    /\ stage' = [stage EXCEPT ![c] = "idle"]
    /\ UNCHANGED <<active, synced, history, pin, accum, caseVars, turnVars>>

(* case-command delete: the Case is marked deleted; when it was the active one
   the pointer and this connection's marker are cleared, the history is not. *)
DeleteCase(c, k) ==
    /\ stage[c] = "idle"
    /\ k \in exists \ deleted
    /\ deleted' = deleted \cup {k}
    /\ IF k = active
       THEN active' = None /\ synced' = [synced EXCEPT ![c] = None]
       ELSE UNCHANGED <<active, synced>>
    /\ UNCHANGED <<exists, titles, autonamed, stored, stage, history, pin, accum, turnVars>>

-----------------------------------------------------------------------------
(* A narration segment, a chart or a failure card: the Case is resolved when
   the row is written. *)
WriteRow(t) ==
    /\ status[t] = "running"
    /\ rows' = [rows EXCEPT ![t] = @ \cup Written(TurnCase(home[t]))]
    /\ UNCHANGED <<active, caseVars, connVars, status, startVars, tool, target>>

\* A tool call captures its Case up front.
StartTool(t) ==
    /\ status[t] = "running" /\ tool[t] = "none"
    /\ tool' = [tool EXCEPT ![t] = "called"]
    /\ target' = [target EXCEPT ![t] = TurnCase(home[t])]
    /\ UNCHANGED <<active, caseVars, connVars, status, startVars, rows>>

\* add_loaded_layer: the layer joins the accumulator of the launching connection.
EmitLayer(t) ==
    /\ tool[t] = "called" /\ status[t] = "running"
    /\ tool' = [tool EXCEPT ![t] = "emitted"]
    /\ accum' = [accum EXCEPT ![home[t]] = @ \cup {t}]
    /\ UNCHANGED <<active, caseVars, stage, synced, history, pin, status, startVars,
                   target, rows>>

(* The call's finally: the tool card, unless the turn was cancelled, then the
   whole accumulator merged into the captured Case, deleted or not. *)
PersistTool(t) ==
    /\ tool[t] \in {"called", "emitted"}
    /\ tool' = [tool EXCEPT ![t] = "done"]
    /\ rows' = IF status[t] = "running"
               THEN [rows EXCEPT ![t] = @ \cup Written(target[t])] ELSE rows
    /\ stored' = IF target[t] \in exists
                 THEN [stored EXCEPT ![target[t]] = @ \cup accum[home[t]]] ELSE stored
    /\ UNCHANGED <<active, exists, deleted, titles, autonamed, connVars, status, startVars, target>>

InCall(t) == tool[t] \in {"called", "emitted"}

\* The loop ends by itself and names a still untitled Case.
EndTurn(t) ==
    /\ status[t] = "running" /\ ~InCall(t)
    /\ status' = [status EXCEPT ![t] = "closing"]
    /\ Autoname(t, active)
    /\ UNCHANGED <<active, exists, deleted, stored, connVars, startVars, tool, target, rows>>

\* A stop.
CancelTurn(t) ==
    /\ status[t] \in {"naming", "running"}
    /\ status' = [status EXCEPT ![t] = "closing"]
    /\ UNCHANGED <<active, caseVars, connVars, startVars, tool, target, rows>>

\* The wrapper's finally: the closing row goes to the captured Case, and its locals are gone.
CloseTurn(t) ==
    /\ status[t] = "closing" /\ ~InCall(t)
    /\ status' = [status EXCEPT ![t] = "done"]
    /\ rows' = [rows EXCEPT ![t] = @ \cup Written(owner[t])]
    /\ context' = [context EXCEPT ![t] = Never] /\ opened' = [opened EXCEPT ![t] = {}]
    /\ UNCHANGED <<active, caseVars, connVars, home, owner, probe, tool, target>>

ConnStep(c) ==
    \/ SyncRebound(c) \/ SyncRead(c) \/ SyncFails(c) \/ AutoCreated(c) \/ MintRefused(c)
    \/ CaseOpened(c) \/ OpenFails(c)
    \/ \E k \in CaseOrNone : UserMessage(c, k)
    \/ \E k \in Cases :
          \/ MintCase(c, k) \/ SelectCase(c, k) \/ DeleteCase(c, k)
          \/ \E title \in {Untitled, Given} : CreateCase(c, k, title)
    \/ \E t \in Turns : Launch(c, t)

TurnStep(t) ==
    \/ EnterLoop(t) \/ WriteRow(t) \/ StartTool(t) \/ EmitLayer(t) \/ PersistTool(t)
    \/ EndTurn(t) \/ CancelTurn(t) \/ CloseTurn(t)

Next == (\E c \in Conns : ConnStep(c)) \/ (\E t \in Turns : TurnStep(t))

Spec == Init /\ [][Next]_vars

-----------------------------------------------------------------------------
(* Every chat row, tool card and chart of a turn that was launched in a Case lands
   in that Case, whatever is selected, created or deleted while it runs. *)
NoStrayRows == \A t \in Turns : owner[t] # None => rows[t] \subseteq {owner[t]}

(* A turn sends the model the conversation of its own Case, except after the
   Case of that conversation was deleted (which leaves the history in place), and
   except that of a Case opened on the connection while the turn still named its own;
   a failed read may leave it with none, never with another Case's. *)
TurnContextIsItsCase ==
    \A t \in Turns : context[t] # Never =>
        context[t] \in {owner[t]} \cup deleted \cup {k \in {None} : ReadFails} \cup opened[t]
=============================================================================
