----------------------------- MODULE TurnStreams -----------------------------
(***************************************************************************)
(* The turns of one session: how they are launched, superseded, stopped,   *)
(* detached from a closed socket and rebound to a new one.                 *)
(*                                                                         *)
(* Sources: server/protocol/loop.py (the connection handler),              *)
(* server/protocol/handlers.py (dev-tool-invoke), server/protocol/auth.py  *)
(* (session-resume), server/turn/live_turn.py (the session-wide registry), *)
(* server/turn/cases.py (case select and delete) and the turn wrapper of   *)
(* server/turn/stream.py.                                                  *)
(*                                                                         *)
(* Each connection handles its messages one at a time; a turn is an asyncio *)
(* task of its own.  Which Case a prompt is pinned to is the subject of    *)
(* CaseTargeting: here the pre-dispatch sequence is one step that ends with *)
(* the pin, followed by the await that persists the user row.              *)
(***************************************************************************)
EXTENDS Naturals

CONSTANTS
    Conns,     \* sockets the client opens over the life of the session
    Cases,     \* Case ids
    Turns,     \* turn tasks; their number bounds the model
    Root,      \* the stream of a turn with no Case (_ROOT_STREAM_KEY)
    NoTurn,    \* an absent registry entry
    NoConn,    \* the home of a turn not launched yet
    NoStream,  \* a handler with no prompt in preparation
    Overlap    \* may a socket connect while the handler of another one still runs?

Streams == Cases \cup {Root}

ASSUME StreamsAssumption ==
    /\ Root \notin Cases
    /\ NoTurn \notin Turns
    /\ NoConn \notin Conns
    /\ NoStream \notin Streams
    /\ Overlap \in BOOLEAN

(* running: in its body; closing: in the finally of its wrapper; superseded and
   stopped: cancelled once and on the way to that finally; aborted: cancelled
   while it was on the way or in it. *)
Closing == {"closing", "superseded", "stopped", "aborted"}
\* Phases in which Task.done() is False.
Unfinished == Closing \cup {"running"}
Phases == Unfinished \cup {"unused", "done", "killed"}

VARIABLES
    socket,     \* connection -> new, open or closed
    active,     \* the session's active-Case pointer (Root: None)
    preparing,  \* connection -> stream its current prompt is pinned to, or NoStream
    waiting,    \* connection -> the turn its stop handler waits for, or NoTurn
    inflight,   \* SessionState.inflight_tasks: connection -> stream -> turn
    live,       \* _SESSION_LIVE_TURNS of this session: stream -> turn
    sink,       \* connection's emitter -> the connection its frames are sent on
    resumed,    \* did_first_resume, per connection
    fresh,      \* did_fresh_resume, per connection
    phase,      \* life of each turn
    home,       \* turn -> the connection (socket, SessionState, emitter) that launched it
    owner,      \* turn -> its stream, the key it is registered under
    unsettled   \* turns the client still shows as running

vars == <<socket, active, preparing, waiting, inflight, live, sink, resumed, fresh,
          phase, home, owner, unsettled>>

TypeOK ==
    /\ socket \in [Conns -> {"new", "open", "closed"}]
    /\ active \in Streams
    /\ preparing \in [Conns -> Streams \cup {NoStream}]
    /\ waiting \in [Conns -> Turns \cup {NoTurn}]
    /\ inflight \in [Conns -> [Streams -> Turns \cup {NoTurn}]]
    /\ live \in [Streams -> Turns \cup {NoTurn}]
    /\ sink \in [Conns -> Conns]
    /\ resumed \in [Conns -> BOOLEAN]
    /\ fresh \in [Conns -> BOOLEAN]
    /\ phase \in [Turns -> Phases]
    /\ home \in [Turns -> Conns \cup {NoConn}]
    /\ owner \in [Turns -> Streams]
    /\ unsettled \in SUBSET Turns
    /\ \A t \in Turns : phase[t] = "unused" <=> home[t] = NoConn

Init ==
    /\ socket = [c \in Conns |-> "new"]
    /\ active = Root
    /\ preparing = [c \in Conns |-> NoStream]
    /\ waiting = [c \in Conns |-> NoTurn]
    /\ inflight = [c \in Conns |-> [s \in Streams |-> NoTurn]]
    /\ live = [s \in Streams |-> NoTurn]
    /\ sink = [c \in Conns |-> c]
    /\ resumed = [c \in Conns |-> FALSE]
    /\ fresh = [c \in Conns |-> FALSE]
    /\ phase = [t \in Turns |-> "unused"]
    /\ home = [t \in Turns |-> NoConn]
    /\ owner = [t \in Turns |-> Root]
    /\ unsettled = {}

-----------------------------------------------------------------------------
\* The connection is between two messages.
Listening(c) == socket[c] = "open" /\ preparing[c] = NoStream /\ waiting[c] = NoTurn

\* Mutant of ReboundStreams: a turn that is being cancelled is not rebound.
SkipsCancelled(c, streams) ==
    {s \in streams : live[s] # NoTurn /\ home[live[s]] # c /\ phase[live[s]] = "running"}

(* _rebind_live_turns: the emitter of every unfinished registered turn, among
   the streams asked for, that another connection launched gets the sink of
   c's emitter - whatever that sink is by now. *)
ReboundStreams(c, streams) == {s \in streams : live[s] # NoTurn /\ home[live[s]] # c}

Rebind(c, streams) ==
    sink' = [d \in Conns |->
               IF \E s \in ReboundStreams(c, streams) : home[live[s]] = d
               THEN sink[c] ELSE sink[d]]

\* Task.cancel(): it unwinds a running body; one that comes later hits the closing step.
Cancelled(p, how) == IF p = "running" THEN how ELSE "aborted"

\* Mutant of Prior: only this connection's own turns are looked up.
PriorOfOwnSocket(c, s) == inflight[c][s]

(* What a new prompt of stream s supersedes: this connection's own entry when
   its task is unfinished, else the session registry's. *)
Prior(c, s) == IF inflight[c][s] # NoTurn THEN inflight[c][s] ELSE live[s]

(* The turns a stop may cancel: the visible stream's turn of this connection,
   else a live turn of this connection, else the visible stream's registered
   turn, else any registered turn.  Which of several equals is taken depends
   on dictionary order and is left open. *)
OwnTurns(c) == {inflight[c][s] : s \in Streams} \ {NoTurn}

\* Mutant of StopTargets: with no turn of its own the connection takes any registered one.
StopsAnyDetached(c) ==
    IF inflight[c][active] # NoTurn THEN {inflight[c][active]}
    ELSE IF OwnTurns(c) # {} THEN OwnTurns(c)
    ELSE {live[s] : s \in Streams} \ {NoTurn}

StopTargets(c) ==
    IF inflight[c][active] # NoTurn THEN {inflight[c][active]}
    ELSE IF OwnTurns(c) # {} THEN OwnTurns(c)
    ELSE IF live[active] # NoTurn THEN {live[active]}
    ELSE {live[s] : s \in Streams} \ {NoTurn}

-----------------------------------------------------------------------------
(* A socket of the session connects and passes the handshake. *)
Open(c) ==
    /\ socket[c] = "new"
    /\ Overlap \/ \A d \in Conns : socket[d] # "open"
    /\ socket' = [socket EXCEPT ![c] = "open"]
    /\ UNCHANGED <<active, preparing, waiting, inflight, live, sink, resumed, fresh,
                   phase, home, owner, unsettled>>

(* Mutant of SessionResume: the first resume spends the idle signal even when it
   rebinds a turn. *)
SpendsIdleSignal(c, s) ==
    /\ Listening(c)
    /\ s = active \/ (~resumed[c] /\ s \in Cases)
    /\ active' = s
    /\ resumed' = [resumed EXCEPT ![c] = TRUE]
    /\ Rebind(c, Streams)
    /\ fresh' = [fresh EXCEPT ![c] = TRUE]
    /\ unsettled' = IF ReboundStreams(c, Streams) = {} /\ ~fresh[c] THEN {} ELSE unsettled
    /\ UNCHANGED <<socket, preparing, waiting, inflight, live, phase, home, owner>>

(* session-resume: the first one on a connection may rebind the pointer to the
   client's Case; every one rebinds the live turns; the layer replay and the
   idle signal happen once, on the first resume that rebinds nothing. *)
SessionResume(c, s) ==
    /\ Listening(c)
    /\ s = active \/ (~resumed[c] /\ s \in Cases)
    /\ active' = s
    /\ resumed' = [resumed EXCEPT ![c] = TRUE]
    /\ Rebind(c, Streams)
    /\ IF ReboundStreams(c, Streams) = {} /\ ~fresh[c]
       THEN fresh' = [fresh EXCEPT ![c] = TRUE] /\ unsettled' = {}
       ELSE UNCHANGED <<fresh, unsettled>>
    /\ UNCHANGED <<socket, preparing, waiting, inflight, live, phase, home, owner>>

(* case-command select or create: the pointer moves, and only that Case's live
   turn is rebound. *)
OpenCase(c, s) ==
    /\ Listening(c)
    /\ s \in Cases
    /\ active' = s
    /\ Rebind(c, {s})
    /\ UNCHANGED <<socket, preparing, waiting, inflight, live, resumed, fresh, phase, home,
                   owner, unsettled>>

\* case-command delete of the active Case.
DeleteActiveCase(c) ==
    /\ Listening(c)
    /\ active # Root
    /\ active' = Root
    /\ UNCHANGED <<socket, preparing, waiting, inflight, live, sink, resumed, fresh, phase,
                   home, owner, unsettled>>

(* A prompt (user-message or dev-tool-invoke) up to its pin: the stamped or
   auto-created Case becomes active; Root when no Case could be created. *)
UserMessage(c, s) ==
    /\ Listening(c)
    /\ \E t \in Turns : phase[t] = "unused"
    /\ s \in Cases \/ s = active
    /\ active' = s
    /\ preparing' = [preparing EXCEPT ![c] = s]
    /\ UNCHANGED <<socket, waiting, inflight, live, sink, resumed, fresh, phase, home,
                   owner, unsettled>>

(* The user row is persisted; supersede, rebind, create the task and register
   it, with no await in between. *)
LaunchTurn(c, t) ==
    /\ preparing[c] # NoStream
    /\ phase[t] = "unused"
    /\ LET s == preparing[c]
           prior == Prior(c, s)
       IN /\ phase' = [u \in Turns |->
                          IF u = t THEN "running"
                          ELSE IF u = prior THEN Cancelled(phase[u], "superseded")
                          ELSE phase[u]]
          /\ Rebind(c, Streams)
          /\ inflight' = [inflight EXCEPT ![c][s] = t]
          /\ live' = [live EXCEPT ![s] = t]
          /\ owner' = [owner EXCEPT ![t] = s]
    /\ home' = [home EXCEPT ![t] = c]
    /\ unsettled' = unsettled \cup {t}
    /\ preparing' = [preparing EXCEPT ![c] = NoStream]
    /\ UNCHANGED <<socket, active, waiting, resumed, fresh>>

(* The cancel envelope: cancel the target and wait for it to end. *)
Stop(c) ==
    /\ Listening(c)
    /\ \E t \in StopTargets(c) :
          /\ phase' = [phase EXCEPT ![t] = Cancelled(@, "stopped")]
          /\ waiting' = [waiting EXCEPT ![c] = t]
    /\ UNCHANGED <<socket, active, preparing, inflight, live, sink, resumed, fresh,
                   home, owner, unsettled>>

(* wait_for's 5s run out: it cancels the task a second time, and still waits
   for its end. *)
StopWaitExpires(c) ==
    /\ waiting[c] # NoTurn
    /\ phase' = [phase EXCEPT ![waiting[c]] = "aborted"]
    /\ UNCHANGED <<socket, active, preparing, waiting, inflight, live, sink, resumed,
                   fresh, home, owner, unsettled>>

(* The socket drops.  Its unfinished turns are detached, not cancelled: each
   one that does not own its registry slot is registered again. *)
Close(c) ==
    /\ Listening(c)
    /\ socket' = [socket EXCEPT ![c] = "closed"]
    /\ live' = [s \in Streams |-> IF inflight[c][s] # NoTurn THEN inflight[c][s] ELSE live[s]]
    /\ inflight' = [inflight EXCEPT ![c] = [s \in Streams |-> NoTurn]]
    /\ UNCHANGED <<active, preparing, waiting, sink, resumed, fresh, phase, home, owner,
                   unsettled>>

(* The done-callback frees the slot only while this task owns it, a done entry
   of inflight_tasks reads as absent, and a stop handler waiting for the task
   resumes. *)
DropTurn(t) ==
    /\ live' = [s \in Streams |-> IF live[s] = t THEN NoTurn ELSE live[s]]
    /\ inflight' = [c \in Conns |-> [s \in Streams |->
                      IF inflight[c][s] = t THEN NoTurn ELSE inflight[c][s]]]
    /\ waiting' = [c \in Conns |-> IF waiting[c] = t THEN NoTurn ELSE waiting[c]]

\* The body of a turn returns or raises by itself.
EndBody(t) ==
    /\ phase[t] = "running"
    /\ phase' = [phase EXCEPT ![t] = "closing"]
    /\ UNCHANGED <<socket, active, preparing, waiting, inflight, live, sink, resumed,
                   fresh, home, owner, unsettled>>

(* The closing step runs to its end: turn-complete goes out on the
   socket that launched it, reaching the client only if that one is open. *)
Finish(t) ==
    /\ phase[t] \in Closing
    /\ phase' = [phase EXCEPT ![t] = "done"]
    /\ unsettled' = IF socket[home[t]] = "open" THEN unsettled \ {t} ELSE unsettled
    /\ DropTurn(t)
    /\ UNCHANGED <<socket, active, preparing, sink, resumed, fresh, home, owner>>

(* A turn cancelled again during its closing step ends without it. *)
Die(t) ==
    /\ phase[t] = "aborted"
    /\ phase' = [phase EXCEPT ![t] = "killed"]
    /\ DropTurn(t)
    /\ UNCHANGED <<socket, active, preparing, sink, resumed, fresh, home, owner,
                   unsettled>>

ConnStep(c) ==
    \/ Open(c) \/ DeleteActiveCase(c) \/ Stop(c) \/ StopWaitExpires(c)
    \/ Close(c)
    \/ \E s \in Streams : SessionResume(c, s) \/ OpenCase(c, s) \/ UserMessage(c, s)
    \/ \E t \in Turns : LaunchTurn(c, t)

TurnStep(t) == EndBody(t) \/ Finish(t) \/ Die(t)

Next == (\E c \in Conns : ConnStep(c)) \/ (\E t \in Turns : TurnStep(t))

(* A prompt in preparation is dispatched (its await is a store write), every
   turn ends (its wall clock and gate waits are bounded), and an open
   connection keeps sending its keepalive session-resume. *)
Fairness ==
    /\ \A c \in Conns : WF_vars(\E t \in Turns : LaunchTurn(c, t))
    /\ \A t \in Turns : WF_vars(TurnStep(t))
    /\ \A c \in Conns : WF_vars(SessionResume(c, active))

Spec == Init /\ [][Next]_vars /\ Fairness

-----------------------------------------------------------------------------
(* At most one turn of a stream is past its launch and not cancelled: a
   re-prompt in the same stream supersedes the prior turn, the one a closed
   socket left in the registry included (loop.py, user-message). *)
OneRunningTurnPerStream ==
    \A t, u \in Turns :
       phase[t] = "running" /\ phase[u] = "running" /\ owner[t] = owner[u] => t = u

(* A turn that still runs is the registered turn of its stream, so a stop and a
   re-prompt from any later socket can find it (loop.py, the handler's finally). *)
RunningTurnRegistered ==
    \A t \in Turns : phase[t] = "running" => live[owner[t]] = t

(* Once the one open socket has resumed, every turn still alive sends its
   progress there, wherever it was launched (_rebind_live_turns). *)
FramesReachOpenSocket ==
    \A c \in Conns, s \in Streams :
       socket[c] = "open" /\ resumed[c] /\ live[s] # NoTurn => sink[home[live[s]]] = c

(* However sockets overlap, close and reopen, a registry slot never holds a
   turn of another stream or one that has ended (_register_live_turn, _drop). *)
SlotsHoldOwnLiveTurns ==
    \A s \in Streams : live[s] # NoTurn =>
       owner[live[s]] = s /\ phase[live[s]] \in Unfinished

(* A prompt cancels no turn but those of its own stream: a prompt in one Case
   never ends a run of another (loop.py, stream-scoped cancellation). *)
PromptsCancelOwnStreamOnly ==
    [][\A t, u \in Turns :
          phase[u] = "unused" /\ phase'[u] = "running" /\ t # u /\ phase'[t] # phase[t]
          => owner[t] = owner'[u]]_vars

(* An answer that ended while its socket was down, and is still shown as
   running by the client, is settled by a later resume of the socket that took
   over, or that one drops too (auth.py, the idle signal of a fresh resume). *)
EndedTurnSettles ==
    \A c \in Conns, t \in Turns :
       (socket[c] = "open" /\ phase[t] = "done" /\ t \in unsettled)
          ~> (t \notin unsettled \/ socket[c] # "open")

(* A stop reaches the running turn of the Case the user is looking at, launched
   on this socket or left behind by a closed one, if this socket runs no turn of
   another Case (loop.py, cancel: "Target the VISIBLE stream's turn"). *)
StopReachesVisibleTurn ==
    [][\A c \in Conns, t \in Turns :
          /\ Stop(c) /\ phase[t] = "running" /\ owner[t] = active
          /\ \A s \in Streams \ {active} : inflight[c][s] = NoTurn
          => phase'[t] = "stopped"]_vars
=============================================================================
