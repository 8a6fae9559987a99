-------------------------- MODULE ConnectionProofs --------------------------
(***************************************************************************)
(* Proofs about the two ends of a connection: the server's turn streams,   *)
(* for any number of sockets, Cases and turns, and the plugin's link, for  *)
(* any number of frames, faults and any bound of the queue.                *)
(*                                                                         *)
(* TurnStreams: GInv holds however sockets overlap.  SInv adds what is     *)
(* true only when a socket connects after the handler of the previous one  *)
(* has finished; it makes the one-running-turn and frame-delivery          *)
(* invariants inductive.                                                   *)
(*                                                                         *)
(* PluginLink: LinkInv says that at most one connection is alive, the      *)
(* client's.  FifoInv lines up what the server read, what is on that       *)
(* connection, the batch being flushed and the queue: every step moves     *)
(* frames along the line, drops some, or puts the newest at its place.     *)
(***************************************************************************)
EXTENDS TurnStreams, PluginLink, SequenceTheorems, TLAPS


\* Every entry of a connection's inflight_tasks is an unfinished turn of that stream.
EntriesHoldOwnLiveTurns ==
    \A c \in Conns, s \in Streams : inflight[c][s] # NoTurn =>
       owner[inflight[c][s]] = s /\ phase[inflight[c][s]] \in Unfinished

\* A stop handler waits only for a turn that has not ended.
WaitsForLiveTurn ==
    \A c \in Conns : waiting[c] # NoTurn => phase[waiting[c]] \in Unfinished

GInv == TypeOK /\ SlotsHoldOwnLiveTurns /\ EntriesHoldOwnLiveTurns /\ WaitsForLiveTurn

-----------------------------------------------------------------------------
\* A cancel never turns a launched turn back into an unused one, nor ends it.
LEMMA CancelledUnfinished ==
    ASSUME NEW p \in Unfinished, NEW how \in Closing
    PROVE  Cancelled(p, how) \in Unfinished
BY DEF Cancelled, Unfinished, Closing

\* The sinks stay connections whatever is rebound.
LEMMA RebindType ==
    ASSUME TypeOK, NEW c \in Conns, NEW streams, Rebind(c, streams)
    PROVE  sink' \in [Conns -> Conns]
BY DEF TypeOK, Rebind

\* Dropping an ended turn keeps the registries well formed and free of it.
LEMMA DropTurnFacts ==
    ASSUME TypeOK, NEW t \in Turns, DropTurn(t)
    PROVE  /\ live' \in [Streams -> Turns \cup {NoTurn}]
           /\ inflight' \in [Conns -> [Streams -> Turns \cup {NoTurn}]]
           /\ waiting' \in [Conns -> Turns \cup {NoTurn}]
           /\ \A s \in Streams : live'[s] # t /\ live'[s] \in {live[s], NoTurn}
           /\ \A c \in Conns, s \in Streams :
                 inflight'[c][s] # t /\ inflight'[c][s] \in {inflight[c][s], NoTurn}
           /\ \A c \in Conns : waiting'[c] # t /\ waiting'[c] \in {waiting[c], NoTurn}
BY StreamsAssumption DEF TypeOK, DropTurn

\* What a stop or a supersede targets is a launched, unfinished turn.
LEMMA TargetsUnfinished ==
    ASSUME GInv, NEW c \in Conns
    PROVE  /\ \A t \in StopTargets(c) : t \in Turns /\ phase[t] \in Unfinished
           /\ \A s \in Streams : Prior(c, s) \in Turns \cup {NoTurn}
           /\ \A s \in Streams : Prior(c, s) # NoTurn =>
                 owner[Prior(c, s)] = s /\ phase[Prior(c, s)] \in Unfinished
<1>1. active \in Streams BY DEF GInv, TypeOK
<1>2. \A s \in Streams : inflight[c][s] # NoTurn =>
          /\ inflight[c][s] \in Turns
          /\ owner[inflight[c][s]] = s /\ phase[inflight[c][s]] \in Unfinished
  BY DEF GInv, TypeOK, EntriesHoldOwnLiveTurns
<1>3. \A s \in Streams : live[s] # NoTurn =>
          live[s] \in Turns /\ owner[live[s]] = s /\ phase[live[s]] \in Unfinished
  BY DEF GInv, TypeOK, SlotsHoldOwnLiveTurns
<1>4. \A t \in OwnTurns(c) : t \in Turns /\ phase[t] \in Unfinished
  BY <1>2 DEF OwnTurns
<1>5. \A t \in StopTargets(c) : t \in Turns /\ phase[t] \in Unfinished
  BY <1>1, <1>2, <1>3, <1>4 DEF StopTargets
<1> QED BY <1>2, <1>3, <1>5 DEF Prior

\* A registered turn was launched by some connection.
LEMMA LiveHasHome ==
    ASSUME GInv, NEW s \in Streams, live[s] # NoTurn
    PROVE  live[s] \in Turns /\ home[live[s]] \in Conns
<1>1. live[s] \in Turns /\ phase[live[s]] \in Unfinished
  BY DEF GInv, TypeOK, SlotsHoldOwnLiveTurns
<1>2. phase[live[s]] # "unused" BY <1>1 DEF Unfinished, Closing
<1> QED BY <1>1, <1>2 DEF GInv, TypeOK

-----------------------------------------------------------------------------
(* Every step keeps the registries well formed. *)
LEMMA GInvStep == GInv /\ [Next]_vars => GInv'
<1> SUFFICES ASSUME GInv, [Next]_vars PROVE GInv' OBVIOUS
<1> USE StreamsAssumption
<1>t. TypeOK BY DEF GInv
<1>1. ASSUME NEW c \in Conns, Open(c) PROVE GInv'
  BY <1>1 DEF GInv, TypeOK, SlotsHoldOwnLiveTurns, EntriesHoldOwnLiveTurns,
              WaitsForLiveTurn, Open
<1>2. ASSUME NEW c \in Conns, DeleteActiveCase(c) PROVE GInv'
  BY <1>2 DEF GInv, TypeOK, SlotsHoldOwnLiveTurns, EntriesHoldOwnLiveTurns,
              WaitsForLiveTurn, DeleteActiveCase, Streams
<1>3. ASSUME NEW c \in Conns, NEW s \in Streams, SessionResume(c, s) PROVE GInv'
  <2>1. sink' \in [Conns -> Conns] BY <1>3, <1>t, RebindType DEF SessionResume
  <2>2. unsettled' \in SUBSET Turns /\ fresh' \in [Conns -> BOOLEAN]
    BY <1>3, <1>t DEF SessionResume, TypeOK
  <2> QED
    BY <1>3, <2>1, <2>2 DEF GInv, TypeOK, SlotsHoldOwnLiveTurns,
       EntriesHoldOwnLiveTurns, WaitsForLiveTurn, SessionResume
<1>4. ASSUME NEW c \in Conns, NEW s \in Streams, OpenCase(c, s) PROVE GInv'
  <2>1. sink' \in [Conns -> Conns] BY <1>4, <1>t, RebindType DEF OpenCase
  <2> QED
    BY <1>4, <2>1 DEF GInv, TypeOK, SlotsHoldOwnLiveTurns,
       EntriesHoldOwnLiveTurns, WaitsForLiveTurn, OpenCase
<1>5. ASSUME NEW c \in Conns, NEW s \in Streams, UserMessage(c, s) PROVE GInv'
  BY <1>5 DEF GInv, TypeOK, SlotsHoldOwnLiveTurns, EntriesHoldOwnLiveTurns,
              WaitsForLiveTurn, UserMessage
<1>6. ASSUME NEW c \in Conns, NEW t \in Turns, LaunchTurn(c, t) PROVE GInv'
  <2> DEFINE s == preparing[c]
  <2>1. s \in Streams BY <1>6, <1>t DEF LaunchTurn, TypeOK
  <2>2. sink' \in [Conns -> Conns] BY <1>6, <1>t, RebindType DEF LaunchTurn
  <2>3. /\ phase[t] = "unused" /\ phase'[t] = "running"
        /\ \A u \in Turns : u # t =>
              phase'[u] = phase[u] \/
              (u = Prior(c, s) /\ phase'[u] = Cancelled(phase[u], "superseded"))
        /\ phase' = [u \in Turns |-> phase'[u]]
    BY <1>6 DEF LaunchTurn
  <2>4. \A u \in Turns : u # t =>
           /\ phase[u] \in Unfinished => phase'[u] \in Unfinished
           /\ phase'[u] = phase[u] \/ (phase[u] \in Unfinished /\ phase'[u] \in Unfinished)
    BY <2>1, <2>3, TargetsUnfinished, CancelledUnfinished DEF Closing
  <2>5. phase' \in [Turns -> Phases]
    BY <2>3, <2>4, <1>t DEF TypeOK, Phases, Unfinished
  <2>6. \A u \in Turns : phase'[u] = "unused" <=> home'[u] = NoConn
    BY <1>6, <2>3, <2>4, <1>t DEF TypeOK, LaunchTurn, Unfinished, Closing
  <2>7. TypeOK'
    BY <1>6, <2>1, <2>2, <2>5, <2>6, <1>t DEF TypeOK, LaunchTurn
  <2>8. /\ live' = [live EXCEPT ![s] = t] /\ owner' = [owner EXCEPT ![t] = s]
        /\ inflight' = [inflight EXCEPT ![c][s] = t] /\ waiting' = waiting
    BY <1>6 DEF LaunchTurn
  <2>a. \A u \in Turns : phase[u] \in Unfinished =>
           u # t /\ phase'[u] \in Unfinished /\ owner'[u] = owner[u]
    BY <2>3, <2>4, <2>8, <1>t DEF TypeOK, Unfinished, Closing
  <2>b. phase'[t] \in Unfinished /\ owner'[t] = s
    BY <2>1, <2>3, <2>8, <1>t DEF TypeOK, Unfinished
  <2>9. SlotsHoldOwnLiveTurns'
    <3> SUFFICES ASSUME NEW r \in Streams, live'[r] # NoTurn
                 PROVE  owner'[live'[r]] = r /\ phase'[live'[r]] \in Unfinished
      BY DEF SlotsHoldOwnLiveTurns
    <3>1. CASE r = s BY <3>1, <2>1, <2>8, <2>b, <1>t DEF TypeOK
    <3>2. CASE r # s
      <4>1. live'[r] = live[r] BY <3>2, <2>1, <2>8, <1>t DEF TypeOK
      <4>2. live[r] \in Turns /\ owner[live[r]] = r /\ phase[live[r]] \in Unfinished
        BY <4>1 DEF GInv, TypeOK, SlotsHoldOwnLiveTurns
      <4> QED BY <4>1, <4>2, <2>a
    <3> QED BY <3>1, <3>2
  <2>10. EntriesHoldOwnLiveTurns'
    <3> SUFFICES ASSUME NEW d \in Conns, NEW r \in Streams, inflight'[d][r] # NoTurn
                 PROVE  /\ owner'[inflight'[d][r]] = r
                        /\ phase'[inflight'[d][r]] \in Unfinished
      BY DEF EntriesHoldOwnLiveTurns
    <3>1. CASE d = c /\ r = s BY <3>1, <2>1, <2>8, <2>b, <1>t DEF TypeOK
    <3>2. CASE ~(d = c /\ r = s)
      <4>1. inflight'[d][r] = inflight[d][r] BY <3>2, <2>1, <2>8, <1>t DEF TypeOK
      <4>2. /\ inflight[d][r] \in Turns /\ owner[inflight[d][r]] = r
            /\ phase[inflight[d][r]] \in Unfinished
        BY <4>1 DEF GInv, TypeOK, EntriesHoldOwnLiveTurns
      <4> QED BY <4>1, <4>2, <2>a
    <3> QED BY <3>1, <3>2
  <2>11. WaitsForLiveTurn'
    BY <2>3, <2>4, <2>8, <1>t DEF GInv, TypeOK, WaitsForLiveTurn, Unfinished, Closing
  <2> QED BY <2>7, <2>9, <2>10, <2>11 DEF GInv
<1>7. ASSUME NEW c \in Conns, Stop(c) PROVE GInv'
  <2>1. PICK t \in StopTargets(c) :
           /\ phase' = [phase EXCEPT ![t] = Cancelled(@, "stopped")]
           /\ waiting' = [waiting EXCEPT ![c] = t]
    BY <1>7 DEF Stop
  <2>2. t \in Turns /\ phase[t] \in Unfinished BY TargetsUnfinished
  <2>3. phase'[t] \in Unfinished
    BY <2>1, <2>2, <1>t, CancelledUnfinished DEF TypeOK, Closing
  <2> QED
    BY <1>7, <2>1, <2>2, <2>3 DEF GInv, TypeOK, SlotsHoldOwnLiveTurns,
       EntriesHoldOwnLiveTurns, WaitsForLiveTurn, Stop, Phases, Unfinished, Closing
<1>8. ASSUME NEW c \in Conns, StopWaitExpires(c) PROVE GInv'
  <2>1. waiting[c] \in Turns /\ phase[waiting[c]] \in Unfinished
    BY <1>8 DEF GInv, TypeOK, WaitsForLiveTurn, StopWaitExpires
  <2>2. /\ phase' = [phase EXCEPT ![waiting[c]] = "aborted"]
        /\ "aborted" \in Unfinished /\ "aborted" \in Phases /\ "unused" \notin Unfinished
    BY <1>8 DEF StopWaitExpires, Phases, Unfinished, Closing
  <2>3. TypeOK'
    BY <1>8, <1>t, <2>1, <2>2 DEF TypeOK, StopWaitExpires
  <2> QED
    BY <1>8, <1>t, <2>1, <2>2, <2>3 DEF GInv, TypeOK, SlotsHoldOwnLiveTurns,
       EntriesHoldOwnLiveTurns, WaitsForLiveTurn, StopWaitExpires
<1>9. ASSUME NEW c \in Conns, Close(c) PROVE GInv'
  BY <1>9 DEF GInv, TypeOK, SlotsHoldOwnLiveTurns, EntriesHoldOwnLiveTurns,
              WaitsForLiveTurn, Close
<1>10. ASSUME NEW t \in Turns, EndBody(t) PROVE GInv'
  BY <1>10 DEF GInv, TypeOK, SlotsHoldOwnLiveTurns, EntriesHoldOwnLiveTurns,
               WaitsForLiveTurn, EndBody, Phases, Unfinished, Closing
<1>11. ASSUME NEW t \in Turns, Finish(t) PROVE GInv'
  <2>1. DropTurn(t) BY <1>11 DEF Finish
  <2>2. TypeOK'
    BY <1>11, <2>1, <1>t, DropTurnFacts DEF TypeOK, Finish, Phases, Unfinished, Closing
  <2> QED
    BY <1>11, <2>1, <2>2, <1>t, DropTurnFacts DEF GInv, TypeOK, SlotsHoldOwnLiveTurns,
       EntriesHoldOwnLiveTurns, WaitsForLiveTurn, Finish
<1>12. ASSUME NEW t \in Turns, Die(t) PROVE GInv'
  <2>1. DropTurn(t) BY <1>12 DEF Die
  <2>2. TypeOK'
    BY <1>12, <2>1, <1>t, DropTurnFacts DEF TypeOK, Die, Phases, Unfinished, Closing
  <2> QED
    BY <1>12, <2>1, <2>2, <1>t, DropTurnFacts DEF GInv, TypeOK, SlotsHoldOwnLiveTurns,
       EntriesHoldOwnLiveTurns, WaitsForLiveTurn, Die
<1>13. ASSUME UNCHANGED vars PROVE GInv'
  BY <1>13 DEF GInv, TypeOK, SlotsHoldOwnLiveTurns, EntriesHoldOwnLiveTurns,
               WaitsForLiveTurn, vars
<1> QED
  BY <1>1, <1>2, <1>3, <1>4, <1>5, <1>6, <1>7, <1>8, <1>9, <1>10, <1>11, <1>12, <1>13
     DEF Next, ConnStep, TurnStep

LEMMA GInvInit == Init => GInv
BY StreamsAssumption DEF Init, GInv, TypeOK, SlotsHoldOwnLiveTurns,
   EntriesHoldOwnLiveTurns, WaitsForLiveTurn, Streams, Phases, Unfinished, Closing

(* The registries are well formed in every reachable state, however sockets
   overlap (state.py, live_turn.py). *)
THEOREM RegistriesWellFormed == Spec => []GInv
<1>1. Init => GInv BY GInvInit
<1>2. GInv /\ [Next]_vars => GInv' BY GInvStep
<1> QED BY <1>1, <1>2, PTL DEF Spec

(* Type correctness (SessionState, _SESSION_LIVE_TURNS). *)
THEOREM TypeCorrect == Spec => []TypeOK
<1>1. GInv => TypeOK BY DEF GInv
<1> QED BY <1>1, RegistriesWellFormed, PTL

(* No slot holds a foreign or ended turn (_register_live_turn, _drop). *)
THEOREM SlotsAreSound == Spec => []SlotsHoldOwnLiveTurns
<1>1. GInv => SlotsHoldOwnLiveTurns BY DEF GInv
<1> QED BY <1>1, RegistriesWellFormed, PTL

-----------------------------------------------------------------------------
\* A step that starts a turn is its launch; no other action does.
LEMMA OnlyLaunchStarts ==
    ASSUME GInv, [Next]_vars, NEW u \in Turns, phase[u] = "unused", phase'[u] = "running"
    PROVE  \E c \in Conns : LaunchTurn(c, u)
<1> USE StreamsAssumption
<1>t. TypeOK BY DEF GInv
<1>1. ASSUME NEW c \in Conns, Stop(c) PROVE FALSE
  <2>1. PICK t \in StopTargets(c) : phase' = [phase EXCEPT ![t] = Cancelled(@, "stopped")]
    BY <1>1 DEF Stop
  <2>2. t \in Turns /\ phase[t] \in Unfinished BY TargetsUnfinished
  <2>3. t # u BY <2>2 DEF Unfinished, Closing
  <2> QED BY <2>1, <2>2, <2>3, <1>t DEF TypeOK
<1>2. ASSUME NEW c \in Conns, StopWaitExpires(c) PROVE FALSE
  BY <1>2, <1>t DEF StopWaitExpires, TypeOK
<1>3. ASSUME NEW c \in Conns, NEW t \in Turns, LaunchTurn(c, t) PROVE t = u
  <2>1. preparing[c] \in Streams BY <1>3, <1>t DEF LaunchTurn, TypeOK
  <2>2. u # t => phase'[u] = phase[u] \/ u = Prior(c, preparing[c])
    BY <1>3 DEF LaunchTurn
  <2>3. u # Prior(c, preparing[c])
    BY <2>1, TargetsUnfinished DEF Unfinished, Closing
  <2> QED BY <2>2, <2>3
<1>4. ASSUME NEW t \in Turns, TurnStep(t) PROVE FALSE
  BY <1>4, <1>t DEF TurnStep, EndBody, Finish, Die, TypeOK, Closing
<1>5. ASSUME phase' = phase PROVE FALSE BY <1>5
<1>6. ASSUME NEW c \in Conns, NEW s \in Streams,
             SessionResume(c, s) \/ OpenCase(c, s) \/ UserMessage(c, s)
      PROVE  FALSE
  BY <1>6 DEF SessionResume, OpenCase, UserMessage
<1>7. ASSUME NEW c \in Conns, Open(c) \/ DeleteActiveCase(c) \/ Close(c) PROVE FALSE
  BY <1>7 DEF Open, DeleteActiveCase, Close
<1> QED BY <1>1, <1>2, <1>3, <1>4, <1>5, <1>6, <1>7 DEF Next, ConnStep, vars

(* A prompt ends no turn of another stream, however many sockets and Cases the
   session has (loop.py and handlers.py, stream-scoped supersede). *)
THEOREM PromptsAreStreamScoped == Spec => PromptsCancelOwnStreamOnly
<1> DEFINE Scoped == \A t, u \in Turns :
      phase[u] = "unused" /\ phase'[u] = "running" /\ t # u /\ phase'[t] # phase[t]
      => owner[t] = owner'[u]
<1>1. GInv /\ [Next]_vars => Scoped
  <2> SUFFICES ASSUME GInv, [Next]_vars, NEW t \in Turns, NEW u \in Turns,
                      phase[u] = "unused", phase'[u] = "running", t # u,
                      phase'[t] # phase[t]
               PROVE  owner[t] = owner'[u]
    OBVIOUS
  <2>1. PICK c \in Conns : LaunchTurn(c, u) BY OnlyLaunchStarts
  <2>2. preparing[c] \in Streams BY <2>1 DEF LaunchTurn, GInv, TypeOK
  <2>3. t = Prior(c, preparing[c]) BY <2>1 DEF LaunchTurn
  <2>4. owner[t] = preparing[c] BY <2>2, <2>3, TargetsUnfinished, StreamsAssumption
  <2>5. owner'[u] = preparing[c] BY <2>1, <2>2 DEF LaunchTurn, GInv, TypeOK
  <2> QED BY <2>4, <2>5
<1>2. GInv /\ [Next]_vars => [Scoped]_vars BY <1>1
<1> HIDE DEF Scoped
<1>3. Spec => [][Scoped]_vars BY <1>2, RegistriesWellFormed, PTL DEF Spec
<1> QED BY <1>3 DEF PromptsCancelOwnStreamOnly, Scoped

-----------------------------------------------------------------------------
(* From here on sockets do not overlap: each connects after the handler of the
   one before has finished. *)

\* At most one connection handler runs.
OneOpenSocket == \A c, d \in Conns : socket[c] = "open" /\ socket[d] = "open" => c = d

\* A connection whose handler is not running holds nothing.
IdleWhenNotOpen ==
    \A c \in Conns : socket[c] # "open" =>
       /\ preparing[c] = NoStream /\ waiting[c] = NoTurn
       /\ \A s \in Streams : inflight[c][s] = NoTurn

\* A connection's own entry is the session's registered turn of that stream.
EntryIsRegistered ==
    \A c \in Conns, s \in Streams :
       inflight[c][s] # NoTurn => live[s] = inflight[c][s]

\* The emitter of an unopened or open connection still sends on its own socket.
OwnSink == \A c \in Conns : socket[c] # "closed" => sink[c] = c

\* A turn was launched on a connection that has been opened.
HomeWasOpened == \A t \in Turns : home[t] \in Conns => socket[home[t]] # "new"

\* A connection that has resumed has been opened.
ResumedWasOpened == \A c \in Conns : resumed[c] => socket[c] # "new"

SInv ==
    /\ OneOpenSocket /\ IdleWhenNotOpen /\ EntryIsRegistered /\ RunningTurnRegistered
    /\ OwnSink /\ HomeWasOpened /\ ResumedWasOpened /\ FramesReachOpenSocket

LEMMA SInvInit == Init => SInv
BY StreamsAssumption DEF Init, SInv, OneOpenSocket, IdleWhenNotOpen, EntryIsRegistered,
   RunningTurnRegistered, OwnSink, HomeWasOpened, ResumedWasOpened, FramesReachOpenSocket

\* The open socket takes over every emitter it rebinds and keeps its own.
LEMMA RebindFacts ==
    ASSUME GInv, SInv, NEW c \in Conns, socket[c] = "open",
           NEW streams \in SUBSET Streams, Rebind(c, streams)
    PROVE  /\ sink'[c] = c
           /\ \A d \in Conns : sink'[d] \in {sink[d], c}
           /\ \A d \in Conns : socket[d] = "new" => sink'[d] = d
           /\ \A s \in streams : live[s] # NoTurn => sink'[home[live[s]]] = c
<1> USE StreamsAssumption
<1>1. sink[c] = c BY DEF SInv, OwnSink
<1>2. \A s \in Streams : live[s] # NoTurn =>
         live[s] \in Turns /\ home[live[s]] \in Conns /\ socket[home[live[s]]] # "new"
  BY LiveHasHome DEF SInv, HomeWasOpened
<1>3. \A d \in Conns : sink'[d] \in {sink[d], c} BY <1>1 DEF Rebind
<1>4. sink'[c] = c BY <1>1, <1>3
<1>5. ASSUME NEW d \in Conns, socket[d] = "new" PROVE sink'[d] = d
  <2>1. sink[d] = d BY <1>5 DEF SInv, OwnSink
  <2> QED BY <2>1, <1>5, <1>2 DEF Rebind, ReboundStreams
<1>6. ASSUME NEW s \in streams, live[s] # NoTurn PROVE sink'[home[live[s]]] = c
  <2>1. CASE home[live[s]] = c BY <2>1, <1>4
  <2>2. CASE home[live[s]] # c
    BY <2>2, <1>1, <1>2, <1>6 DEF Rebind, ReboundStreams
  <2> QED BY <2>1, <2>2
<1> QED BY <1>3, <1>4, <1>5, <1>6

\* What an ended turn leaves in the registries, when the entries agree.
LEMMA DropKeepsAgreement ==
    ASSUME GInv, SInv, NEW t \in Turns, phase[t] # "running", DropTurn(t)
    PROVE  /\ \A u \in Turns : phase[u] = "running" => live'[owner[u]] = u
           /\ \A c \in Conns, s \in Streams :
                 inflight'[c][s] # NoTurn => live'[s] = inflight'[c][s]
BY StreamsAssumption
   DEF GInv, SInv, TypeOK, DropTurn, RunningTurnRegistered, EntryIsRegistered

(* Every step keeps the sockets, entries and sinks in agreement. *)
LEMMA SInvStep ==
    ASSUME Overlap = FALSE, GInv, SInv, [Next]_vars PROVE SInv'
<1> USE StreamsAssumption
<1>t. TypeOK BY DEF GInv
<1>1. ASSUME NEW c \in Conns, Open(c) PROVE SInv'
  BY <1>1, <1>t DEF SInv, TypeOK, Open, OneOpenSocket, IdleWhenNotOpen, EntryIsRegistered,
     RunningTurnRegistered, OwnSink, HomeWasOpened, ResumedWasOpened, FramesReachOpenSocket
<1>2. ASSUME NEW c \in Conns, DeleteActiveCase(c) PROVE SInv'
  BY <1>2 DEF SInv, DeleteActiveCase, OneOpenSocket, IdleWhenNotOpen, EntryIsRegistered,
     RunningTurnRegistered, OwnSink, HomeWasOpened, ResumedWasOpened, FramesReachOpenSocket
<1>3. ASSUME NEW c \in Conns, NEW s \in Streams, SessionResume(c, s) PROVE SInv'
  <2>1. socket[c] = "open" /\ Rebind(c, Streams) BY <1>3 DEF SessionResume, Listening
  <2>2. OwnSink' BY <1>3, <2>1, RebindFacts, <1>t
        DEF SessionResume, OwnSink, SInv, OneOpenSocket, TypeOK
  <2>3. FramesReachOpenSocket' BY <1>3, <2>1, RebindFacts
        DEF SessionResume, FramesReachOpenSocket, SInv, OneOpenSocket
  <2>4. ResumedWasOpened' BY <1>3, <2>1, <1>t
        DEF SessionResume, ResumedWasOpened, SInv, TypeOK
  <2> QED BY <1>3, <2>2, <2>3, <2>4 DEF SInv, SessionResume, OneOpenSocket,
      IdleWhenNotOpen, EntryIsRegistered, RunningTurnRegistered, HomeWasOpened
<1>4. ASSUME NEW c \in Conns, NEW s \in Streams, OpenCase(c, s) PROVE SInv'
  <2>1. socket[c] = "open" /\ Rebind(c, {s}) BY <1>4 DEF OpenCase, Listening
  <2>2. OwnSink' BY <1>4, <2>1, RebindFacts, <1>t
        DEF OpenCase, OwnSink, SInv, OneOpenSocket, TypeOK
  <2>3. \A d \in Conns : sink'[d] \in {sink[d], c} BY <2>1, RebindFacts
  <2>4. \A r \in Streams : live[r] # NoTurn => home[live[r]] \in Conns
    BY LiveHasHome
  <2>5. FramesReachOpenSocket' BY <1>4, <2>1, <2>3, <2>4
        DEF OpenCase, FramesReachOpenSocket, SInv, OneOpenSocket
  <2> QED BY <1>4, <2>2, <2>5 DEF SInv, OpenCase, OneOpenSocket, IdleWhenNotOpen,
      EntryIsRegistered, RunningTurnRegistered, HomeWasOpened, ResumedWasOpened
<1>5. ASSUME NEW c \in Conns, NEW s \in Streams, UserMessage(c, s) PROVE SInv'
  BY <1>5, <1>t DEF SInv, TypeOK, UserMessage, Listening, OneOpenSocket, IdleWhenNotOpen,
     EntryIsRegistered, RunningTurnRegistered, OwnSink, HomeWasOpened, ResumedWasOpened,
     FramesReachOpenSocket
<1>6. ASSUME NEW c \in Conns, NEW t \in Turns, LaunchTurn(c, t) PROVE SInv'
  <2> DEFINE s == preparing[c]
  <2>1. s \in Streams BY <1>6, <1>t DEF LaunchTurn, TypeOK
  <2>2. socket[c] = "open" BY <1>6 DEF LaunchTurn, SInv, IdleWhenNotOpen
  <2>3. \A d \in Conns : d # c => socket[d] # "open"
    BY <2>2 DEF SInv, OneOpenSocket
  <2>4. /\ live' = [live EXCEPT ![s] = t] /\ owner' = [owner EXCEPT ![t] = s]
        /\ inflight' = [inflight EXCEPT ![c][s] = t] /\ home' = [home EXCEPT ![t] = c]
        /\ preparing' = [preparing EXCEPT ![c] = NoStream]
        /\ socket' = socket /\ waiting' = waiting /\ resumed' = resumed
        /\ Rebind(c, Streams)
    BY <1>6 DEF LaunchTurn
  <2>5. IdleWhenNotOpen' BY <2>2, <2>4, <1>t DEF SInv, IdleWhenNotOpen, TypeOK
  <2>6. EntryIsRegistered'
    <3> SUFFICES ASSUME NEW d \in Conns, NEW r \in Streams, inflight'[d][r] # NoTurn
                 PROVE  live'[r] = inflight'[d][r]
      BY DEF EntryIsRegistered
    <3>1. d = c BY <2>3, <2>4, <1>t DEF SInv, IdleWhenNotOpen, TypeOK
    <3>2. CASE r = s BY <3>1, <3>2, <2>1, <2>4, <1>t DEF TypeOK
    <3>3. CASE r # s BY <3>1, <3>3, <2>1, <2>4, <1>t DEF TypeOK, SInv, EntryIsRegistered
    <3> QED BY <3>2, <3>3
  <2>7. RunningTurnRegistered'
    <3> SUFFICES ASSUME NEW u \in Turns, phase'[u] = "running"
                 PROVE  live'[owner'[u]] = u
      BY DEF RunningTurnRegistered
    <3>1. CASE u = t BY <3>1, <2>1, <2>4, <1>t DEF TypeOK
    <3>2. CASE u # t
      <4>1. /\ u # Prior(c, s) /\ phase[u] = "running"
        BY <1>6, <3>2 DEF LaunchTurn, Cancelled
      <4>2. owner'[u] = owner[u] /\ owner[u] \in Streams /\ live[owner[u]] = u
        BY <3>2, <4>1, <2>4, <1>t DEF TypeOK, SInv, RunningTurnRegistered
      <4>3. owner[u] # s
        BY <4>1, <4>2, <2>1 DEF Prior, SInv, EntryIsRegistered
      <4> QED BY <4>2, <4>3, <2>1, <2>4, <1>t DEF TypeOK
    <3> QED BY <3>1, <3>2
  <2>8. OwnSink' BY <2>2, <2>3, <2>4, RebindFacts, <1>t DEF OwnSink, SInv, TypeOK
  <2>9. HomeWasOpened' BY <2>2, <2>4, <1>t DEF HomeWasOpened, SInv, TypeOK
  <2>10. FramesReachOpenSocket'
    <3> SUFFICES ASSUME NEW d \in Conns, NEW r \in Streams, socket'[d] = "open",
                        resumed'[d], live'[r] # NoTurn
                 PROVE  sink'[home'[live'[r]]] = d
      BY DEF FramesReachOpenSocket
    <3>1. d = c BY <2>3, <2>4
    <3>2. CASE live'[r] = t
      BY <3>1, <3>2, <2>2, <2>4, RebindFacts, <1>t DEF TypeOK
    <3>3. CASE live'[r] # t
      <4>1. live'[r] = live[r] BY <3>3, <2>1, <2>4, <1>t DEF TypeOK
      <4>2. live[r] \in Turns /\ home'[live[r]] = home[live[r]]
        BY <4>1, <3>3, <2>4, <1>t DEF TypeOK
      <4> QED BY <3>1, <4>1, <4>2, <2>2, <2>4, RebindFacts
    <3> QED BY <3>2, <3>3
  <2> QED BY <2>4, <2>5, <2>6, <2>7, <2>8, <2>9, <2>10
      DEF SInv, OneOpenSocket, ResumedWasOpened
<1>7. ASSUME NEW c \in Conns, Stop(c) PROVE SInv'
  <2>1. PICK t \in StopTargets(c) :
           /\ phase' = [phase EXCEPT ![t] = Cancelled(@, "stopped")]
           /\ waiting' = [waiting EXCEPT ![c] = t]
    BY <1>7 DEF Stop
  <2>2. t \in Turns BY TargetsUnfinished
  <2>3. \A u \in Turns : phase'[u] = "running" => phase[u] = "running"
    BY <2>1, <2>2, <1>t DEF TypeOK, Cancelled
  <2>4. RunningTurnRegistered'
    BY <1>7, <2>3 DEF Stop, RunningTurnRegistered, SInv
  <2>5. IdleWhenNotOpen'
    BY <1>7, <2>1, <1>t DEF Stop, Listening, IdleWhenNotOpen, SInv, TypeOK
  <2> QED BY <1>7, <2>4, <2>5 DEF SInv, Stop, OneOpenSocket, EntryIsRegistered,
      OwnSink, HomeWasOpened, ResumedWasOpened, FramesReachOpenSocket
<1>8. ASSUME NEW c \in Conns, StopWaitExpires(c) PROVE SInv'
  <2>1. \A u \in Turns : phase'[u] = "running" => phase[u] = "running"
    BY <1>8, <1>t DEF StopWaitExpires, TypeOK
  <2> QED BY <1>8, <2>1 DEF SInv, StopWaitExpires, OneOpenSocket, IdleWhenNotOpen,
      EntryIsRegistered, RunningTurnRegistered, OwnSink, HomeWasOpened, ResumedWasOpened,
      FramesReachOpenSocket
<1>9. ASSUME NEW c \in Conns, Close(c) PROVE SInv'
  <2>1. live' = live
    BY <1>9, <1>t DEF Close, SInv, EntryIsRegistered, TypeOK
  <2> QED BY <1>9, <2>1, <1>t DEF SInv, TypeOK, Close, Listening, OneOpenSocket,
      IdleWhenNotOpen, EntryIsRegistered, RunningTurnRegistered, OwnSink, HomeWasOpened,
      ResumedWasOpened, FramesReachOpenSocket
<1>10. ASSUME NEW t \in Turns, EndBody(t) PROVE SInv'
  <2>1. \A u \in Turns : phase'[u] = "running" => phase[u] = "running"
    BY <1>10, <1>t DEF EndBody, TypeOK
  <2> QED BY <1>10, <2>1 DEF SInv, EndBody, OneOpenSocket, IdleWhenNotOpen,
      EntryIsRegistered, RunningTurnRegistered, OwnSink, HomeWasOpened, ResumedWasOpened,
      FramesReachOpenSocket
<1>11. ASSUME NEW t \in Turns, Finish(t) \/ Die(t) PROVE SInv'
  <2>1. /\ DropTurn(t) /\ phase[t] # "running"
        /\ \A u \in Turns : phase'[u] = "running" => phase[u] = "running"
        /\ UNCHANGED <<socket, preparing, sink, resumed, home, owner>>
    BY <1>11, <1>t DEF Finish, Die, Closing, TypeOK
  <2>2. RunningTurnRegistered' /\ EntryIsRegistered'
    BY <2>1, DropKeepsAgreement DEF RunningTurnRegistered, EntryIsRegistered
  <2>3. IdleWhenNotOpen'
    BY <2>1, <1>t, DropTurnFacts DEF SInv, IdleWhenNotOpen
  <2>4. \A s \in Streams : live'[s] # NoTurn => live'[s] = live[s]
    BY <2>1, <1>t, DropTurnFacts
  <2>5. FramesReachOpenSocket'
    BY <2>1, <2>4 DEF SInv, FramesReachOpenSocket
  <2> QED BY <2>1, <2>2, <2>3, <2>5 DEF SInv, OneOpenSocket, OwnSink, HomeWasOpened,
      ResumedWasOpened
<1>12. ASSUME UNCHANGED vars PROVE SInv'
  BY <1>12 DEF SInv, vars, OneOpenSocket, IdleWhenNotOpen, EntryIsRegistered,
     RunningTurnRegistered, OwnSink, HomeWasOpened, ResumedWasOpened, FramesReachOpenSocket
<1> QED
  BY <1>1, <1>2, <1>3, <1>4, <1>5, <1>6, <1>7, <1>8, <1>9, <1>10, <1>11, <1>12
     DEF Next, ConnStep, TurnStep

(* The agreement is an invariant of a session whose sockets do not overlap. *)
THEOREM SequentialSockets == ASSUME Overlap = FALSE PROVE Spec => [](GInv /\ SInv)
<1>1. Init => GInv /\ SInv BY GInvInit, SInvInit
<1>2. GInv /\ SInv /\ [Next]_vars => (GInv /\ SInv)' BY GInvStep, SInvStep
<1> QED BY <1>1, <1>2, PTL DEF Spec

(* A running turn is always the one a stop or a re-prompt finds (loop.py). *)
THEOREM RunningTurnIsFound == ASSUME Overlap = FALSE PROVE Spec => []RunningTurnRegistered
<1>1. GInv /\ SInv => RunningTurnRegistered BY DEF SInv
<1> QED BY <1>1, SequentialSockets, PTL

(* One stream never has two running turns (loop.py, the supersede). *)
THEOREM SupersedeIsComplete == ASSUME Overlap = FALSE PROVE Spec => []OneRunningTurnPerStream
<1>1. GInv /\ SInv => OneRunningTurnPerStream
  BY DEF SInv, RunningTurnRegistered, OneRunningTurnPerStream
<1> QED BY <1>1, SequentialSockets, PTL

(* The frames of every live turn reach the resumed socket (_rebind_live_turns). *)
THEOREM FramesAreDelivered == ASSUME Overlap = FALSE PROVE Spec => []FramesReachOpenSocket
<1>1. GInv /\ SInv => FramesReachOpenSocket BY DEF SInv
<1> QED BY <1>1, SequentialSockets, PTL

(* A stop is never lost on a finished turn or on another Case's while the turn
   of the visible stream runs on, detached or not (loop.py, cancel). *)
THEOREM StopsReachTheVisibleTurn == ASSUME Overlap = FALSE PROVE Spec => StopReachesVisibleTurn
<1> DEFINE Reaches ==
      \A c \in Conns, t \in Turns :
          /\ Stop(c) /\ phase[t] = "running" /\ owner[t] = active
          /\ \A s \in Streams \ {active} : inflight[c][s] = NoTurn
          => phase'[t] = "stopped"
<1>1. GInv /\ SInv /\ [Next]_vars => [Reaches]_vars
  <2> SUFFICES ASSUME GInv, SInv, NEW c \in Conns, NEW t \in Turns, Stop(c),
                      phase[t] = "running", owner[t] = active,
                      \A s \in Streams \ {active} : inflight[c][s] = NoTurn
               PROVE  phase'[t] = "stopped"
    OBVIOUS
  <2>1. active \in Streams /\ live[active] = t /\ t # NoTurn
    BY StreamsAssumption DEF GInv, TypeOK, SInv, RunningTurnRegistered
  <2>2. StopTargets(c) = {t}
    <3>1. CASE inflight[c][active] # NoTurn
      BY <3>1, <2>1 DEF StopTargets, SInv, EntryIsRegistered
    <3>2. CASE inflight[c][active] = NoTurn
      <4>1. OwnTurns(c) = {} BY <3>2 DEF OwnTurns
      <4> QED BY <3>2, <4>1, <2>1 DEF StopTargets
    <3> QED BY <3>1, <3>2
  <2>3. phase' = [phase EXCEPT ![t] = Cancelled(@, "stopped")]
    BY <2>2 DEF Stop
  <2> QED BY <2>3 DEF GInv, TypeOK, Cancelled
<1> HIDE DEF Reaches
<1>2. Spec => [][Reaches]_vars
  BY SequentialSockets, <1>1, PTL DEF Spec
<1> QED BY <1>2 DEF Reaches, StopReachesVisibleTurn
-----------------------------------------------------------------------------
\* The plugin's link.

\* What the server has not yet read of the connection that is alive.
Wire == IF ws \in up THEN wire[ws] ELSE << >>

\* At most one connection is alive, the client's, and no other holds frames.
OneLink ==
    /\ up \subseteq {ws} /\ up \subseteq Sockets
    /\ worker \in {"start", "backoff", "stopped"} => up = {}
    /\ worker = "backoff" => ws # 0
    /\ \A k \in Sockets : k \notin up => wire[k] = << >>
    /\ ui.at # "idle" => ui.frame > 0
    /\ ui.at = "writing" => ui.sock # 0

LinkInv == LinkTypeOK /\ OneLink

(* The order of the frames.  One comes before another if they differ and, when
   both went through the queue, it was submitted first. *)
Before(B, x, y) == x # y /\ (x \in B /\ y \in B => x < y)
Ordered(B, s) == \A i, j \in 1..Len(s) : i < j => Before(B, s[i], s[j])
Precedes(B, s, t) == \A i \in 1..Len(s), j \in 1..Len(t) : Before(B, s[i], t[j])
Under(s, n) == \A i \in 1..Len(s) : s[i] < n

\* The first frame that is neither on its way nor settled.
NextFrame == IF ui.at = "idle" THEN ui.frame + 1 ELSE ui.frame

\* Four sequences of frames before n that are ordered one after the other.
Line(B, n, a, b, c, d) ==
    /\ \A x \in B : x < n
    /\ Under(a, n) /\ Under(b, n) /\ Under(c, n) /\ Under(d, n)
    /\ Ordered(B, a) /\ Ordered(B, b) /\ Ordered(B, c) /\ Ordered(B, d)
    /\ Precedes(B, a, b) /\ Precedes(B, a, c) /\ Precedes(B, a, d)
    /\ Precedes(B, b, c) /\ Precedes(B, b, d) /\ Precedes(B, c, d)

\* What was read, what is on the wire, the batch and the queue are one ordered line.
FifoInv == Line(buffered, NextFrame, received, Wire, pending, queue)
-----------------------------------------------------------------------------
LEMMA LinkInvInit == LinkInit => LinkInv
<1> SUFFICES ASSUME LinkInit PROVE LinkInv OBVIOUS
<1>1. wire \in [Sockets -> Seq(Frame)] /\ \A k \in Sockets : wire[k] = << >> BY DEF LinkInit
<1>2. /\ ui \in [at : {"idle", "open", "writing", "buffer"}, frame : 0..Frames, sock : {0} \cup Sockets]
      /\ ui.at = "idle"
  BY LinkAssumption DEF LinkInit
<1>3. faults \in 0..Faults /\ queue \in Seq(Frame) /\ pending \in Seq(Frame) /\ received \in Seq(Frame)
  BY LinkAssumption DEF LinkInit
<1>4. /\ worker = "start" /\ connected = FALSE /\ ws = 0 /\ up = {} /\ pending = << >>
      /\ buffered = {} /\ gone = {}
  BY DEF LinkInit
<1>5. LinkTypeOK BY <1>1, <1>2, <1>3, <1>4 DEF LinkTypeOK
<1>6. OneLink BY <1>1, <1>2, <1>4 DEF OneLink
<1> QED BY <1>5, <1>6 DEF LinkInv

\* The worker lets go of its socket: no connection is alive and none holds frames.
LEMMA LetsGo ==
    ASSUME LinkInv, ws \in Sockets, NEW over \in BOOLEAN, GiveUpOrRetry(over), ui' = ui,
           pending' = << >>, queue' \in Seq(Frame), faults' \in 0..Faults, UNCHANGED <<received, buffered>>
    PROVE  LinkInv' /\ up' = {} /\ worker' \in {"stopped", "backoff"}
<1>1. up' = {} BY DEF GiveUpOrRetry, LinkInv, OneLink
<1>2. wire' \in [Sockets -> Seq(Frame)] /\ \A k \in Sockets : wire'[k] = << >>
  BY DEF GiveUpOrRetry, LinkInv, OneLink, LinkTypeOK
<1>3. gone' \subseteq Frame
  <2>1. ToSet(wire[ws]) \subseteq Frame BY ElementOfSeq, LenProperties DEF ToSet, LinkInv, LinkTypeOK
  <2> QED BY <2>1 DEF GiveUpOrRetry, LinkInv, LinkTypeOK
<1>4. connected' = FALSE /\ ws' \in {0, ws} /\ worker' \in {"stopped", "backoff"} /\ (worker' = "backoff" => ws' = ws)
  BY DEF GiveUpOrRetry
<1>5. ws # 0 BY LinkAssumption DEF Sockets
<1>6. LinkTypeOK' BY <1>1, <1>2, <1>3, <1>4 DEF LinkInv, LinkTypeOK
<1>7. OneLink' BY <1>1, <1>2, <1>4, <1>5 DEF LinkInv, OneLink
<1> QED BY <1>1, <1>4, <1>6, <1>7 DEF LinkInv

\* The actions in which it does.
LetGo == HandshakeFails \/ FlushFails \/ BindFails \/ Lost \/ StopWorker

LEMMA LetGoEffect ==
    ASSUME LinkInv, LetGo
    PROVE  /\ LinkInv' /\ up' = {} /\ ws \in Sockets /\ UNCHANGED <<ui, received, buffered>>
           /\ gone' = gone \cup ToSet(wire[ws]) /\ wire' = [wire EXCEPT ![ws] = << >>]
           /\ pending' = << >> /\ queue' = pending \o queue
<1>1. /\ ws \in Sockets /\ UNCHANGED <<ui, received, buffered>> /\ pending' = << >>
      /\ queue \in Seq(Frame) /\ pending \in Seq(Frame)
  BY DEF LetGo, HandshakeFails, FlushFails, BindFails, Lost, StopWorker, LinkInv, LinkTypeOK, OneLink
<1>2. queue' = pending \o queue
  <2>1. CASE FlushFails BY <2>1 DEF FlushFails
  <2>2. CASE ~FlushFails
    <3>1. pending = << >> /\ queue' = queue
      BY <2>2 DEF LetGo, HandshakeFails, BindFails, Lost, StopWorker, LinkInv, LinkTypeOK
    <3> QED BY <1>1, <3>1, ConcatEmptySeq
  <2> QED BY <2>1, <2>2
<1>3. queue' \in Seq(Frame) BY <1>1, <1>2, ConcatProperties
<1>4. faults' \in 0..Faults
  <2>1. CASE HandshakeFails BY <2>1, LinkAssumption DEF HandshakeFails, LinkInv, LinkTypeOK
  <2>2. CASE UNCHANGED faults BY <2>2 DEF LinkInv, LinkTypeOK
  <2> QED BY <2>1, <2>2 DEF LetGo, FlushFails, BindFails, Lost, StopWorker
<1>5. \E over \in BOOLEAN : GiveUpOrRetry(over)
  BY DEF LetGo, HandshakeFails, FlushFails, BindFails, Lost, StopWorker, FirstDial
<1> QED BY <1>1, <1>2, <1>3, <1>4, <1>5, LetsGo DEF GiveUpOrRetry

\* The bound of the queue: the frames dropped are the first ones.
Over == IF Len(queue) + 1 > QueueMax THEN Len(queue) + 1 - QueueMax ELSE 0

LEMMA EnqueueEffect ==
    ASSUME LinkTypeOK, ui.frame \in Frame, Enqueue
    PROVE  /\ Over \in 0..Len(queue) /\ queue' \in Seq(Frame) /\ gone' \subseteq Frame
           /\ Len(queue') = Len(queue) + 1 - Over
           /\ \A i \in 1..Len(queue') :
                 queue'[i] = IF i = Len(queue') THEN ui.frame ELSE queue[Over + i]
           /\ \A i \in 1..Len(queue') : i # Len(queue') => Over + i \in 1..Len(queue)
           /\ gone' = gone \cup {queue[i] : i \in 1..Over}
<1> DEFINE all == Append(queue, ui.frame)
           n == Len(queue)
<1>0. n \in Nat /\ QueueMax \in Nat \ {0} BY LinkAssumption DEF LinkTypeOK
<1>1. /\ all \in Seq(Frame) /\ Len(all) = n + 1 /\ all[n + 1] = ui.frame
      /\ \A i \in 1..n : all[i] = queue[i]
  BY AppendProperties DEF LinkTypeOK
<1>2. Over \in 0..n BY <1>0 DEF Over
<1>3. queue' = SubSeq(all, Over + 1, Len(all)) /\ gone' = gone \cup {all[i] : i \in 1..Over}
  <2>1. (IF Len(all) > QueueMax THEN Len(all) - QueueMax ELSE 0) = Over
    <3>1. Len(all) = Len(queue) + 1 BY <1>1
    <3> HIDE DEF all
    <3> QED BY <1>0, <3>1 DEF Over
  <2> QED BY <2>1 DEF Enqueue
<1> HIDE DEF all, n
<1>4. /\ queue' \in Seq(Frame) /\ Len(queue') = n + 1 - Over
      /\ \A i \in 1..(n + 1 - Over) : queue'[i] = all[Over + i]
  <2> DEFINE a == Over + 1
             b == n + 1
  <2>1. a \in Int /\ b \in Int /\ a <= b /\ b - a + 1 = n + 1 - Over
        /\ \A i \in 1..(n + 1 - Over) : a + i - 1 = Over + i
    BY <1>0, <1>2
  <2>2. \A i \in a..b : all[i] \in Frame
    <3>1. \A i \in a..b : i \in 1..Len(all) BY <1>0, <1>1, <1>2
    <3> QED BY <1>1, <3>1, ElementOfSeq
  <2> HIDE DEF a, b
  <2>3. /\ SubSeq(all, a, b) \in Seq(Frame)
        /\ Len(SubSeq(all, a, b)) = IF a <= b THEN b - a + 1 ELSE 0
        /\ \A i \in 1..(b - a + 1) : SubSeq(all, a, b)[i] = all[a + i - 1]
    BY <2>1, <2>2, SubSeqProperties
  <2>4. queue' = SubSeq(all, a, b) BY <1>1, <1>3 DEF a, b
  <2> QED BY <2>1, <2>3, <2>4
<1>5. ASSUME NEW i \in 1..(n + 1 - Over)
      PROVE  /\ queue'[i] = IF i = n + 1 - Over THEN ui.frame ELSE queue[Over + i]
             /\ i # n + 1 - Over => Over + i \in 1..n
  <2>1. CASE i = n + 1 - Over
    <3>1. Over + i = n + 1 BY <1>0, <1>2, <2>1
    <3> QED BY <1>1, <1>4, <2>1, <3>1
  <2>2. CASE i # n + 1 - Over
    <3>1. Over + i \in 1..n BY <1>0, <1>2, <2>2
    <3> QED BY <1>1, <1>4, <2>2, <3>1
  <2> QED BY <2>1, <2>2
<1>6. gone' = gone \cup {queue[i] : i \in 1..Over}
  <2>1. \A i \in 1..Over : i \in 1..n BY <1>0, <1>2
  <2> QED BY <1>1, <1>3, <2>1
<1>7. gone' \subseteq Frame
  <2>1. \A i \in 1..Over : i \in 1..Len(queue) BY <1>0, <1>2 DEF n
  <2> QED BY <1>6, <2>1, ElementOfSeq DEF LinkTypeOK
<1> QED BY <1>2, <1>4, <1>5, <1>6, <1>7 DEF n

LEMMA LinkInvStep == LinkInv /\ [LinkNext]_linkVars => LinkInv'
<1> SUFFICES ASSUME LinkInv, [LinkNext]_linkVars PROVE LinkInv' OBVIOUS
<1> USE DEF linkVars
<1>0. LinkTypeOK /\ OneLink BY DEF LinkInv
<1>1. CASE Dial
  <2>1. faults + 1 \in Sockets /\ faults + 1 # 0 /\ up = {}
    BY <1>0, <1>1, LinkAssumption DEF Dial, LinkTypeOK, OneLink, Sockets
  <2>2. \A k \in Sockets : wire[k] = << >> BY <1>0, <2>1 DEF OneLink
  <2>3. wire' \in [Sockets -> Seq(Frame)] /\ \A k \in Sockets : wire'[k] = << >>
    BY <1>0, <1>1, <2>2 DEF Dial, LinkTypeOK
  <2>4. gone' \subseteq Frame
    <3>1. ToSet(<< >>) = {} BY DEF ToSet
    <3>2. ws # 0 => ToSet(wire[ws]) = {} BY <1>0, <2>2, <3>1 DEF LinkTypeOK
    <3> QED BY <1>0, <1>1, <3>2 DEF Dial, LinkTypeOK
  <2>5. LinkTypeOK' BY <1>0, <1>1, <2>1, <2>3, <2>4 DEF Dial, LinkTypeOK
  <2>6. OneLink' BY <1>0, <1>1, <2>1, <2>3 DEF Dial, OneLink
  <2> QED BY <2>5, <2>6 DEF LinkInv
<1>2. CASE Handshake BY <1>0, <1>2 DEF Handshake, LinkInv, LinkTypeOK, OneLink
<1>3. CASE Swap BY <1>0, <1>3 DEF Swap, LinkInv, LinkTypeOK, OneLink
<1>4. CASE FlushOne
  <2>1. Head(pending) \in Frame /\ Tail(pending) \in Seq(Frame)
    BY <1>0, <1>4, HeadTailProperties DEF FlushOne, LinkTypeOK
  <2>2. wire' \in [Sockets -> Seq(Frame)] /\ \A k \in Sockets : k \notin up => wire'[k] = wire[k]
    <3>1. CASE ws \in up
      <4>1. ws \in Sockets /\ Append(wire[ws], Head(pending)) \in Seq(Frame)
        BY <1>0, <2>1, <3>1, AppendProperties DEF LinkTypeOK
      <4> QED BY <1>0, <1>4, <3>1, <4>1 DEF FlushOne, LinkTypeOK
    <3>2. CASE ws \notin up BY <1>0, <1>4, <3>2 DEF FlushOne, LinkTypeOK
    <3> QED BY <3>1, <3>2
  <2>3. LinkTypeOK' BY <1>0, <1>4, <2>1, <2>2 DEF FlushOne, LinkTypeOK
  <2>4. OneLink' BY <1>0, <1>4, <2>2 DEF FlushOne, OneLink
  <2> QED BY <2>3, <2>4 DEF LinkInv
<1>5. CASE LetGo BY <1>5, LetGoEffect
<1>6. CASE Flushed BY <1>0, <1>6 DEF Flushed, LinkInv, LinkTypeOK, OneLink
<1>7. CASE Bind BY <1>0, <1>7 DEF Bind, LinkInv, LinkTypeOK, OneLink
<1>8. CASE Submit
  <2>1. ui' \in [at : {"open", "buffer"}, frame : 1..Frames, sock : {0}]
    BY <1>0, <1>8, LinkAssumption DEF Submit, LinkTypeOK
  <2> QED BY <1>0, <1>8, <2>1, LinkAssumption DEF Submit, LinkInv, LinkTypeOK, OneLink
<1>9. CASE TakeSocket
  <2>1. ui.frame \in Frame BY <1>0, <1>9, LinkAssumption DEF TakeSocket, LinkTypeOK, OneLink, Frame
  <2>2. /\ ui' \in [at : {"idle", "writing"}, frame : 0..Frames, sock : {0} \cup Sockets]
        /\ ui'.frame = ui.frame /\ (ui'.at = "writing" => ui'.sock # 0)
    BY <1>0, <1>9 DEF TakeSocket, UI, LinkTypeOK
  <2>3. gone' \subseteq Frame BY <1>0, <1>9, <2>1 DEF TakeSocket, LinkTypeOK
  <2> QED BY <1>0, <1>9, <2>1, <2>2, <2>3, LinkAssumption DEF TakeSocket, LinkInv, LinkTypeOK, OneLink, Frame
<1>10. CASE Write
  <2>1. ui.frame \in Frame BY <1>0, <1>10, LinkAssumption DEF Write, LinkTypeOK, OneLink, Frame
  <2>2. ui' \in [at : {"idle"}, frame : 0..Frames, sock : {0} \cup Sockets]
    BY <1>0, <1>10 DEF Write, UI, LinkTypeOK
  <2>3. wire' \in [Sockets -> Seq(Frame)] /\ \A k \in Sockets : k \notin up => wire'[k] = wire[k]
    <3>1. CASE ui.sock \in up
      <4>1. ui.sock \in Sockets /\ Append(wire[ui.sock], ui.frame) \in Seq(Frame)
        BY <1>0, <2>1, <3>1, AppendProperties DEF LinkTypeOK
      <4> QED BY <1>0, <1>10, <3>1, <4>1 DEF Write, LinkTypeOK
    <3>2. CASE ui.sock \notin up BY <1>0, <1>10, <3>2 DEF Write, LinkTypeOK
    <3> QED BY <3>1, <3>2
  <2>4. gone' \subseteq Frame BY <1>0, <1>10, <2>1 DEF Write, LinkTypeOK
  <2> QED BY <1>0, <1>10, <2>2, <2>3, <2>4 DEF Write, LinkInv, LinkTypeOK, OneLink
<1>11. CASE WriteFails
  <2>1. ui' \in [at : {"buffer"}, frame : 0..Frames, sock : {0} \cup Sockets] /\ ui'.frame = ui.frame
    BY <1>0, <1>11 DEF WriteFails, UI, LinkTypeOK
  <2> QED BY <1>0, <1>11, <2>1 DEF WriteFails, LinkInv, LinkTypeOK, OneLink
<1>12. CASE Enqueue
  <2>1. ui.frame \in Frame BY <1>0, <1>12, LinkAssumption DEF Enqueue, LinkTypeOK, OneLink, Frame
  <2>2. ui' \in [at : {"idle"}, frame : 0..Frames, sock : {0} \cup Sockets]
    BY <1>0, <1>12 DEF Enqueue, UI, LinkTypeOK
  <2>3. queue' \in Seq(Frame) /\ gone' \subseteq Frame BY <1>0, <1>12, <2>1, EnqueueEffect
  <2> QED BY <1>0, <1>12, <2>1, <2>2, <2>3 DEF Enqueue, LinkInv, LinkTypeOK, OneLink
<1>13. ASSUME NEW k \in Sockets, Deliver(k) PROVE LinkInv'
  <2>1. wire[k] \in Seq(Frame) /\ Head(wire[k]) \in Frame /\ Tail(wire[k]) \in Seq(Frame)
    BY <1>0, <1>13, HeadTailProperties DEF Deliver, LinkTypeOK
  <2>2. received' \in Seq(Frame) BY <1>0, <1>13, <2>1, AppendProperties DEF Deliver, LinkTypeOK
  <2>3. wire' \in [Sockets -> Seq(Frame)] /\ \A j \in Sockets : j \notin up => wire'[j] = wire[j]
    BY <1>0, <1>13, <2>1 DEF Deliver, LinkTypeOK
  <2>4. LinkTypeOK' BY <1>0, <1>13, <2>2, <2>3 DEF Deliver, LinkTypeOK
  <2>5. OneLink' BY <1>0, <1>13, <2>3 DEF Deliver, OneLink
  <2> QED BY <2>4, <2>5 DEF LinkInv
<1>14. ASSUME NEW k \in Sockets, LinkDies(k) PROVE LinkInv'
  <2>1. ToSet(wire[k]) \subseteq Frame BY <1>0, ElementOfSeq, LenProperties DEF ToSet, LinkTypeOK
  <2>2. wire' \in [Sockets -> Seq(Frame)] /\ \A j \in Sockets : j \notin up \/ j = k => wire'[j] = << >>
    BY <1>0, <1>14 DEF LinkDies, LinkTypeOK, OneLink
  <2>3. faults' \in 0..Faults BY <1>0, <1>14, LinkAssumption DEF LinkDies, LinkTypeOK
  <2>4. LinkTypeOK' BY <1>0, <1>14, <2>1, <2>2, <2>3 DEF LinkDies, LinkTypeOK
  <2>5. OneLink' BY <1>0, <1>14, <2>2 DEF LinkDies, OneLink
  <2> QED BY <2>4, <2>5 DEF LinkInv
<1>15. CASE UNCHANGED linkVars BY <1>0, <1>15 DEF LinkInv, LinkTypeOK, OneLink
<1>16. CASE WriteTooEarly
  <2>1. ui.frame \in Frame /\ ws \in Sockets
    BY <1>0, <1>16, LinkAssumption DEF WriteTooEarly, LinkTypeOK, OneLink, Frame
  <2>2. ui' \in [at : {"idle"}, frame : 0..Frames, sock : {0} \cup Sockets]
    BY <1>0, <1>16 DEF WriteTooEarly, UI, LinkTypeOK
  <2>3. ToSet(wire[ws]) \subseteq Frame BY <1>0, <2>1, ElementOfSeq, LenProperties DEF ToSet, LinkTypeOK
  <2>4. gone' \subseteq Frame BY <1>0, <1>16, <2>1, <2>3 DEF WriteTooEarly, LinkTypeOK
  <2>5. wire' \in [Sockets -> Seq(Frame)] /\ \A k \in Sockets : wire'[k] = << >>
    BY <1>0, <1>16 DEF WriteTooEarly, LinkTypeOK, OneLink
  <2>6. faults' \in 0..Faults BY <1>0, <1>16, LinkAssumption DEF WriteTooEarly, LinkTypeOK
  <2>7. LinkTypeOK' BY <1>0, <1>16, <2>2, <2>4, <2>5, <2>6 DEF WriteTooEarly, LinkTypeOK
  <2>8. OneLink' BY <1>0, <1>16, <2>2, <2>5 DEF WriteTooEarly, OneLink
  <2> QED BY <2>7, <2>8 DEF LinkInv
<1> QED BY <1>1, <1>2, <1>3, <1>4, <1>5, <1>6, <1>7, <1>8, <1>9, <1>10, <1>11, <1>12, <1>13, <1>14, <1>15, <1>16
        DEF LinkNext, Worker, UIThread, LetGo, Quiet

(* The client's flag, socket, queue and batch keep their types through every
   interleaving of the worker and the UI thread, and a batch exists only while the
   worker flushes (AgentClient, plugin/net/trid3nt_client.py). *)
THEOREM LinkTypes == LinkSpec => []LinkTypeOK
<1>1. LinkSpec => []LinkInv BY LinkInvInit, LinkInvStep, PTL DEF LinkSpec
<1> QED BY <1>1, PTL DEF LinkInv
-----------------------------------------------------------------------------
\* The frames of a sequence.
LEMMA SetOfSeq ==
    ASSUME NEW s \in Seq(Frame)
    PROVE  /\ \A x : x \in ToSet(s) <=> \E i \in 1..Len(s) : s[i] = x
           /\ \A f \in Frame : ToSet(Append(s, f)) = ToSet(s) \cup {f}
           /\ s # << >> => ToSet(s) = {Head(s)} \cup ToSet(Tail(s))
           /\ \A t \in Seq(Frame) : ToSet(s \o t) = ToSet(s) \cup ToSet(t)
<1>0. ASSUME NEW t \in Seq(Frame) PROVE ToSet(t) = {t[i] : i \in 1..Len(t)}
  BY LenProperties DEF ToSet
<1>1. \A x : x \in ToSet(s) <=> \E i \in 1..Len(s) : s[i] = x BY <1>0
<1>n. Len(s) \in Nat OBVIOUS
<1>2. ASSUME NEW f \in Frame PROVE ToSet(Append(s, f)) = ToSet(s) \cup {f}
  <2> DEFINE t == Append(s, f)
  <2>1. /\ t \in Seq(Frame) /\ Len(t) = Len(s) + 1 /\ t[Len(s) + 1] = f
        /\ \A i \in 1..Len(s) : t[i] = s[i]
    BY AppendProperties
  <2> HIDE DEF t
  <2>2. ToSet(t) = {t[i] : i \in 1..Len(t)} /\ ToSet(s) = {s[i] : i \in 1..Len(s)} BY <1>0, <2>1
  <2>3. \A i : i \in 1..Len(t) <=> i \in 1..Len(s) \/ i = Len(s) + 1 BY <1>n, <2>1
  <2>4. ToSet(t) = ToSet(s) \cup {f} BY <2>1, <2>2, <2>3
  <2> QED BY <2>4 DEF t
<1>3. ASSUME s # << >> PROVE ToSet(s) = {Head(s)} \cup ToSet(Tail(s))
  <2> DEFINE t == Tail(s)
  <2>1. /\ t \in Seq(Frame) /\ Len(t) = Len(s) - 1 /\ Head(s) = s[1] /\ Len(s) >= 1
        /\ \A i \in 1..Len(t) : t[i] = s[i + 1]
    BY <1>3, <1>n, HeadTailProperties, EmptySeq
  <2> HIDE DEF t
  <2>2. ToSet(t) = {t[i] : i \in 1..Len(t)} /\ ToSet(s) = {s[i] : i \in 1..Len(s)} BY <1>0, <2>1
  <2>3. ASSUME NEW x \in ToSet(s) PROVE x = s[1] \/ x \in ToSet(t)
    <3>1. PICK i \in 1..Len(s) : x = s[i] BY <2>2
    <3>2. CASE i = 1 BY <3>1, <3>2
    <3>3. CASE i # 1
      <4>1. i - 1 \in 1..Len(t) /\ (i - 1) + 1 = i BY <1>n, <2>1, <3>3
      <4>2. t[i - 1] = s[i] BY <2>1, <4>1
      <4> QED BY <2>2, <3>1, <4>1, <4>2
    <3> QED BY <3>2, <3>3
  <2>4. s[1] \in ToSet(s) BY <1>n, <2>1, <2>2
  <2>5. ASSUME NEW x \in ToSet(t) PROVE x \in ToSet(s)
    <3>1. PICK i \in 1..Len(t) : x = t[i] BY <2>2
    <3>2. i + 1 \in 1..Len(s) BY <1>n, <2>1
    <3> QED BY <2>1, <2>2, <3>1, <3>2
  <2>6. ToSet(s) = {Head(s)} \cup ToSet(t) BY <2>1, <2>3, <2>4, <2>5
  <2> QED BY <2>6 DEF t
<1>4. ASSUME NEW t \in Seq(Frame) PROVE ToSet(s \o t) = ToSet(s) \cup ToSet(t)
  <2> DEFINE u == s \o t
  <2>1. /\ u \in Seq(Frame) /\ Len(u) = Len(s) + Len(t)
        /\ \A i \in 1..Len(u) : u[i] = IF i <= Len(s) THEN s[i] ELSE t[i - Len(s)]
    BY ConcatProperties
  <2> HIDE DEF u
  <2>2. /\ ToSet(u) = {u[i] : i \in 1..Len(u)} /\ ToSet(s) = {s[i] : i \in 1..Len(s)}
        /\ ToSet(t) = {t[i] : i \in 1..Len(t)}
    BY <1>0, <2>1
  <2>n. Len(t) \in Nat OBVIOUS
  <2>3. ASSUME NEW x \in ToSet(u) PROVE x \in ToSet(s) \cup ToSet(t)
    <3>1. PICK i \in 1..Len(u) : x = u[i] BY <2>2
    <3>2. CASE i <= Len(s)
      <4>1. i \in 1..Len(s) BY <1>n, <3>2
      <4> QED BY <2>1, <2>2, <3>1, <3>2, <4>1
    <3>3. CASE ~(i <= Len(s))
      <4>1. i - Len(s) \in 1..Len(t) BY <1>n, <2>n, <2>1, <3>3
      <4> QED BY <2>1, <2>2, <3>1, <3>3, <4>1
    <3> QED BY <3>2, <3>3
  <2>4. ASSUME NEW x \in ToSet(s) PROVE x \in ToSet(u)
    <3>1. PICK i \in 1..Len(s) : x = s[i] BY <2>2
    <3>2. i \in 1..Len(u) /\ i <= Len(s) BY <1>n, <2>n, <2>1
    <3> QED BY <2>1, <2>2, <3>1, <3>2
  <2>5. ASSUME NEW x \in ToSet(t) PROVE x \in ToSet(u)
    <3>1. PICK i \in 1..Len(t) : x = t[i] BY <2>2
    <3>2. i + Len(s) \in 1..Len(u) /\ ~(i + Len(s) <= Len(s)) /\ (i + Len(s)) - Len(s) = i BY <1>n, <2>n, <2>1
    <3>3. u[i + Len(s)] = t[i] BY <2>1, <3>2
    <3> QED BY <2>2, <3>1, <3>2, <3>3
  <2>6. ToSet(u) = ToSet(s) \cup ToSet(t) BY <2>3, <2>4, <2>5
  <2> QED BY <2>6 DEF u
<1> QED BY <1>1, <1>2, <1>3, <1>4

\* The frames on some wire.
OnWires == UNION {ToSet(wire[k]) : k \in Sockets}

\* The frame the UI thread holds.
Held == IF ui.at = "idle" THEN {} ELSE {ui.frame}

LEMMA InHandIs ==
    /\ InHand = ToSet(queue) \cup ToSet(pending) \cup ToSet(received) \cup OnWires \cup Held
    /\ InHand' = ToSet(queue') \cup ToSet(pending') \cup ToSet(received') \cup OnWires' \cup Held'
BY DEF InHand, OnWires, Held

LEMMA OnWiresStep ==
    ASSUME LinkInv, NEW k \in Sockets, NEW s, wire' = [wire EXCEPT ![k] = s]
    PROVE  OnWires \ ToSet(wire[k]) \subseteq OnWires' /\ ToSet(s) \subseteq OnWires'
<1>1. wire \in [Sockets -> Seq(Frame)] BY DEF LinkInv, LinkTypeOK
<1>2. wire'[k] = s /\ \A j \in Sockets : j # k => wire'[j] = wire[j] BY <1>1
<1>3. ToSet(s) \subseteq OnWires' BY <1>2 DEF OnWires
<1>4. ASSUME NEW x \in OnWires, x \notin ToSet(wire[k]) PROVE x \in OnWires'
  <2>1. PICK j \in Sockets : x \in ToSet(wire[j]) BY DEF OnWires
  <2>2. j # k BY <1>4, <2>1
  <2> QED BY <1>2, <2>1, <2>2 DEF OnWires
<1> QED BY <1>3, <1>4

\* Every frame in hand or accounted for stays so.
AllFrames == InHand \cup gone

LEMMA FramesStay ==
    ASSUME LinkInv, LinkInv', LinkNext
    PROVE  (AllFrames \subseteq AllFrames' /\ ui'.frame = ui.frame) \/ Submit
<1> USE DEF linkVars
<1>0. /\ LinkTypeOK /\ queue \in Seq(Frame) /\ pending \in Seq(Frame) /\ received \in Seq(Frame)
      /\ wire \in [Sockets -> Seq(Frame)] /\ up \subseteq Sockets
  BY DEF LinkInv, LinkTypeOK
<1>a. AllFrames = ToSet(queue) \cup ToSet(pending) \cup ToSet(received) \cup OnWires \cup Held \cup gone
  BY InHandIs DEF AllFrames
<1>b. AllFrames' = ToSet(queue') \cup ToSet(pending') \cup ToSet(received') \cup OnWires' \cup Held' \cup gone'
  BY InHandIs DEF AllFrames
<1>f. ui \in [at : {"idle", "open", "writing", "buffer"}, frame : 0..Frames, sock : {0} \cup Sockets]
  BY DEF LinkInv, LinkTypeOK
<1>g. ui.at # "idle" => ui.frame \in Frame
  BY <1>f, LinkAssumption DEF LinkInv, OneLink, Frame
<1>e. ToSet(<< >>) = {} BY DEF ToSet
<1>1. CASE Dial
  <2>1. CASE ws = 0
    <3>1. UNCHANGED <<queue, pending, received, wire, ui, gone>> BY <1>1, <2>1 DEF Dial
    <3> QED BY <1>a, <1>b, <3>1 DEF OnWires, Held
  <2>2. CASE ws # 0
    <3>1. /\ UNCHANGED <<queue, pending, received, ui>> /\ ws \in Sockets
          /\ gone' = gone \cup ToSet(wire[ws]) /\ wire' = [wire EXCEPT ![ws] = << >>]
      BY <1>0, <1>1, <2>2 DEF Dial, LinkTypeOK
    <3>2. OnWires \ ToSet(wire[ws]) \subseteq OnWires' BY <3>1, OnWiresStep
    <3> QED BY <1>a, <1>b, <3>1, <3>2 DEF Held
  <2> QED BY <2>1, <2>2
<1>2. CASE Handshake \/ Flushed \/ Bind \/ Quiet
  <2>1. UNCHANGED <<queue, pending, received, wire, ui, gone>> BY <1>2 DEF Handshake, Flushed, Bind, Quiet
  <2> QED BY <1>a, <1>b, <2>1 DEF OnWires, Held
<1>3. CASE LetGo
  <2>1. /\ ws \in Sockets /\ UNCHANGED <<ui, received>>
        /\ gone' = gone \cup ToSet(wire[ws]) /\ wire' = [wire EXCEPT ![ws] = << >>]
        /\ pending' = << >> /\ queue' = pending \o queue
    BY <1>3, LetGoEffect
  <2>2. OnWires \ ToSet(wire[ws]) \subseteq OnWires' BY <2>1, OnWiresStep
  <2>3. ToSet(queue') = ToSet(pending) \cup ToSet(queue) BY <1>0, <2>1, SetOfSeq
  <2> QED BY <1>a, <1>b, <2>1, <2>2, <2>3 DEF Held
<1>4. CASE Swap
  <2>1. UNCHANGED <<received, wire, ui, gone>> /\ pending' = queue /\ pending = << >>
    BY <1>0, <1>4 DEF Swap, LinkTypeOK
  <2> QED BY <1>a, <1>b, <1>e, <2>1 DEF OnWires, Held
<1>5. CASE FlushOne
  <2>1. /\ pending # << >> /\ pending' = Tail(pending) /\ UNCHANGED <<queue, received, ui>>
        /\ Head(pending) \in Frame
    BY <1>0, <1>5, HeadTailProperties DEF FlushOne
  <2>2. ToSet(pending) = {Head(pending)} \cup ToSet(pending') BY <1>0, <2>1, SetOfSeq
  <2>3. CASE ws \in up
    <3>1. ws \in Sockets /\ wire' = [wire EXCEPT ![ws] = Append(wire[ws], Head(pending))] /\ gone' = gone
      BY <1>0, <1>5, <2>3 DEF FlushOne
    <3>2. wire[ws] \in Seq(Frame) BY <1>0, <3>1
    <3>3. ToSet(Append(wire[ws], Head(pending))) = ToSet(wire[ws]) \cup {Head(pending)} BY <2>1, <3>2, SetOfSeq
    <3>4. OnWires \cup {Head(pending)} \subseteq OnWires' BY <3>1, <3>3, OnWiresStep
    <3> QED BY <1>a, <1>b, <2>1, <2>2, <3>1, <3>4 DEF Held
  <2>4. CASE ws \notin up
    <3>1. wire' = wire /\ gone' = gone \cup {Head(pending)} BY <1>5, <2>4 DEF FlushOne
    <3> QED BY <1>a, <1>b, <2>1, <2>2, <3>1 DEF OnWires, Held
  <2> QED BY <2>3, <2>4
<1>6. CASE TakeSocket \/ WriteFails
  <2>1. /\ UNCHANGED <<queue, pending, received, wire>> /\ ui'.frame = ui.frame
        /\ \/ ui'.at # "idle" /\ gone' = gone
           \/ gone' = gone \cup {ui.frame}
    BY <1>6, <1>f DEF TakeSocket, WriteFails, UI
  <2> QED BY <1>a, <1>b, <2>1 DEF OnWires, Held
<1>7. CASE Write
  <2>1. UNCHANGED <<queue, pending, received>> /\ ui'.frame = ui.frame /\ ui.frame \in Frame
    BY <1>7, <1>f, <1>g DEF Write, UI
  <2>2. CASE ui.sock \in up
    <3>1. /\ ui.sock \in Sockets /\ wire' = [wire EXCEPT ![ui.sock] = Append(wire[ui.sock], ui.frame)]
          /\ gone' = gone
      BY <1>0, <1>7, <2>2 DEF Write
    <3>2. wire[ui.sock] \in Seq(Frame) BY <1>0, <3>1
    <3>3. ToSet(Append(wire[ui.sock], ui.frame)) = ToSet(wire[ui.sock]) \cup {ui.frame} BY <2>1, <3>2, SetOfSeq
    <3>4. OnWires \cup {ui.frame} \subseteq OnWires' BY <3>1, <3>3, OnWiresStep
    <3> QED BY <1>a, <1>b, <2>1, <3>1, <3>4 DEF Held
  <2>3. CASE ui.sock \notin up
    <3>1. wire' = wire /\ gone' = gone \cup {ui.frame} BY <1>7, <2>3 DEF Write
    <3> QED BY <1>a, <1>b, <2>1, <3>1 DEF OnWires, Held
  <2> QED BY <2>2, <2>3
<1>8. CASE Enqueue
  <2>1. UNCHANGED <<pending, received, wire>> /\ ui'.frame = ui.frame /\ ui.frame \in Frame
    BY <1>8, <1>f, <1>g DEF Enqueue, UI
  <2>2. /\ Over \in 0..Len(queue) /\ queue' \in Seq(Frame) /\ Len(queue') = Len(queue) + 1 - Over
        /\ \A i \in 1..Len(queue') :
              queue'[i] = IF i = Len(queue') THEN ui.frame ELSE queue[Over + i]
        /\ gone' = gone \cup {queue[i] : i \in 1..Over}
    BY <1>0, <1>8, <2>1, EnqueueEffect
  <2>3. Len(queue) \in Nat BY <1>0
  <2>4. ui.frame \in ToSet(queue')
    <3>1. Len(queue') \in 1..Len(queue') BY <2>2, <2>3
    <3> QED BY <2>2, <3>1, SetOfSeq
  <2>5. ASSUME NEW x \in ToSet(queue) PROVE x \in ToSet(queue') \cup gone'
    <3>1. PICK i \in 1..Len(queue) : queue[i] = x BY <1>0, SetOfSeq
    <3>2. CASE i <= Over
      <4>1. i \in 1..Over BY <2>2, <2>3, <3>2
      <4> QED BY <2>2, <3>1, <4>1
    <3>3. CASE ~(i <= Over)
      <4>1. i - Over \in 1..Len(queue') /\ i - Over # Len(queue') /\ Over + (i - Over) = i
        BY <2>2, <2>3, <3>3
      <4>2. queue'[i - Over] = x BY <2>2, <3>1, <4>1
      <4> QED BY <2>2, <4>1, <4>2, SetOfSeq
    <3> QED BY <3>2, <3>3
  <2>6. gone \subseteq gone' BY <2>2
  <2> QED BY <1>a, <1>b, <2>1, <2>4, <2>5, <2>6 DEF OnWires, Held
<1>9. ASSUME NEW k \in Sockets, Deliver(k) PROVE AllFrames \subseteq AllFrames' /\ ui'.frame = ui.frame
  <2>1. /\ UNCHANGED <<queue, pending, ui, gone>> /\ wire[k] \in Seq(Frame) /\ wire[k] # << >>
        /\ Head(wire[k]) \in Frame /\ received' = Append(received, Head(wire[k]))
        /\ wire' = [wire EXCEPT ![k] = Tail(wire[k])]
    BY <1>0, <1>9, HeadTailProperties DEF Deliver
  <2>2. ToSet(wire[k]) = {Head(wire[k])} \cup ToSet(Tail(wire[k])) BY <2>1, SetOfSeq
  <2>3. ToSet(received') = ToSet(received) \cup {Head(wire[k])} BY <1>0, <2>1, SetOfSeq
  <2>4. OnWires \ ToSet(wire[k]) \subseteq OnWires' /\ ToSet(Tail(wire[k])) \subseteq OnWires'
    BY <2>1, OnWiresStep
  <2> QED BY <1>a, <1>b, <2>1, <2>2, <2>3, <2>4 DEF Held
<1>10. ASSUME NEW k \in Sockets, LinkDies(k) PROVE AllFrames \subseteq AllFrames' /\ ui'.frame = ui.frame
  <2>1. /\ UNCHANGED <<queue, pending, received, ui>> /\ gone' = gone \cup ToSet(wire[k])
        /\ wire' = [wire EXCEPT ![k] = << >>]
    BY <1>10 DEF LinkDies
  <2>2. OnWires \ ToSet(wire[k]) \subseteq OnWires' BY <2>1, OnWiresStep
  <2> QED BY <1>a, <1>b, <2>1, <2>2 DEF Held
<1>11. CASE WriteTooEarly
  <2>1. /\ UNCHANGED <<queue, pending, received>> /\ ui'.frame = ui.frame /\ ws \in Sockets
        /\ gone' = gone \cup ToSet(wire[ws]) \cup {ui.frame} /\ wire' = [wire EXCEPT ![ws] = << >>]
    BY <1>0, <1>11, <1>f DEF WriteTooEarly, UI
  <2>2. OnWires \ ToSet(wire[ws]) \subseteq OnWires' BY <2>1, OnWiresStep
  <2> QED BY <1>a, <1>b, <2>1, <2>2 DEF Held
<1> QED BY <1>1, <1>2, <1>3, <1>4, <1>5, <1>6, <1>7, <1>8, <1>9, <1>10, <1>11
        DEF LinkNext, Worker, UIThread, LetGo

LEMMA VanishStep == LinkInv /\ LinkInv' /\ NothingVanishes /\ [LinkNext]_linkVars => NothingVanishes'
<1> SUFFICES ASSUME LinkInv, LinkInv', NothingVanishes, [LinkNext]_linkVars PROVE NothingVanishes'
  OBVIOUS
<1>1. CASE Submit
  <2>1. /\ ui'.frame = ui.frame + 1 /\ ui'.at # "idle" /\ ui.at = "idle"
        /\ UNCHANGED <<wire, queue, pending, received, gone>> /\ ui.frame \in 0..Frames
    BY <1>1 DEF Submit, LinkInv, LinkTypeOK
  <2>2. \A x \in 1..(ui.frame + 1) : x \in 1..ui.frame \/ x = ui.frame + 1 BY <2>1, LinkAssumption
  <2>3. InHand \cup gone \cup {ui.frame + 1} = InHand' \cup gone'
    BY <2>1, InHandIs DEF OnWires, Held
  <2> QED BY <2>1, <2>2, <2>3 DEF NothingVanishes
<1>2. CASE LinkNext /\ ~Submit BY <1>2, FramesStay DEF NothingVanishes, AllFrames
<1>3. CASE UNCHANGED linkVars BY <1>3 DEF linkVars, NothingVanishes, InHand
<1> QED BY <1>1, <1>2, <1>3

(* However the two threads interleave, over any number of frames, dials, cut-off
   flushes and dead connections, a frame the UI submitted is on its way, was read, or
   was lost for a reason the client has: the bound of the queue, a connection that died
   with it, or a closed client (AgentClient._send, _enqueue, _flush_outbound_queue). *)
THEOREM FramesAreAccountedFor == LinkSpec => []NothingVanishes
<1>1. LinkInit => NothingVanishes BY DEF LinkInit, NothingVanishes
<1> QED BY <1>1, LinkInvInit, LinkInvStep, VanishStep, PTL DEF LinkSpec
-----------------------------------------------------------------------------
\* Two sequences in a row.
LEMMA Joined ==
    ASSUME NEW B, NEW s \in Seq(Frame), NEW t \in Seq(Frame)
    PROVE  /\ Ordered(B, s \o t) <=> Ordered(B, s) /\ Ordered(B, t) /\ Precedes(B, s, t)
           /\ \A u \in Seq(Frame) : /\ Precedes(B, s \o t, u) <=> Precedes(B, s, u) /\ Precedes(B, t, u)
                                    /\ Precedes(B, u, s \o t) <=> Precedes(B, u, s) /\ Precedes(B, u, t)
           /\ \A n : Under(s \o t, n) <=> Under(s, n) /\ Under(t, n)
<1> DEFINE w == s \o t
<1>1. /\ Len(w) = Len(s) + Len(t) /\ Len(s) \in Nat /\ Len(t) \in Nat
      /\ \A i \in 1..Len(w) : w[i] = IF i <= Len(s) THEN s[i] ELSE t[i - Len(s)]
  BY ConcatProperties, LenProperties
<1> HIDE DEF w
<1>2. \A i \in 1..Len(s) : i \in 1..Len(w) /\ w[i] = s[i] BY <1>1
<1>3. ASSUME NEW j \in 1..Len(t) PROVE Len(s) + j \in 1..Len(w) /\ w[Len(s) + j] = t[j]
  <2>1. /\ Len(s) + j \in 1..Len(w) /\ ~(Len(s) + j <= Len(s)) /\ (Len(s) + j) - Len(s) = j BY <1>1
  <2> QED BY <1>1, <2>1
<1>4. ASSUME NEW i \in 1..Len(w)
      PROVE  \/ i \in 1..Len(s)
             \/ \E j \in 1..Len(t) : i = Len(s) + j
  <2>1. CASE i <= Len(s) BY <1>1, <2>1
  <2>2. CASE ~(i <= Len(s))
    <3>1. i - Len(s) \in 1..Len(t) /\ i = Len(s) + (i - Len(s)) BY <1>1, <2>2
    <3> QED BY <3>1
  <2> QED BY <2>1, <2>2
<1>5. Ordered(B, w) <=> Ordered(B, s) /\ Ordered(B, t) /\ Precedes(B, s, t)
  <2>1. ASSUME Ordered(B, w) PROVE Ordered(B, s) /\ Ordered(B, t) /\ Precedes(B, s, t)
    <3>1. Ordered(B, s) BY <1>2, <2>1 DEF Ordered
    <3>2. ASSUME NEW i \in 1..Len(t), NEW j \in 1..Len(t), i < j PROVE Before(B, t[i], t[j])
      <4>1. Len(s) + i < Len(s) + j BY <1>1, <3>2
      <4>2. Before(B, w[Len(s) + i], w[Len(s) + j]) BY <1>3, <2>1, <4>1 DEF Ordered
      <4> QED BY <1>3, <4>2
    <3>3. ASSUME NEW i \in 1..Len(s), NEW j \in 1..Len(t) PROVE Before(B, s[i], t[j])
      <4>1. i < Len(s) + j BY <1>1
      <4>2. Before(B, w[i], w[Len(s) + j]) BY <1>2, <1>3, <2>1, <4>1 DEF Ordered
      <4> QED BY <1>2, <1>3, <4>2
    <3> QED BY <3>1, <3>2, <3>3 DEF Ordered, Precedes
  <2>2. ASSUME Ordered(B, s), Ordered(B, t), Precedes(B, s, t), NEW i \in 1..Len(w), NEW j \in 1..Len(w), i < j
        PROVE  Before(B, w[i], w[j])
    <3>1. CASE i \in 1..Len(s) /\ j \in 1..Len(s) BY <1>2, <2>2, <3>1 DEF Ordered
    <3>2. CASE i \in 1..Len(s) /\ j \notin 1..Len(s)
      <4>1. PICK k \in 1..Len(t) : j = Len(s) + k BY <1>4, <3>2
      <4> QED BY <1>2, <1>3, <2>2, <3>2, <4>1 DEF Precedes
    <3>3. CASE i \notin 1..Len(s)
      <4>1. PICK h \in 1..Len(t) : i = Len(s) + h BY <1>4, <3>3
      <4>2. j \notin 1..Len(s) BY <1>1, <2>2, <4>1
      <4>3. PICK k \in 1..Len(t) : j = Len(s) + k BY <1>4, <4>2
      <4>4. h < k BY <1>1, <2>2, <4>1, <4>3
      <4> QED BY <1>3, <2>2, <4>1, <4>3, <4>4 DEF Ordered
    <3> QED BY <3>1, <3>2, <3>3
  <2> QED BY <2>1, <2>2 DEF Ordered
<1>6. ASSUME NEW u \in Seq(Frame)
      PROVE  /\ Precedes(B, w, u) <=> Precedes(B, s, u) /\ Precedes(B, t, u)
             /\ Precedes(B, u, w) <=> Precedes(B, u, s) /\ Precedes(B, u, t)
  <2>1. Precedes(B, w, u) => Precedes(B, s, u) /\ Precedes(B, t, u) BY <1>2, <1>3 DEF Precedes
  <2>2. Precedes(B, s, u) /\ Precedes(B, t, u) => Precedes(B, w, u) BY <1>2, <1>3, <1>4 DEF Precedes
  <2>3. Precedes(B, u, w) => Precedes(B, u, s) /\ Precedes(B, u, t) BY <1>2, <1>3 DEF Precedes
  <2>4. Precedes(B, u, s) /\ Precedes(B, u, t) => Precedes(B, u, w) BY <1>2, <1>3, <1>4 DEF Precedes
  <2> QED BY <2>1, <2>2, <2>3, <2>4
<1>7. ASSUME NEW n PROVE Under(w, n) <=> Under(s, n) /\ Under(t, n)
  BY <1>2, <1>3, <1>4 DEF Under
<1> QED BY <1>5, <1>6, <1>7 DEF w

\* The empty sequence fits anywhere.
LEMMA Nothing == /\ \A B : Ordered(B, << >>)
                 /\ \A B, s : Precedes(B, << >>, s) /\ Precedes(B, s, << >>)
                 /\ \A n : Under(<< >>, n)
BY DEF Ordered, Precedes, Under

\* A sequence without its first d elements.
LEMMA Dropped ==
    ASSUME NEW B, NEW q \in Seq(Frame), NEW r \in Seq(Frame), NEW d \in Nat,
           \A i \in 1..Len(r) : d + i \in 1..Len(q) /\ r[i] = q[d + i]
    PROVE  /\ Ordered(B, q) => Ordered(B, r)
           /\ \A s \in Seq(Frame) : Precedes(B, s, q) => Precedes(B, s, r)
           /\ \A n : Under(q, n) => Under(r, n)
<1>1. ASSUME Ordered(B, q), NEW i \in 1..Len(r), NEW j \in 1..Len(r), i < j PROVE Before(B, r[i], r[j])
  <2>1. d + i < d + j BY <1>1
  <2> QED BY <1>1, <2>1 DEF Ordered
<1>2. \A s \in Seq(Frame) : Precedes(B, s, q) => Precedes(B, s, r) BY DEF Precedes
<1>3. \A n : Under(q, n) => Under(r, n) BY DEF Under
<1> QED BY <1>1, <1>2, <1>3 DEF Ordered

\* A new frame, buffered or not, among older ones.
LEMMA Newest ==
    ASSUME NEW B, NEW f \in Frame, \A x \in B : x < f, NEW s \in Seq(Frame), Under(s, f)
    PROVE  /\ Under(s, f + 1) /\ Under(<<f>>, f + 1) /\ Ordered(B, <<f>>) /\ Ordered(B \cup {f}, <<f>>)
           /\ Precedes(B, s, <<f>>) /\ Precedes(B, <<f>>, s) /\ Precedes(B \cup {f}, s, <<f>>)
           /\ Ordered(B, s) => Ordered(B \cup {f}, s)
           /\ \A t \in Seq(Frame) : Under(t, f) /\ Precedes(B, s, t) => Precedes(B \cup {f}, s, t)
<1>1. f \in Nat /\ Len(<<f>>) = 1 /\ <<f>>[1] = f BY DEF Frame
<1>2. \A i \in 1..Len(s) : s[i] \in Nat /\ s[i] < f
  <2>1. \A i \in 1..Len(s) : s[i] \in Frame BY ElementOfSeq
  <2> QED BY <2>1 DEF Under, Frame
<1>3. f \notin B /\ \A i \in 1..Len(s) : s[i] # f
  BY <1>1, <1>2
<1>4. Under(s, f + 1) BY <1>1, <1>2 DEF Under
<1>5. Under(<<f>>, f + 1) BY <1>1 DEF Under
<1>6. Ordered(B, <<f>>) /\ Ordered(B \cup {f}, <<f>>)
  <2>1. \A i, j \in 1..Len(<<f>>) : ~(i < j) BY <1>1
  <2> QED BY <2>1 DEF Ordered
<1>7. \A j \in 1..Len(<<f>>) : <<f>>[j] = f BY <1>1
<1>8. Precedes(B, s, <<f>>) /\ Precedes(B, <<f>>, s) /\ Precedes(B \cup {f}, s, <<f>>)
  BY <1>2, <1>3, <1>7 DEF Precedes, Before
<1>9. Ordered(B, s) => Ordered(B \cup {f}, s) BY <1>3 DEF Ordered, Before
<1>10. ASSUME NEW t \in Seq(Frame), Under(t, f), Precedes(B, s, t) PROVE Precedes(B \cup {f}, s, t)
  <2>1. \A j \in 1..Len(t) : t[j] \in Frame BY ElementOfSeq
  <2>2. \A j \in 1..Len(t) : t[j] # f BY <1>1, <1>10, <2>1 DEF Under, Frame
  <2> QED BY <1>3, <1>10, <2>2 DEF Precedes, Before
<1> QED BY <1>4, <1>5, <1>6, <1>8, <1>9, <1>10

\* A frame moves along the line, or drops out of it.
LEMMA Moves ==
    ASSUME NEW B, NEW n, NEW h \in Frame, NEW a \in Seq(Frame), NEW b \in Seq(Frame),
           NEW c \in Seq(Frame), NEW d \in Seq(Frame)
    PROVE  /\ Line(B, n, a, <<h>> \o b, c, d) => Line(B, n, a \o <<h>>, b, c, d)
           /\ Line(B, n, a, b, <<h>> \o c, d) => Line(B, n, a, b \o <<h>>, c, d) /\ Line(B, n, a, b, c, d)
<1> DEFINE H == <<h>>
<1>0. H \in Seq(Frame) OBVIOUS
<1> HIDE DEF H
<1>1. Line(B, n, a, H \o b, c, d) => Line(B, n, a \o H, b, c, d) BY <1>0, Joined DEF Line
<1>2. Line(B, n, a, b, H \o c, d) => Line(B, n, a, b \o H, c, d) BY <1>0, Joined DEF Line
<1>3. Line(B, n, a, b, H \o c, d) => Line(B, n, a, b, c, d) BY <1>0, Joined DEF Line
<1> QED BY <1>1, <1>2, <1>3 DEF H

\* The newest frame is settled: written, lost, or put at the end of the queue.
LEMMA Settles ==
    ASSUME NEW B, NEW f \in Frame, NEW a \in Seq(Frame), NEW b \in Seq(Frame),
           NEW c \in Seq(Frame), NEW d \in Seq(Frame), Line(B, f, a, b, c, d), \A x \in B : x \in Nat
    PROVE  /\ Line(B, f + 1, a, b \o <<f>>, c, d) /\ Line(B, f + 1, a, b, c, d)
           /\ Line(B \cup {f}, f + 1, a, b, c, d \o <<f>>)
<1> DEFINE F == <<f>>
<1>0. F \in Seq(Frame) /\ f \in Nat BY DEF Frame
<1>1. (\A x \in B : x < f + 1) /\ (\A x \in B \cup {f} : x < f + 1) BY <1>0 DEF Line
<1>2. \A s \in {a, b, c, d} :
         /\ Under(s, f + 1) /\ Under(F, f + 1) /\ Ordered(B, F) /\ Ordered(B \cup {f}, F)
         /\ Precedes(B, s, F) /\ Precedes(B, F, s) /\ Precedes(B \cup {f}, s, F)
         /\ Ordered(B, s) => Ordered(B \cup {f}, s)
         /\ \A t \in Seq(Frame) : Under(t, f) /\ Precedes(B, s, t) => Precedes(B \cup {f}, s, t)
  <2> SUFFICES ASSUME NEW s \in {a, b, c, d}
               PROVE  /\ Under(s, f + 1) /\ Under(F, f + 1) /\ Ordered(B, F) /\ Ordered(B \cup {f}, F)
                      /\ Precedes(B, s, F) /\ Precedes(B, F, s) /\ Precedes(B \cup {f}, s, F)
                      /\ Ordered(B, s) => Ordered(B \cup {f}, s)
                      /\ \A t \in Seq(Frame) : Under(t, f) /\ Precedes(B, s, t) => Precedes(B \cup {f}, s, t)
    OBVIOUS
  <2>1. s \in Seq(Frame) /\ Under(s, f) /\ \A x \in B : x < f BY DEF Line
  <2> QED BY <2>1, Newest
<1> HIDE DEF F
<1>3. Line(B, f + 1, a, b \o F, c, d) BY <1>0, <1>1, <1>2, Joined DEF Line
<1>4. Line(B, f + 1, a, b, c, d) BY <1>1, <1>2 DEF Line
<1>5. Line(B \cup {f}, f + 1, a, b, c, d \o F) BY <1>0, <1>1, <1>2, Joined DEF Line
<1> QED BY <1>3, <1>4, <1>5 DEF F

\* A sequence as its first frame and the rest, and with one more.
LEMMA Ends ==
    ASSUME NEW s \in Seq(Frame)
    PROVE  /\ s # << >> => s = <<Head(s)>> \o Tail(s) /\ Head(s) \in Frame /\ Tail(s) \in Seq(Frame)
           /\ \A x \in Frame : Append(s, x) = s \o <<x>>
<1>1. ASSUME s # << >> PROVE s = <<Head(s)>> \o Tail(s) /\ Head(s) \in Frame /\ Tail(s) \in Seq(Frame)
  <2>1. Head(s) \in Frame /\ Tail(s) \in Seq(Frame) BY <1>1, HeadTailProperties
  <2> QED BY <1>1, <2>1
<1>2. ASSUME NEW x \in Frame PROVE Append(s, x) = s \o <<x>> BY AppendIsConcat
<1> QED BY <1>1, <1>2

LEMMA FifoStep == LinkInv /\ FifoInv /\ [LinkNext]_linkVars => FifoInv'
<1> SUFFICES ASSUME LinkInv, FifoInv, [LinkNext]_linkVars PROVE FifoInv' OBVIOUS
<1> DEFINE n == NextFrame
<1>0. LinkTypeOK /\ OneLink BY DEF LinkInv
<1>a. /\ queue \in Seq(Frame) /\ pending \in Seq(Frame) /\ received \in Seq(Frame) /\ Wire \in Seq(Frame)
      /\ wire \in [Sockets -> Seq(Frame)] /\ buffered \subseteq Frame
  BY <1>0 DEF LinkTypeOK, Wire
<1>b. Line(buffered, n, received, Wire, pending, queue) BY DEF FifoInv
<1>c. ui.at # "idle" => n = ui.frame /\ ui.frame \in Frame
  BY <1>0, LinkAssumption DEF NextFrame, LinkTypeOK, OneLink, Frame
<1>d. ui' = ui => n' = n BY DEF NextFrame
<1>e. ui.at # "idle" /\ ui'.at = "idle" /\ ui'.frame = ui.frame => n' = n + 1 BY DEF NextFrame
<1>f. up = {} => Wire = << >> BY DEF Wire
<1>g. up' = {} => Wire' = << >> BY DEF Wire
<1>h. \A x \in buffered : x \in Nat BY <1>a DEF Frame
<1> HIDE DEF n
<1>1. CASE Dial
  <2>1. up = {} /\ ws' \in Sockets /\ UNCHANGED <<queue, pending, ui, received, buffered>>
    BY <1>0, <1>1, LinkAssumption DEF Dial, LinkTypeOK, OneLink, Sockets
  <2>2. \A k \in Sockets : wire'[k] = << >> BY <1>0, <1>1, <1>a, <2>1 DEF Dial, OneLink
  <2>3. Wire' = << >> BY <2>1, <2>2 DEF Wire
  <2> QED BY <1>b, <1>d, <1>f, <2>1, <2>3 DEF FifoInv, n
<1>2. CASE Handshake \/ Flushed \/ Bind \/ UNCHANGED linkVars
  <2>1. UNCHANGED <<queue, pending, ui, received, buffered, ws, up, wire>>
    BY <1>2 DEF Handshake, Flushed, Bind, linkVars
  <2>2. Wire' = Wire BY <2>1 DEF Wire
  <2> QED BY <1>b, <1>d, <2>1, <2>2 DEF FifoInv, n
<1>3. CASE Swap
  <2>1. /\ pending' = queue /\ queue' = << >> /\ pending = << >>
        /\ UNCHANGED <<ui, received, buffered, ws, up, wire>>
    BY <1>0, <1>3 DEF Swap, LinkTypeOK
  <2>2. Wire' = Wire BY <2>1 DEF Wire
  <2>3. Line(buffered, n, received, Wire, queue, << >>) BY <1>b, <2>1, Nothing DEF Line
  <2> QED BY <1>d, <2>1, <2>2, <2>3 DEF FifoInv, n
<1>4. CASE FlushOne
  <2>1. /\ pending # << >> /\ pending' = Tail(pending) /\ UNCHANGED <<ui, received, buffered, ws, up, queue>>
        /\ Head(pending) \in Frame /\ Tail(pending) \in Seq(Frame) /\ pending = <<Head(pending)>> \o Tail(pending)
    BY <1>4, <1>a, Ends DEF FlushOne
  <2>2. Line(buffered, n, received, Wire \o <<Head(pending)>>, Tail(pending), queue)
        /\ Line(buffered, n, received, Wire, Tail(pending), queue)
    <3> DEFINE h == Head(pending)
               c == Tail(pending)
    <3>1. h \in Frame /\ c \in Seq(Frame) /\ pending = <<h>> \o c BY <2>1
    <3> HIDE DEF h, c
    <3>2. Line(buffered, n, received, Wire, <<h>> \o c, queue) BY <1>b, <3>1
    <3>3. Line(buffered, n, received, Wire \o <<h>>, c, queue) /\ Line(buffered, n, received, Wire, c, queue)
      BY <1>a, <3>1, <3>2, Moves
    <3> QED BY <3>3 DEF h, c
  <2>3. Wire' \in {Wire, Wire \o <<Head(pending)>>}
    <3>1. CASE ws \in up
      <4>1. ws \in Sockets /\ wire'[ws] = Append(wire[ws], Head(pending))
        BY <1>0, <1>4, <1>a, <3>1 DEF FlushOne, LinkTypeOK
      <4>2. Wire' = Append(Wire, Head(pending)) BY <2>1, <3>1, <4>1 DEF Wire
      <4> QED BY <1>a, <2>1, <4>2, Ends
    <3>2. CASE ws \notin up BY <2>1, <3>2 DEF Wire
    <3> QED BY <3>1, <3>2
  <2> QED BY <1>d, <2>1, <2>2, <2>3 DEF FifoInv, n
<1>5. CASE LetGo
  <2>1. /\ UNCHANGED <<ui, received, buffered>> /\ Wire' = << >> /\ pending' = << >> /\ queue' = pending \o queue
    BY <1>5, <1>g, LetGoEffect
  <2>2. Line(buffered, n, received, << >>, << >>, pending \o queue) BY <1>a, <1>b, Joined, Nothing DEF Line
  <2> QED BY <1>d, <2>1, <2>2 DEF FifoInv, n
<1>6. CASE Submit
  <2>1. UNCHANGED <<queue, pending, received, buffered, ws, up, wire>> /\ n' = n
    BY <1>0, <1>6 DEF Submit, n, NextFrame
  <2>2. Wire' = Wire BY <2>1 DEF Wire
  <2> QED BY <1>b, <2>1, <2>2 DEF FifoInv, n
<1>7. CASE (TakeSocket /\ ws # 0) \/ WriteFails
  <2>1. UNCHANGED <<queue, pending, received, buffered, ws, up, wire>> /\ n' = n
    BY <1>0, <1>7 DEF TakeSocket, WriteFails, UI, n, NextFrame, LinkTypeOK
  <2>2. Wire' = Wire BY <2>1 DEF Wire
  <2> QED BY <1>b, <2>1, <2>2 DEF FifoInv, n
<1>8. CASE (TakeSocket /\ ws = 0) \/ Write
  <2>1. /\ UNCHANGED <<queue, pending, received, buffered, ws, up>> /\ ui.at # "idle" /\ ui'.at = "idle"
        /\ ui'.frame = ui.frame
    BY <1>0, <1>8 DEF TakeSocket, Write, UI, LinkTypeOK
  <2>2. ui.frame \in Frame /\ n = ui.frame /\ n' = n + 1 BY <1>c, <1>e, <2>1
  <2>3. Line(buffered, n + 1, received, Wire \o <<n>>, pending, queue)
        /\ Line(buffered, n + 1, received, Wire, pending, queue)
    BY <1>a, <1>b, <1>h, <2>2, Settles
  <2>4. Wire' \in {Wire, Wire \o <<n>>}
    <3>1. CASE Write /\ ui.sock \in up
      <4>1. ui.sock = ws /\ ws \in Sockets /\ ws \in up BY <1>0, <3>1 DEF OneLink
      <4>2. wire'[ws] = Append(wire[ws], n) BY <1>a, <2>2, <3>1, <4>1 DEF Write
      <4>3. Wire' = Append(Wire, n) BY <2>1, <4>1, <4>2 DEF Wire
      <4> QED BY <1>a, <2>2, <4>3, Ends
    <3>2. CASE ~(Write /\ ui.sock \in up) BY <1>8, <2>1, <3>2 DEF TakeSocket, Write, Wire
    <3> QED BY <3>1, <3>2
  <2> QED BY <2>1, <2>2, <2>3, <2>4 DEF FifoInv, n
<1>9. CASE Enqueue
  <2>1. /\ UNCHANGED <<pending, received, ws, up, wire>> /\ ui.at # "idle" /\ ui'.at = "idle"
        /\ ui'.frame = ui.frame /\ buffered' = buffered \cup {ui.frame}
    BY <1>0, <1>9 DEF Enqueue, UI, LinkTypeOK
  <2>2. ui.frame \in Frame /\ n = ui.frame /\ n' = n + 1 BY <1>c, <1>e, <2>1
  <2>3. Wire' = Wire BY <2>1 DEF Wire
  <2> DEFINE r == [i \in 1..(Len(queue) - Over) |-> queue[Over + i]]
  <2>4. /\ Over \in 0..Len(queue) /\ queue' \in Seq(Frame) /\ Len(queue') = Len(queue) + 1 - Over
        /\ \A i \in 1..Len(queue') : queue'[i] = IF i = Len(queue') THEN n ELSE queue[Over + i]
        /\ \A i \in 1..Len(queue') : i # Len(queue') => Over + i \in 1..Len(queue)
    BY <1>0, <1>9, <2>2, EnqueueEffect
  <2>5. Len(queue) \in Nat /\ Over \in Nat /\ Len(queue) - Over \in Nat BY <1>a, <2>4, LenProperties
  <2>6. \A i \in 1..(Len(queue) - Over) : Over + i \in 1..Len(queue) /\ queue[Over + i] \in Frame
    <3>1. \A i \in 1..(Len(queue) - Over) : Over + i \in 1..Len(queue) BY <2>5
    <3> QED BY <1>a, <3>1, ElementOfSeq
  <2>7. r \in Seq(Frame) /\ Len(r) = Len(queue) - Over BY <2>5, <2>6
  <2>8. \A i \in 1..Len(r) : Over + i \in 1..Len(queue) /\ r[i] = queue[Over + i] BY <2>6, <2>7
  <2> HIDE DEF r
  <2>9. queue' = r \o <<n>>
    <3> DEFINE w == r \o <<n>>
    <3>1. /\ w \in Seq(Frame) /\ Len(w) = Len(r) + 1 /\ w[Len(r) + 1] = n
          /\ \A i \in 1..Len(r) : w[i] = r[i]
      <4>1. w = Append(r, n) BY <2>2, <2>7, Ends
      <4> HIDE DEF w
      <4> QED BY <2>2, <2>7, <4>1, AppendProperties
    <3> HIDE DEF w
    <3>2. Len(queue') = Len(w) /\ Len(queue') = Len(r) + 1 BY <2>4, <2>5, <2>7, <3>1
    <3>3. ASSUME NEW i \in 1..Len(queue') PROVE queue'[i] = w[i]
      <4>1. CASE i = Len(queue') BY <2>4, <3>1, <3>2, <4>1
      <4>2. CASE i # Len(queue')
        <5>1. i \in 1..Len(r) BY <2>5, <2>7, <3>2, <4>2
        <5> QED BY <2>4, <2>8, <3>1, <4>2, <5>1
      <4> QED BY <4>1, <4>2
    <3>4. queue' = w BY <2>4, <3>1, <3>2, <3>3, SeqEqual
    <3> QED BY <3>4 DEF w
  <2>10. Line(buffered, n, received, Wire, pending, r)
    <3>1. /\ Ordered(buffered, queue) => Ordered(buffered, r)
          /\ \A s \in Seq(Frame) : Precedes(buffered, s, queue) => Precedes(buffered, s, r)
          /\ \A m : Under(queue, m) => Under(r, m)
      BY <1>a, <2>5, <2>7, <2>8, Dropped
    <3> QED BY <1>a, <1>b, <3>1 DEF Line
  <2>11. Line(buffered \cup {n}, n + 1, received, Wire, pending, r \o <<n>>)
    BY <1>a, <1>h, <2>2, <2>7, <2>10, Settles
  <2> QED BY <2>1, <2>2, <2>3, <2>9, <2>11 DEF FifoInv, n
<1>10. ASSUME NEW k \in Sockets, Deliver(k) PROVE FifoInv'
  <2>1. /\ UNCHANGED <<queue, pending, ui, buffered, ws, up>> /\ k = ws /\ ws \in up
        /\ wire[k] # << >> /\ received' = Append(received, Head(wire[k])) /\ wire'[k] = Tail(wire[k])
    BY <1>0, <1>10, <1>a DEF Deliver, OneLink
  <2>2. Wire = wire[k] /\ Wire' = Tail(Wire) BY <2>1 DEF Wire
  <2>3. /\ Wire = <<Head(Wire)>> \o Tail(Wire) /\ Head(Wire) \in Frame /\ Tail(Wire) \in Seq(Frame)
    BY <1>a, <2>1, <2>2, Ends
  <2>4. Line(buffered, n, received \o <<Head(Wire)>>, Tail(Wire), pending, queue)
    <3> DEFINE h == Head(Wire)
               b == Tail(Wire)
    <3>1. h \in Frame /\ b \in Seq(Frame) /\ Wire = <<h>> \o b BY <2>3
    <3> HIDE DEF h, b
    <3>2. Line(buffered, n, received, <<h>> \o b, pending, queue) BY <1>b, <3>1
    <3>3. Line(buffered, n, received \o <<h>>, b, pending, queue) BY <1>a, <3>1, <3>2, Moves
    <3> QED BY <3>3 DEF h, b
  <2>5. received' = received \o <<Head(Wire)>> BY <1>a, <2>1, <2>2, <2>3, Ends
  <2> QED BY <1>d, <2>1, <2>2, <2>4, <2>5 DEF FifoInv, n
<1>11. ASSUME NEW k \in Sockets, LinkDies(k) PROVE FifoInv'
  <2>1. UNCHANGED <<queue, pending, ui, buffered, received>> /\ up' = {}
    BY <1>0, <1>11 DEF LinkDies, OneLink
  <2>2. Line(buffered, n, received, << >>, pending, queue) BY <1>b, Nothing DEF Line
  <2> QED BY <1>d, <1>g, <2>1, <2>2 DEF FifoInv, n
<1>12. CASE WriteTooEarly
  <2>1. /\ UNCHANGED <<queue, pending, received, buffered>> /\ up' = {} /\ ui.at # "idle" /\ ui'.at = "idle"
        /\ ui'.frame = ui.frame
    BY <1>0, <1>12 DEF WriteTooEarly, UI, LinkTypeOK
  <2>2. ui.frame \in Frame /\ n = ui.frame /\ n' = n + 1 BY <1>c, <1>e, <2>1
  <2>3. Line(buffered, n + 1, received, Wire, pending, queue)
    BY <1>a, <1>b, <1>h, <2>2, Settles
  <2>4. Line(buffered, n + 1, received, << >>, pending, queue) BY <2>3, Nothing DEF Line
  <2> QED BY <1>g, <2>1, <2>2, <2>4 DEF FifoInv, n
<1> QED BY <1>1, <1>2, <1>3, <1>4, <1>5, <1>6, <1>7, <1>8, <1>9, <1>10, <1>11, <1>12
        DEF LinkNext, Worker, UIThread, LetGo, Quiet

(* The server reads no frame twice, and of two frames that went through the queue it
   reads the one submitted first first, over any number of frames, reconnections,
   overflows of the queue and flushes that were cut off and put back: the promise
   "flushed FIFO" of AgentClient._flush_outbound_queue. *)
THEOREM FramesReadOnceInOrder == LinkSpec => []ReadOnceInOrder
<1>1. LinkInit => FifoInv
  <2> SUFFICES ASSUME LinkInit PROVE FifoInv OBVIOUS
  <2>1. received = << >> /\ pending = << >> /\ queue = << >> /\ buffered = {} /\ up = {}
    BY DEF LinkInit
  <2>2. Wire = << >> BY <2>1 DEF Wire
  <2> QED BY <2>1, <2>2, Nothing DEF FifoInv, Line
<1>2. LinkInv /\ FifoInv => ReadOnceInOrder
  <2> SUFFICES ASSUME LinkInv, FifoInv PROVE ReadOnceInOrder OBVIOUS
  <2>1. DOMAIN received = 1..Len(received) BY LenProperties DEF LinkInv, LinkTypeOK
  <2>2. Ordered(buffered, received) BY DEF FifoInv, Line
  <2> QED BY <2>1, <2>2 DEF ReadOnceInOrder, Ordered, Before
<1> QED BY <1>1, <1>2, LinkInvInit, LinkInvStep, FifoStep, PTL DEF LinkSpec
=============================================================================
