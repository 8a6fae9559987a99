----------------------------- MODULE PluginLink -----------------------------
(***************************************************************************)
(* The plugin's connection to the server: AgentClient                      *)
(* (plugin/net/trid3nt_client.py) driven by two threads.  The worker       *)
(* (AgentWorker.run, plugin/net/ws_bridge.py) dials, shakes hands, flushes *)
(* the outbound queue, pumps events and redials; the UI thread sends       *)
(* frames, and buffers them while the client says it is disconnected.  The *)
(* queue and each socket write are locked; connected and _ws are not.      *)
(***************************************************************************)
EXTENDS Integers, Sequences, SequencesExt

CONSTANTS
    Frames,      \* how many frames the UI sends, in the order 1, 2, ...
    QueueMax,    \* OUTBOUND_QUEUE_MAX
    Faults       \* how often a link dies or a handshake fails

ASSUME LinkAssumption ==
    /\ Frames \in Nat /\ QueueMax \in Nat \ {0} /\ Faults \in Nat

Frame == 1..Frames
Sockets == 1..(Faults + 1)

VARIABLES
    worker,      \* where the worker thread is
    connected,   \* the client's flag
    ws,          \* the client's socket, 0 if None
    up,          \* the sockets whose connection is alive
    wire,        \* socket -> frames written and not yet read by the server
    queue,       \* _outbound_queue
    pending,     \* the worker's batch while it flushes
    ui,          \* the UI thread: where it is, its frame and the socket it writes to
    faults,      \* faults so far
    received,    \* history: what the server read, in order
    buffered,    \* history: frames that went through the queue
    gone         \* history: frames the bound dropped, a connection lost, or refused

linkVars == <<worker, connected, ws, up, wire, queue, pending, ui, faults, received, buffered, gone>>

LinkTypeOK ==
    /\ worker \in {"start", "handshake", "swap", "flush", "bind", "pump", "backoff", "stopped"}
    /\ connected \in BOOLEAN
    /\ ws \in {0} \cup Sockets
    /\ up \subseteq Sockets
    /\ wire \in [Sockets -> Seq(Frame)]
    /\ queue \in Seq(Frame) /\ pending \in Seq(Frame) /\ received \in Seq(Frame)
    /\ ui \in [at : {"idle", "open", "writing", "buffer"}, frame : 0..Frames, sock : {0} \cup Sockets]
    /\ faults \in 0..Faults
    /\ buffered \subseteq Frame /\ gone \subseteq Frame
    /\ worker \in {"handshake", "swap", "flush", "bind", "pump"} => ws # 0
    /\ worker # "flush" => pending = <<>>

LinkInit ==
    /\ worker = "start"
    /\ connected = FALSE
    /\ ws = 0
    /\ up = {}
    /\ wire = [k \in Sockets |-> <<>>]
    /\ queue = <<>> /\ pending = <<>>
    /\ ui = [at |-> "idle", frame |-> 0, sock |-> 0]
    /\ faults = 0
    /\ received = <<>>
    /\ buffered = {} /\ gone = {}

-----------------------------------------------------------------------------
\* The worker thread.

(* connect: the flag is cleared, the old socket closed, a new one opened.  What
   the server had not read of the old one is lost. *)
Dial ==
    /\ worker \in {"start", "backoff"}
    /\ connected' = FALSE
    /\ ws' = faults + 1
    /\ up' = {faults + 1}
    /\ gone' = IF ws = 0 THEN gone ELSE gone \cup ToSet(wire[ws])
    /\ wire' = IF ws = 0 THEN wire ELSE [wire EXCEPT ![ws] = <<>>]
    /\ worker' = "handshake"
    /\ UNCHANGED <<queue, pending, ui, faults, received, buffered>>

\* auth-token, auth-ack, session-resume, session-state; then the client is connected.
Handshake ==
    /\ worker = "handshake" /\ ws \in up
    /\ connected' = TRUE
    /\ worker' = "swap"
    /\ UNCHANGED <<ws, up, wire, queue, pending, ui, faults, received, buffered, gone>>

\* The worker closes the client and ends, or goes (back) to the ladder.
GiveUpOrRetry(over) ==
    /\ worker' = IF over THEN "stopped" ELSE "backoff"
    /\ connected' = FALSE
    /\ ws' = IF over THEN 0 ELSE ws
    /\ up' = IF over THEN {} ELSE up \ {ws}
    /\ gone' = gone \cup ToSet(wire[ws])
    /\ wire' = [wire EXCEPT ![ws] = <<>>]

\* Is this the first connect?  It fails fast.
FirstDial == ws = 1

(* The handshake fails or times out.  On the first connect, and when the token is
   refused, the worker closes the client and ends. *)
HandshakeFails ==
    /\ worker = "handshake"
    /\ faults < Faults
    /\ faults' = faults + 1
    /\ \E over \in {FirstDial, TRUE} : GiveUpOrRetry(over)
    /\ UNCHANGED <<queue, pending, ui, received, buffered>>

\* _flush_outbound_queue: take the whole queue, under its lock.
Swap ==
    /\ worker = "swap"
    /\ pending' = queue
    /\ queue' = <<>>
    /\ worker' = "flush"
    /\ UNCHANGED <<connected, ws, up, wire, ui, faults, received, buffered, gone>>

\* One frame of the batch is written; a dying link may swallow it.
FlushOne ==
    /\ worker = "flush" /\ pending # <<>>
    /\ pending' = Tail(pending)
    /\ wire' = IF ws \in up THEN [wire EXCEPT ![ws] = Append(@, Head(pending))] ELSE wire
    /\ gone' = IF ws \in up THEN gone ELSE gone \cup {Head(pending)}
    /\ UNCHANGED <<worker, connected, ws, up, queue, ui, faults, received, buffered>>

\* Mutant of FlushFails: what is left of the batch is not put back.
DropsBatch ==
    /\ worker = "flush" /\ pending # <<>> /\ ws \notin up
    /\ UNCHANGED queue
    /\ pending' = <<>>
    /\ GiveUpOrRetry(FirstDial)
    /\ UNCHANGED <<ui, faults, received, buffered>>

\* Mutant of FlushFails: the rest of the batch goes behind what was queued meanwhile.
RequeuesBehind ==
    /\ worker = "flush" /\ pending # <<>> /\ ws \notin up
    /\ queue' = queue \o pending
    /\ pending' = <<>>
    /\ GiveUpOrRetry(FirstDial)
    /\ UNCHANGED <<ui, faults, received, buffered>>

\* Mutant of FlushFails: the batch is put back and kept.
KeepsBatch ==
    /\ worker = "flush" /\ pending # <<>> /\ ws \notin up
    /\ queue' = pending \o queue
    /\ GiveUpOrRetry(FirstDial)
    /\ UNCHANGED <<pending, ui, faults, received, buffered>>

\* The write raises: the frame and the rest of the batch go back in front.
FlushFails ==
    /\ worker = "flush" /\ pending # <<>> /\ ws \notin up
    /\ queue' = pending \o queue
    /\ pending' = <<>>
    /\ GiveUpOrRetry(FirstDial)
    /\ UNCHANGED <<ui, faults, received, buffered>>

\* The batch is out: the worker pumps events, on the first connect after a Case is bound.
Flushed ==
    /\ worker = "flush" /\ pending = <<>>
    /\ worker' = IF FirstDial THEN "bind" ELSE "pump"
    /\ UNCHANGED <<connected, ws, up, wire, queue, pending, ui, faults, received, buffered, gone>>

(* _bind_startup_case: the Case is created, or selected; a select on a dead connection
   is buffered, and the worker goes on and finds out in the pump. *)
Bind ==
    /\ worker = "bind"
    /\ worker' = "pump"
    /\ connected' \in {connected, connected /\ ws \in up}
    /\ UNCHANGED <<ws, up, wire, queue, pending, ui, faults, received, buffered, gone>>

\* The reply to the create does not come, or the connection ends first.
BindFails ==
    /\ worker = "bind"
    /\ GiveUpOrRetry(TRUE)
    /\ UNCHANGED <<queue, pending, ui, faults, received, buffered>>

\* Mutant of Lost: the pump waits for the UI to notice.
WaitsForFlag ==
    /\ worker = "pump" /\ ws \notin up /\ ~connected
    /\ worker' = "backoff"
    /\ UNCHANGED <<connected, ws, up, wire, queue, pending, ui, faults, received, buffered, gone>>

\* next_event raises ConnectionClosed: _recv clears the flag, the ladder starts.
Lost ==
    /\ worker = "pump" /\ ws \notin up
    /\ GiveUpOrRetry(FALSE)
    /\ UNCHANGED <<queue, pending, ui, faults, received, buffered>>

\* stop() was called: the loop ends at its next poll and closes the client.
StopWorker ==
    /\ worker \in {"pump", "backoff"}
    /\ GiveUpOrRetry(TRUE)
    /\ UNCHANGED <<queue, pending, ui, faults, received, buffered>>

-----------------------------------------------------------------------------
\* The UI thread: one outbound verb (_send with queue_if_closed).

UI(at, sock) == ui' = [ui EXCEPT !.at = at, !.sock = sock]

\* The verb is called and reads the flag.
Submit ==
    /\ ui.at = "idle" /\ ui.frame < Frames
    /\ ui' = [at |-> IF connected /\ ws # 0 THEN "open" ELSE "buffer",
              frame |-> ui.frame + 1, sock |-> 0]
    /\ UNCHANGED <<worker, connected, ws, up, wire, queue, pending, faults, received, buffered, gone>>

\* It reads the socket, which may be another one by now; with none it raises.
TakeSocket ==
    /\ ui.at = "open"
    /\ IF ws = 0
       THEN UI("idle", 0) /\ gone' = gone \cup {ui.frame}
       ELSE UI("writing", ws) /\ UNCHANGED gone
    /\ UNCHANGED <<worker, connected, ws, up, wire, queue, pending, faults, received, buffered>>

\* sendall returns.  A dead connection may swallow the frame, a closed socket may not.
Write ==
    /\ ui.at = "writing"
    /\ ui.sock \in up \/ ui.sock = ws
    /\ UI("idle", 0)
    /\ wire' = IF ui.sock \in up THEN [wire EXCEPT ![ui.sock] = Append(@, ui.frame)] ELSE wire
    /\ gone' = IF ui.sock \in up THEN gone ELSE gone \cup {ui.frame}
    /\ UNCHANGED <<worker, connected, ws, up, queue, pending, faults, received, buffered>>

(* sendall raises, on a live socket too: it shares the time limit the worker's recv has
   set.  The flag of the client is cleared, whichever socket it was. *)
WriteFails ==
    /\ ui.at = "writing"
    /\ connected' = FALSE
    /\ UI("buffer", 0)
    /\ UNCHANGED <<worker, ws, up, wire, queue, pending, faults, received, buffered, gone>>

(* The frame reaches a new socket ahead of the token: the server refuses it and closes the
   connection as one without a token, and the worker ends. *)
WriteTooEarly ==
    /\ ui.at = "writing" /\ ui.sock = ws
    /\ worker = "handshake" /\ ws \in up
    /\ faults < Faults
    /\ faults' = faults + 1
    /\ worker' = "stopped" /\ connected' = FALSE /\ ws' = 0 /\ up' = {}
    /\ gone' = gone \cup ToSet(wire[ws]) \cup {ui.frame}
    /\ wire' = [wire EXCEPT ![ws] = <<>>]
    /\ UI("idle", 0)
    /\ UNCHANGED <<queue, pending, received, buffered>>

\* _enqueue: the oldest frames go when the bound is passed.
Enqueue ==
    /\ ui.at = "buffer"
    /\ LET all == Append(queue, ui.frame)
           over == IF Len(all) > QueueMax THEN Len(all) - QueueMax ELSE 0
       IN  /\ queue' = SubSeq(all, over + 1, Len(all))
           /\ gone' = gone \cup {all[i] : i \in 1..over}
    /\ buffered' = buffered \cup {ui.frame}
    /\ UI("idle", 0)
    /\ UNCHANGED <<worker, connected, ws, up, wire, pending, faults, received>>

-----------------------------------------------------------------------------
\* The network and the server.

\* The server reads the next frame of a live connection.
Deliver(k) ==
    /\ k \in up /\ wire[k] # <<>>
    /\ received' = Append(received, Head(wire[k]))
    /\ wire' = [wire EXCEPT ![k] = Tail(@)]
    /\ UNCHANGED <<worker, connected, ws, up, queue, pending, ui, faults, buffered, gone>>

\* A connection dies with what the server has not read.
LinkDies(k) ==
    /\ k \in up /\ worker # "handshake" /\ faults < Faults
    /\ faults' = faults + 1
    /\ up' = up \ {k}
    /\ gone' = gone \cup ToSet(wire[k])
    /\ wire' = [wire EXCEPT ![k] = <<>>]
    /\ UNCHANGED <<worker, connected, ws, queue, pending, ui, received, buffered>>

Worker == Dial \/ Handshake \/ Swap \/ FlushOne \/ FlushFails \/ Flushed \/ Bind \/ Lost
UIThread == TakeSocket \/ Write \/ WriteFails \/ Enqueue

Quiet == ui.at = "idle" /\ ui.frame = Frames /\ worker \in {"pump", "stopped"} /\ UNCHANGED linkVars

LinkNext ==
    \/ Worker \/ HandshakeFails \/ BindFails \/ StopWorker
    \/ Submit \/ UIThread \/ WriteTooEarly
    \/ \E k \in Sockets : Deliver(k) \/ LinkDies(k)
    \/ Quiet

\* Both threads run; after the last fault a dial and its handshake succeed.
LinkFairness == WF_linkVars(Worker) /\ WF_linkVars(UIThread) /\ \A k \in Sockets : WF_linkVars(Deliver(k))

LinkSpec == LinkInit /\ [][LinkNext]_linkVars /\ LinkFairness

-----------------------------------------------------------------------------
\* Where a frame that was submitted can be.
InHand ==
    ToSet(queue) \cup ToSet(pending) \cup ToSet(received)
      \cup (UNION {ToSet(wire[k]) : k \in Sockets})
      \cup (IF ui.at = "idle" THEN {} ELSE {ui.frame})

(* A frame the UI submitted is never simply forgotten: it is on its way, received,
   or lost for a reason the client has (the bound, a dead or refused connection, a
   closed client). *)
NothingVanishes == 1..ui.frame \subseteq InHand \cup gone

(* A frame reaches the server at most once, although a write that failed is tried
   again and a batch that was cut off goes back in the queue.  "flushed FIFO": of two
   frames that were buffered, the server never reads the later one first, over any
   number of reconnections and cut-off flushes. *)
ReadOnceInOrder ==
    \A i, j \in DOMAIN received : i < j =>
        /\ received[i] # received[j]
        /\ received[i] \in buffered /\ received[j] \in buffered => received[i] < received[j]

(* A connection that died is noticed and dialled again, until the worker pumps a
   live one or has been stopped. *)
Reconnects ==
    ws # 0 /\ ws \notin up ~> (worker = "pump" /\ ws \in up) \/ worker = "stopped"
=============================================================================
