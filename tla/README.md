# A TLA+ verification of the TRID3NT server core

TRID3NT is a QGIS plugin and a Python server. A user types prompts in the plugin; the server
runs a language-model loop that calls geospatial tools and solvers, streams progress back over a
websocket, and keeps the work in *Cases*: a conversation, its map layers, an area of interest
(AOI), tool cards and charts. This directory models the part of the server whose correctness
depends on the order of events: turns and the model loop inside them, sockets and the plugin's end
of them, tool calls, their gates and cards, a mesh under review, Cases, the document store, and the
handles by which the model refers to layers.

File names below are relative to `src/trid3nt_server/` unless they start with `src/`.

## 1. Inventory

### 1.1 Components

| Component | State | Operations | Modelled in |
|---|---|---|---|
| Tool circuit breaker (`model/guards/circuit_breaker.py`) | per tool: failure counter, cooldown deadline | `is_tripped`, `record_failure`, `record_success` | `CircuitBreaker` |
| Connection handler (`server/protocol/loop.py`, `handlers.py`, `auth.py`) | `SessionState`, one per socket: `inflight_tasks`, resume flags | connect, session-resume, prompt, stop, Case commands, close | `TurnStreams`, `CaseTargeting` |
| Live-turn registry (`server/turn/live_turn.py`) | per session: stream -> unfinished task and its emitter | register, drop, find, rebind | `TurnStreams` |
| Case targeting (`server/turn/engine.py`, `cases.py`, `server/session/`, `server/dispatch/persist.py`, `emitter.py`) | active-Case pointer per session; pin, history, sync marker, layer accumulator per connection; captured Case per turn and tool call | prepare prompt, sync, mint, select, create, delete, persist rows, cards, charts and layers, auto-name | `CaseTargeting` |
| Case documents (`store/cases.py`, `Persistence`) | summary fields and storage-only fields | get/upsert, merge layers, delete, save handle map | `CaseStore` |
| File-backed document store (`store/cases.py`, `FileMCPClient`) | a JSON file per collection, `.tmp` and `.lock` siblings, an asyncio lock per collection | insert, update, upsert, delete, find | `StoreOps`, `AtomicStore`, `FileStore` |
| Short layer handles (`render/uri_registry.py`) | per session: uri <-> `L1`, `L2`, ...; counter; dirty flag; the map saved on the Case | mint, export, import, replace on Case open, save | `ShortHandles` |
| Pending replies (`inputs/gate/pending.py`, `tools/fetchers/_router/executors/qgis_provider.py`) | per kind: key -> session and future | park, send the card, reply, time out, cancel | `AskUser`, `PendingReplies` |
| Gates of a tool call (`inputs/gate/confirm.py`, `inputs/gate/cards/`) | remembered decisions, per connection | payload warning, approval of code, normalisation of argument names, reuse of a layer, fetch resolution | `ToolGates` |
| Model loop (`server/turn/stream.py`, `server/dispatch/persist.py`, `model/guards/runaway_guard.py`) | rounds, open bubble, segment, guards; abort note, zooms and narration per connection | stream, call tools, finalize, guard, fail, wrap up | `TurnLoop` |
| Pipeline emitter (`render/pipeline_emitter.py`, `server/dispatch/emitter.py`) | per connection: steps, parent, last step and its children, layers | open, run, substep, settle, add layer, close, persist | `Dispatch` (sink: `TurnStreams`) |
| Plugin client (`src/plugin/net/`) | connected flag, socket, outbound queue | dial, handshake, flush, send, drop oldest, redial | `PluginLink` |
| Mesh session and its gate (`tools/mesh/`, `inputs/gate/input_review.py`) | recipe, mesh, display file, journal, hand-edit note; the session at the gate | build, op, resize, adopt, reset, review, accept | `MeshGate` |
| Solver dispatch, workers | run handles, processes | launch, watch, cancel, collect | candidate (section 8) |
| Fetchers, cache, tool search, adapters, rendering, publishing, object store, settings, plugin UI, contracts, scripts | – | – | not modelled (section 8) |

### 1.2 How the components interact

A socket belongs to a session; several sockets may belong to the same one, in sequence (a
reconnect) or at once (`auth.py:89` calls this legitimate). The handler of a socket takes its
messages one at a time. A prompt goes through a pre-dispatch sequence (rebind the pointer to the
prompt's Case stamp, sync the conversation, mint a Case if there is none, pin, persist the user
row) and then starts a *turn*: an asyncio task that outlives the handler and even the socket. A
turn is registered under its *stream* (its Case, or the root) on the connection and in the
session registry. A later prompt in the same stream supersedes it; a stop cancels it; a socket
that closes leaves it running; a socket that resumes takes over its progress frames.

A turn is rounds of streamed text and tool calls. Each segment of text is persisted as a row when a
tool call or the end closes its bubble. Before a tool the turn asks the connection's circuit
breaker, and the call passes its gates: a gate that needs the user parks the turn on a future that a
reply on any socket of the session completes. The body runs under the connection's one pipeline
emitter; it may ask the plugin for layers or park on a mesh review. Afterwards the turn records the
outcome, persists a tool card, merges the new layers into the Case and saves the handle map. All
persistence goes through `Persistence`, whose operations are one or two calls of the document store;
each call is a read-modify-write of a whole file, in a thread, under two locks.

### 1.3 What is hard here

* One asyncio loop runs every handler and every turn: everything between two awaits is atomic,
  and everything read before an await may be stale after it.
* Turns of several Cases share one connection's pin, accumulator, history and breaker; sockets
  share the session's pointer, registry and handle map.
* Cancellation arrives anywhere, twice if a stop times out, and does not stop a thread.
* A socket may drop between any two frames; its turns continue.
* Processes share files; a process may die in the middle of a write; a read may fail.

`PROJECT.json` lists the hazards one by one, with the line and the property for each.

### 1.4 What makes each component correct

* **Breaker**: counter and deadline stay in step; only upstream failures count; an open window
  only runs down; a tripped tool reopens.
* **Turn streams**: one running turn per stream; every running turn can be found; slots are not
  freed or taken by the wrong turn; prompts cancel only their own stream; progress reaches the open
  socket; a turn the client believes to be running is eventually settled.
* **Case targeting**: what a turn writes lands in its own Case; the model sees its own Case's
  conversation; layers and names do not leak between Cases.
* **Case documents**: an update is not lost to a concurrent one; a deleted Case stays deleted;
  storage-only fields survive.
* **File store**: every call is atomic, whatever is cancelled or dies; every call ends.
* **Handles**: a handle the model has seen keeps its meaning in its Case; numbers are unique.
* **Pending replies**: a request ends once, with an answer given to it by its own session, a
  time-out or a cancellation; while it waits it can be answered; a late reply changes nothing.
* **Gates**: what runs is what the user approved; an approval is used for its own turn and question.
* **Dispatch**: a call's result, card and children are its own; a computed layer is not lost.
* **Model loop**: what the client was shown is stored, once, in that order; the guards stop the
  rounds they are about; the turn ends and closes its stream.
* **Plugin link**: frames arrive at most once and in order, or are lost for a known reason; the
  client reconnects.
* **Mesh review**: what is accepted belongs together; a hand edit is not regenerated away.

## 2. Plan

Order: what a user would notice first comes first.

1. **Done, first stage** – `CircuitBreaker` (the smallest shared object), `TurnStreams`,
   `CaseTargeting`, `StoreOps`/`AtomicStore`/`FileStore`, `CaseStore`, `ShortHandles`.
2. **Done, second stage** – the gates (`AskUser`, `PendingReplies`, `ToolGates`), the tool call
   (`Dispatch`), the model loop (`TurnLoop`), the plugin client (`PluginLink`) and the mesh review
   (`MeshGate`); the stop, the deletion and the cooldown window as action properties of the
   first-stage modules.
3. **Done, third stage** – proofs of every safety property that a run checks, for every value of the
   constants: those of `Dispatch`, `TurnLoop`, `PluginLink`, `ShortHandles` and the context property
   of `CaseTargeting` were the last.
4. **Left** – an abstract "one turn at a time" object per stream, implemented by `TurnStreams`
   without overlap; the life cycle of a solver run with cancellation and late results; the sweep of
   old runs against running ones; the bound on the sessions held by the live-turn registry; history
   compaction.

How the modules compose: `FileStore` implements `AtomicStore`, which is why `CaseStore` and
`CaseTargeting` may treat a store call as one step. `PendingReplies` implements `AskUser`, which is
why a card in `ToolGates` and `MeshGate` is one wait that is answered or runs out. A tool call is
one step of `TurnLoop` because `Dispatch` models its inside, and a turn's body is one phase of
`TurnStreams` because `TurnLoop` does.

## 3. The modules

One action is what a handler, a turn or a thread does between two points where another may run (an
await, or a file operation). The actor is the action's first parameter. `PROJECT.json` maps every
definition to its lines. Two components whose proofs share a module have disjoint names, so one of
each pair writes its specification with a prefix (`BreakerInit`, `CaseNext`, `LinkSpec`,
`MeshTypeOK`). Operators named "Mutant of ..." are wrong variants of the definition that follows
them; nothing uses them, and they document which mistake each property would catch.

### CircuitBreaker

`failures` and `cooldown` are the two dictionaries (absent entries are 0 and `NoDeadline`);
`cooldown` holds the time left rather than a point in time, and `Tick` is the clock. `call` is the
tool each turn awaits: the check (`Dispatch`) and the record (`record_failure`, `record_success`, or
no record after a cancellation) are separate steps because the tool is awaited in between. `streak`
is a history variable that counts upstream failures since the last success and saturates at the
threshold. `is_tripped` has a side effect (an elapsed deadline closes the breaker and drops the
counter): `Elapsed`/`FailuresSeen` apply it wherever the code calls `is_tripped`.

### TurnStreams

`inflight` and `live` are the connection's and the session's registry; a done task's entry reads as
absent, as `Task.done()` makes it. A turn's `phase` separates its body (`running`) from the
`finally` of its wrapper (`closing`, or `superseded`/`stopped` after one cancel, `aborted` after a
second), because a second cancel hits the awaits of that `finally`. `sink` is where an emitter's
frames go; rebinding changes it. `unsettled` is the client's view: the turns it still shows as
running. A prompt is two steps, `UserMessage` (up to the pin) and `LaunchTurn` (after the await of
the user row; supersede, rebind, create and register happen without an await). `Close` is the
handler's `finally`.

`Overlap` says whether a socket may connect while the handler of another one still runs. Both
values occur in practice; several properties hold only without it, and section 4 says which.

### CaseTargeting

`active` is the session's pointer; `synced`, `history`, `pin`, `accum` are per connection; `owner`,
`context` and `target` are what a turn or a tool call captured. `stage` is the await the handler is
at: `rebound` (stamp persisted), `read` (sync reads the Case), `mint`, `minted`, `launch` (the user
row is written), `opening` and `created` (a Case command). A turn whose Case may still need a name
is `naming` first: that await comes before the turn takes its connection's history list
(`EnterLoop`), and `opened` (history) records which Cases were opened on the connection during it. A
history is abstracted to the Case whose conversation it is, a layer to the turn that produced it, a
title to the turn whose prompt gave it. `TurnCase` is `_turn_case_id`: the pin, else the pointer.

`Concurrent` allows a prompt while a turn of the same connection runs; `MintFails` and `ReadFails`
let the store refuse a new Case and fail to read one.

### StoreOps, AtomicStore, FileStore

`StoreOps` is what the five operations do to a collection (a map from id to document; a document is
the set of values it carries, so `$set` adds and insert replaces). `AtomicStore` is the promise: a
call is made, takes effect at once on the current store, or is given up. `FileStore` is
`FileMCPClient`: asyncio lock (`TakeLock`), thread, `flock` (`TakeFlock`), read, truncate of `.tmp`,
dump, rename, release – each a step, so that a crash, a cancelled caller or another process can come
between. A cancelled caller releases the asyncio lock at once; its thread, if it has started, goes
on. `Flock` is whether `fcntl` is available; `ReadFaults` whether opening or reading the file may
fail. The refinement mapping: the abstract store is the file; a call is pending until its rename or
its decision not to write.

### CaseStore

One Case document. `GetCase` and `UpsertCase` are the two store calls of a read-modify-write with
another writer's calls in between, for any two operations; `DeleteCase` and `SetCaseLayerHandles`
are single calls on one field. Each call is atomic here because `FileStore` implements
`AtomicStore`. `intended` is a history variable: the summary as it would be had every completed call
changed its own field only. `since` and `overwritten` (history) record, per writer, the fields that
others updated after its read and, per document, the fields a write has put back to such an older
value; a later write that states the field anew settles it again.

### AskUser, PendingReplies

`AskUser` is the promise: a question is put once, the user may say things to it, and it ends with
one of them, a time-out, a cancellation or a refusal. `PendingReplies` is the mechanism: `entry` is
a registry, `stage` where a request's coroutine is, `got` what its future holds, `replies` the wire.
`Stop` and `Expire` only arm a cancellation or a timer; `Resume` is the coroutine running again with
its `finally`, and `Ending` says what it then sees: if a reply and the time limit meet before it
runs, the outcome is either, because it differs between Python versions. A layer request is checked
by a worker thread (`CheckLayer`) and registered later by the loop (`Register`), under the cache key
of its row, which other requests share; all others have an id of their own (`Fresh`).

### ToolGates

The gates of `_invoke_tool_via_emitter` in their order. A call's arguments are an area and a
resolution rung, or a code and whether it claims to be confirmed; `over` is an estimate over the
hard cap. `normalize_args` runs after the code gate (`ToTool`) and turns names the tool does not
declare into declared ones: `alias` and `claimed` are a code and a confirmation under such names,
and which of two values wins depends on the order of the arguments, so either may (`NormalArgs`,
`NormalFlags`). `memory` is `gate_decisions_this_turn`: per area whether an approval is known and
the delta it made. A chat turn empties it (`StartTurn`), a `!run` turn does not (`StartManual`).
`granted` and `approved` (history) are what the user approved in the call and in the turn, `crowded`
(history) the turns that shared the connection. The model proposes anything, and a client may answer
a card with any decision, offered or not. Rungs are in tenths of a metre, so that the truncation of
a pinned one to whole metres (`Whole`) shows.

### Dispatch

A tool call between its awaits. `steps` is the open pipeline of the connection's emitter, which a
second call drops when it opens its own; `parent`, `last`, `kids`, `layers` are the emitter's
fields; `prev` the parent a call restores. What a body did (`body`) is one of: a layer, a value, a
returned failure or cancellation, an error, a decline. `shown` (history) is the live card's end,
`cards` what the Case replays. `Unwind` is the `finally` blocks up to the close of the pipeline;
`PersistCard` and the layer write come after it, the second shielded from cancellation:
`PersistLayers` takes whatever the emitter's `layers` are at that moment, `MergeLayers` writes them
to the Case the call captured, or fails and is logged. A Case that is opened meanwhile is read
(`ReadCase`) and its layers replace the emitter's (`OpenCase`; `FlushLayers` for a new Case); `lost`
(history) are the calls whose layer was replaced before they took it, or whose write was refused.
The calls of one Case take turns, so a merge is one step; this takes the last write of a superseded
turn to be over before its successor, which first hears from the model, calls a tool. Two merges at
once are in `CaseStore`.

### TurnLoop

One turn from its launch to its turn-complete: `NextRound` and its guards, `Say` (a chunk is sent)
and `Buffer` (the send has returned and the text goes to the buffers; `sent` is the chunk in
between), `Answer` (a round without calls: end, retry or nudge, or a caveat that is sent like a
chunk), `CallTools` (segment and row first, then the calls), `EndCall`, `EndRound` (watchdog and
idle count), `AfterLoop`, `StreamFails` with the three kinds of failure, and the wrapper
(`WrapTurn`, `CloseTurn`, `Complete`). `shown` and `rows` (history) are the conversation as the
client saw it and as the Case keeps it; a piece of text is a number, and the cards of calls that
follow each other are one item. `Cancel` may come at each await, also in the wrapper; `Neighbour` is
what other turns of the connection do to the three shared fields.

### PluginLink

The worker thread (`Dial`, `Handshake`, `Swap`, `FlushOne`, `Flushed`, `Bind`, `Lost`) and the
user-interface thread (`Submit`, `TakeSocket`, `Write`, `WriteFails`, `Enqueue`), each step what is
done under one lock or between two reads of the unlocked fields `connected` and `ws`. A socket that
died stays writable until its owner notices: a frame written to it goes nowhere (`gone`). A write
may also fail on a live socket, whose time limit the worker's `recv` has set; the model leaves the
stream intact then, and does not follow a frame that was cut in the middle. A frame that reaches a
new socket ahead of the token makes the server refuse the connection (`WriteTooEarly`), which ends
the worker. `Bind` creates or selects the startup Case; its select is not one of the numbered
frames, which are those the user interface submits, in that order.

### MeshGate

A mesh is named by the recipe it was built from, or `Hand`. `Threads` are one per session (its gate)
and the threads of `mesh_op`; a build reads the recipe (`Ensure`), and stores its mesh later
(`Built`), and the display file later still (`Displayed`), so that two threads on a session
interleave; `raced` (history) records that they did. `Adopt` asks for the mesh it is to replace,
which may have to be built first, and `Replaced` puts the hand-edited one in its place or refuses
it. `art` is what `accept` freezes, `replays` what its journal gives.

### ShortHandles

`number`, `seq`, `dirty` are the session's registry; `layers` and `saved` what the Case document
holds; `shown` (history) the handles a Case's conversation contains, `lost` (history) the Cases
whose map could not be saved or read at some time. Opening a Case is two steps (read the layers,
then read the map and replace the registry); a tool call is observe, merge layers, register and
export, save, show. `MintAll` numbers the uris of a result or of a Case in order, as the walk of the
registry does; it is a recursive function rather than an operator, so that it can be proved about.
`Restart` loses everything but the store.

## 4. The runs

One passing run per component, exhaustive at its bounds.

| Run | Bounds | What it shows |
|---|---|---|
| `breaker` | 2 turns, 2 tools, threshold 3, cooldown 2 ticks | only an upstream streak trips; the window only runs down; a tripped tool reopens (liveness) |
| `streams` | 3 sockets in a row, a Case and the root, 2 turns | one running turn per stream; frames reach the open socket; a stop reaches the visible turn; an ended turn the client shows as running is settled (liveness) |
| `targeting` | 1 connection, 2 Cases, 2 turns one after the other, refused and failed store calls | rows stay in their Case; the context is the turn's own, or one opened while it was naming |
| `filestore` | 3 callers in 2 processes, 1 document | the file store implements the atomic store; every call ends (liveness) |
| `casestore` | 2 writers, all operations, 2 layers, a title and an extent besides none | updates land and stay in every field no stale write put back; only a write that read the Case before its deletion undoes it |
| `handles` | 2 Cases, 2 layers, 1 artifact, cap 2, restarts, failing saves and reads | types; shown handles resolve to the same layer; numbers are distinct |
| `replies` | 2 requests that share a key, in 2 sessions, and one draw surface; a valid and an invalid answer | a waiting request stays answerable; a future is set once; refinement of `AskUser`, its ending included |
| `gates` | 2 turns, chat or `!run`, 2 calls each, 2 areas, a code and a blank one, 3 rungs of which one is not whole | code under declared names runs as approved; a skipped card follows an approval; nothing is asked twice |
| `dispatch` | 3 calls, two of one Case with the same tool, every kind of result but a plain value, a substep, 1 Case opened (`MaxOpens`) | types; a lone call's result, card and children are its own; an added layer is saved unless it was replaced or refused; no call gets stuck (deadlock) |
| `loop` | 3 steps, 2 pieces of text, rounds of one and two calls, 1 step of a neighbour; watchdog, retries and wrap-up at 2 | types; text is stored but for an interrupted chunk; rows replay the turn; the stream is closed; zooms and notes land on the turn; the guards are exact; the turn ends (liveness) |
| `link` | 5 frames, queue of 2, 3 faults | types; frames are not forgotten; read once and in order; the worker reconnects (liveness) |
| `mesh` | 2 sessions, one reviewed, 1 editor, 2 operations, 3 rounds | what is accepted belongs together; a hand edit stays; a review ends (liveness) |

The type invariants of the other eight modules, and further invariants of theirs
(`CounterMatchesDeadline`, `RunningTurnRegistered`, `SlotsHoldOwnLiveTurns`,
`PromptsCancelOwnStreamOnly`, `StorageFieldsSurvive`, `OnlyOwnerAnswers`, `NoEntryOutlivesWait`),
are not in the configurations because they are proved for all constants (section 6). So are all
safety properties that the runs check: the runs show that the instances are not empty of the cases
they are about, the theorems remove the bounds, and only liveness rests on the bounds alone.

### Hypotheses that matter

Several properties hold under a switch or for a named part of the behaviours, and TLC refutes them
within seconds when the switch or the bound is changed in the `.cfg`, or the restriction is dropped
from the property. These are limits of the code, not of the model:

| Property | holds for | refuted with | what happens |
|---|---|---|---|
| `OneRunningTurnPerStream` | `Overlap = FALSE` | two sockets open at once, 3 turns | the handler finds its own older entry and leaves the sibling's newer turn running (`loop.py:190`) |
| `FramesReachOpenSocket` | `Overlap = FALSE` | two sockets open at once | the socket that resumed last takes the frames from its sibling, and a resume may hand on the sink of an emitter that was itself rebound to a socket closed since (`live_turn.py:89`) |
| `NoStrayRows` | `Concurrent = FALSE`, one connection | a prompt during a turn | the second prompt moves the connection's pin, and the first turn's later rows go to the second's Case (`persist.py:144`) |
| `TurnContextIsItsCase` | one connection | two connections | the pointer moves during the read of the sync (`engine.py:384`) |
| `AtomicSpec` | `Flock`, no `ReadFaults` | `Flock = FALSE`; `ReadFaults = TRUE` | a cancelled caller frees the asyncio lock under its running thread (`store/cases.py:769`); a read error is taken for an empty store (`:669`) |
| `ShownHandlesResolve` | `Overlap = FALSE` | another Case opened during a turn | the turn shows and saves numbers of the wrong registry (`emitter.py:580`) |
| `WaitIsReachable`, `AsksTheUser` | requests with an id of their own (`Fresh`) | layer requests for one row | two requests share a key; the first to end pops the entry of the other (`qgis_provider.py:114`) |
| `ReplaysOwnApproval`, `AskedOncePerTurn` | turns alone on the connection (`crowded`); the turn's own approval: chat turns | two turns at once; a `!run` turn | the second turn resets the memory of the first (`stream.py:105`); a `!run` turn resets nothing (`handlers.py:94`) |
| `CodeRunsAsApproved` | calls with declared argument names (`PlainlyNamed`) | a name that is normalised | the argument is renamed into place after the gate has stripped and shown the others (`emitter.py:345`) |
| `OutcomeIsTheBodys`, `CardHasItsChildren` | calls alone on the connection | two calls at once | the second drops the first's steps, and the marks that follow raise (`pipeline_emitter.py:574`) |
| `AcceptedIsSound`, `HandEditStays` | sessions no two threads met on (`raced`) | `mesh_op` during a build | the older build lands last (`session.py:81`) |
| `MarksOnItsTurn` | no neighbour on the shared fields (`others`) | a concurrent turn | it consumes or resets the note and the zooms (`stream.py:1312`) |

Some properties name an exception instead, which the code does reach: a success of an overlapping
call ends a cooldown early (`WindowOnlyCountsDown`), a turn cancelled twice ends without its
turn-complete (`Die`; `EndedTurnSettles` is about the others), a turn for which no Case could be
created writes where the pointer is (`NoStrayRows` is about the others), a deleted Case's
conversation is carried into the next auto-created one (`TurnContextIsItsCase`), a Case whose handle
map could not be read or saved loses the guarantee (`ShownHandlesResolve`), a socket that runs a
turn of another Case stops that one (`StopReachesVisibleTurn`), a write that read the Case before
its deletion undoes it (`DeletionIsFinal`), a write puts back a field that another one updated after
its read (`UpdatesLand`), a Case opened while a turn names its own changes the turn's conversation
(`TurnContextIsItsCase`), a cancellation during the card's own write, a Case opened before the call
takes its layer and a refused write lose the layer (`AddedLayerIsSaved`), three kinds of result
replay otherwise than they were shown (`OutcomeIsTheBodys`), and text whose row could not be
written, and the one chunk whose send a stop interrupts, are lost (`NothingSaidIsLost`). A property
does not catch what it exempts: the hazards of `PROJECT.json` say for each such case that it is
reached and not excluded.

### Why the bounds are enough

* *Breaker*: the threshold is the code's. Two tools show independence; two turns are enough for a
  call of one to overlap the trip of the other, and a third adds no new kind of late record. The
  cooldown only needs to be longer than one tick to tell "restarted" from "running".
* *Streams*: three sockets give a detached turn, a rebound one and a second rebind; two turns give
  a turn and its superseder, or two turns of different streams. Turns are not reused, so their
  number bounds the depth; the theorems of section 6 remove this bound for every safety property of
  the run.
* *Targeting*: two Cases suffice to confuse one with another, and either may exist at the start or
  be minted or created later. Two turns give a predecessor whose leftovers could be picked up.
* *File store*: two callers in one process meet on the asyncio lock, two processes on the flock.
  One document suffices for refinement (a second one only matters when a write loses another
  document, as with `ReadFaults`); the theorem covers any number.
* *Case store*: two writers give every pair of operations in every order, with a delete or a handle
  save between their calls; a third could only repeat what the second did. One title and one extent
  differ from the untitled Case and from none, and two layers tell a merged set from its parts. The
  theorems cover any number of writers and values.
* *Handles*: a cap of 2 with three uris makes the cap bite; two layers suffice to swap numbers, two
  Cases to mix registries. The theorems cover any cap, uris and Cases.
* *Replies*: two requests under one key and one under its own give a wrong owner, a successor and a
  bystander; one valid and one invalid answer tell a refusal from a resolution. The theorems cover
  any number.
* *Gates*: two calls in a turn give a call and its retry, a second turn a predecessor or a
  neighbour; two areas and three rungs tell the approved one from another, and the rung that is not
  whole makes the truncation of a pinned one show. The theorems cover any number.
* *Dispatch*: two calls of one Case run in sequence (leftovers of the same tool) and a third
  overlaps either. One substep is enough to be present, missing or another's. One opened Case
  replaces the layers at every point of every call, and may be read before a merge and take their
  place after it. The theorems cover any number.
* *Loop*: three steps with all thresholds at 2 let every guard trip first, and the cap after none
  did; two pieces of text give a persisted segment and an open one, or two in a round; a round of
  two calls gives a failure after a success. The theorems cover any rounds and thresholds; the one
  thing assumed of rounds is that none is empty, as in the code (a round without calls is an
  answer).
* *Link*: five frames and a queue of two make the bound bite during a batch; three faults cut a
  flush, its repetition and the handshake. The theorems cover any number and any queue.
* *Mesh*: two operations in two orders, a resize or hand edit between, and three rounds, so that the
  last round differs from the first and the middle one; a second session meets the global.

### Symmetry, deadlock

Sockets, Cases, layers and turns are interchangeable in `TurnStreams`, `CaseTargeting` and
`ShortHandles`, writers and layers in `CaseStore`, turns and areas in `ToolGates`; their `MC`
modules define the symmetry, which is used in runs without liveness properties only (in
`ShortHandles` a set is only turned into a sequence when it has at most one element, so no choice
breaks the symmetry). `CHECK_DEADLOCK FALSE` is set for `TurnStreams` and `CaseTargeting`, because
their sockets and turns are finite in number and a behaviour ends when they are used up, and for
`TurnLoop`, whose turn is over. The breaker, the stores and the handles never stop, a user may
answer a card again at any time, and the gates, calls, link and reviews stutter only once every
actor has finished. These are checked for deadlock.

## 5. Fairness

* `CircuitBreaker`: weak fairness of `Tick`; the monotonic clock advances. Nothing is assumed of
  callers.
* `TurnStreams`: a prompt in preparation is dispatched (the await is a store write that returns or
  raises); every turn ends – the model loop has a wall clock, a gate wait is bounded by 24 hours
  (`inputs/gate/confirm.py:59-70`), and cancelled tasks unwind; an open connection repeats its
  keepalive session-resume (the client does, for as long as the socket is open). Connecting,
  prompting, stopping and closing are not fair: the user may do none of them.
* `FileStore`: strong fairness of the next step of each caller or its thread, since asyncio's lock
  is a FIFO queue and blocked `flock` callers wait in the kernel's queue. Calls, cancellations and
  crashes are not fair.
* `PendingReplies`: a card is sent (the send returns or raises), a coroutine whose future or timer
  is ready runs, and every wait has a time limit (`pending.py:68`). Users and stops are not fair.
* `TurnLoop`: weak fairness of the turn's next step: a stream ends or raises (the adapters have
  time-outs), a call ends, a row is written or fails. The model may answer anything at each round.
* `PluginLink`: both threads run and the server reads; faults are finite in number (`Faults`), and
  after the last one a dial succeeds. Nothing is assumed of the user.
* `MeshGate`: threads run, a mesher returns or raises, and the time limit of a card runs out. Edits
  are not fair and may go on for ever.

## 6. The proofs

TLAPS checks every theorem for all values of the constants that satisfy the named `ASSUME`s
(distinctness of the null values, positive threshold and cooldown, Boolean switches). Where a
theorem needs a switch or one connection, it says so as a hypothesis, and the table of section 4
says what happens without it. A proof module holds the components that meet in it.

**ToolCallProofs**, the breaker – `BreakerInv`: types, `CounterMatchesDeadline`, and "no counter
exceeds its upstream streak". The last part is what makes `TripNeedsUpstreamStreak` inductive: at
the trip the counter is at the threshold and the streak cannot be below it. Proved: `BreakerTypes`,
`CountersAndDeadlinesAgree`, `OnlyUpstreamStreaksTrip` and the action property `WindowsCountDown`,
for any tools, turns, threshold, cooldown.

**ToolCallProofs**, the call – `Together`: two calls that are in progress at once are both in
`crowded`. For the others, `Lone` says at each phase what the emitter holds for the call: its step
is open, the parent is its own or the one it restores, the children of the last step are its own
once it has settled, whatever an earlier call of the same tool left there. `OutcomeOf` is the
property with what it needs between the settling and the card. They yield `OutcomesAreTheBodys` and
`CardsHaveTheirChildren`. `LayersKept` says where an added layer is at each stage of its call: among
the emitter's until the call takes them, then in what it merges, at last in its own Case – or in
`lost`. It holds for all calls, crowded or not, and for any number of opened Cases, and yields
`LayersAreSaved`. What makes it inductive is that a replacement records exactly the waiting calls it
takes a layer from.

**ConnectionProofs**, the server's end – two layers. `GInv` (any overlap): types, both registries
hold unfinished turns of their own stream, a stop waits only for an unfinished turn. It yields
`TypeCorrect`, `SlotsAreSound` and the action property `PromptsAreStreamScoped`: the turn a prompt
supersedes is found in one of the two registries under the prompt's stream, hence belongs to it.
`SInv` (`Overlap = FALSE`): at most one socket is open, a connection that is not open has no
entries, an entry of a connection is also the session's, a running turn is registered, the open
socket's emitter sends on its own socket, and frames of live turns go to the resumed socket. "An
entry is also the session's" is the strengthening that matters: without it a prompt could supersede
its own older entry and miss the registered turn, which is exactly what happens with overlap. It
yields `RunningTurnIsFound`, `SupersedeIsComplete`, `FramesAreDelivered`, and the action property
`StopsReachTheVisibleTurn`: the visible running turn is the registered one, so the handler finds it.

**ConnectionProofs**, the plugin's end – `LinkInv`: types, and at most one connection is alive, the
one the worker has. `FramesAreAccountedFor` needs no more: each step moves a frame from one place to
another. `FramesReadOnceInOrder` rests on `FifoInv`: what the server has read, what is on the live
connection, the rest of the batch and the queue form one `Line`, in which no frame occurs twice and
of two that were buffered the older comes first. A frame written directly takes its place on the
wire without having been buffered, so it is ordered against nothing; one that could not be written
goes to the end of the queue, behind everything submitted before it. The lemmas say what the
operations on sequences (`Append`, `Tail`, `\o`, dropping the head) do to a line.

**CaseTargetingProofs** – `GInv` (any connections, concurrency and failures): types, every pointer,
pin, captured Case and target is in the store, a turn in a call has a connection. `RInv` (one
connection, one turn at a time – `OneConnOneTurn` – whatever the store refuses or fails to read): no
prompt is prepared while a turn lives, the pointer does not move between a prompt's pin and its
launch, the pin equals the Case of the live turn until it ends, and a tool call's target is its
turn's Case. It yields `RowsStayInTheirCase`. `HInv` adds what the connection's history is at each
stage of a prompt or Case command (`HistoryFollows`: while a Case is read the marker is at the
pointer and the history is empty; otherwise it is that of the pointer, of a deleted Case, or empty
after a failed read), and `NamingFollows`: while a turn names its Case, the list it is about to take
is that of its own Case, of a deleted one, or of one in `opened`, and a Case that is being opened is
in `opened` already, because its history arrives later. With `RInv`, by which the pointer stays put
until the launch, it yields `ContextIsTheTurnsCase`. The hypothesis is needed (section 4).

**StoreProofs**, the file store – `IInv`: types, the file is a whole store (never torn), a thread is
past its flock exactly when it holds it, the snapshot of such a thread is still the file's content,
and a dumped `.tmp` is the operation applied to the file. With `Flock` and without `ReadFaults` it
is inductive through cancellations and crashes, and the step simulation maps rename and skip to
`Commit`, a failed dump, a cancelled or crashed call to `Abort`, everything else to a stutter:
`FileStoreIsAtomic` is `Spec => AtomicSpec` for any callers, processes and documents. The asyncio
lock appears nowhere in the invariant: atomicity rests on the flock alone, which is why a cancelled
caller is harmless with it and not without it.

**StoreProofs**, the Cases – `CaseInv`: types, the history exists exactly when the document does,
`StorageFieldsSurvive`. `LInv` adds `UpdatesLand` and `ReadsAreFresh`: what a writer read agrees
with what is stored in every field but those that others have updated since (`since`) and those that
are overwritten already. So its write disturbs no other field, and restores its own unless it adds
to what it read. All of it is for any number of concurrent writers, and yields
`OnlyOvertakenUpdatesAreLost`. `LateWritesReviveNothing` needs types only, for any number of
writers.

**ShortHandlesProofs** – `HandlesInv` (any overlap and failures): types and, for the registry, each
saved map and each map about to be saved, that its numbers are 1 to n and each is given once
(`Numbers`). "1 to n" is stronger than distinctness and needed for it: the counter resumes from the
maximum of an imported map, and the cap is a bound on the number of entries. It yields `TypeCorrect`
and `NumbersAreDistinct`. `LoneInv` (`Overlap = FALSE`): the registry of the open Case is what
reopening the Case would make of its record (`Reopened`), but for the layer of a call that is not
merged yet and the map that is not saved yet, and reopening would resolve every handle its
conversation shows. Its cases are the windows of a call: a layer observed in the registry and merged
into the Case later gets the same number when the Case is reopened, because it is the last of the
layers and the saved map is taken first. It yields `HandlesKeepTheirMeaning`. Both rest on what
`MintAll` computes for every sequence of uris: old numbers stay, every uri gets one unless the cap
is reached, and appending a uri mints one more. The library's induction rules cannot be instantiated
here; the lemma `Induction` derives the one used from the well-foundedness of `<` on `Nat`.

**PendingRepliesProofs** – `Inv`: types, `OnlyOwnerAnswers`, `NoEntryOutlivesWait`,
`WaitIsReachable`, and two facts about provenance: a reply on the wire to a request's own key was
said by its user to its card (`RepliesGenuine`), and so was what a future holds (`FuturesGenuine`).
The last two are what the refinement needs: `AsksSafely` maps `Answer` to the user's words, `Resume`
to the ending, everything else to a stutter. Proved besides: the five properties, for any requests,
keys, sessions and answers.

**TurnLoopProofs** – one invariant per property, each on top of the types, for any rounds,
thresholds, texts, failures, cancellations and steps of a neighbour. `SaidInv`: text that was shown
is in a row, lost to a failed write, being sent, or in the segment buffer while a write of it is
still to come; a chunk stays `sent` only in a turn that was stopped; it needs that the wrapper's
list holds the open segment, and that a turn that has registered its lists writes no other turn's
narration. `BubbleInv`: a bubble that was opened is open or was closed, and every way out of the
loop passes a close. `OrderInv`: at each stage the conversation shown is the rows followed by what
the stage has yet to write and the chunk that is being sent, which is the whole argument for
`ReplayKeepsTheOrder`. `MarksInv`: where the note and the zooms are between the moment they are made
and the row they land on. `LogInv`: the counters of the watchdog count the rounds at the end of the
log, and the round before those does not belong to them (`RepeatsInv`, `IdleInv`); the second half
is what makes `WatchdogIsExact` an equivalence, as a guard that counts too few rounds would satisfy
the first.

**GateProofs**, the gates – `Inv`: types; per turn what each stage knows of its arguments (`GateOf`:
past the code gate a plainly named code is granted or blank); that what is remembered, and each card
that was skipped, goes back to an approval of some turn (`Approved`, `SkipOf`); and for a turn alone
on its connection, that the memory is its own (`MemoryOf`: an area is known when the turn has
approved it, in a chat turn only then, and a delta is the approved rung). `AloneInv`, that a turn
not in `crowded` has no neighbour, is what keeps another turn's reset out of the last part.

**GateProofs**, the mesh review – `MeshInv`: types; `JobsFit`, the thread of a review works on its
own mesh; and per session no two threads met on (`Fits`): at most one thread works on it, a mesh is
`None`, `Hand` with the note set, or what the recipe builds, a build in progress holds the mesh of
the current recipe, the display file is the mesh's, and the journal is the recipe's unless a hand
edit was adopted. It yields `AcceptedMeshesAreSound` and `HandEditsStay`.

### Only model-checked

Liveness: `TrippedToolReopens`, `EndedTurnSettles`, `CallsEnd`, `Reconnects`, `ReviewsEnd`,
`TurnEnds` and the fairness part of `AsksTheUser`. The prover does not reason about fairness and
`ENABLED`, so these hold at the bounds of section 4. The absence of deadlock is checked there too.

## 7. Disagreements met while modelling

What the code does where a sentence of the repository says otherwise. Each is reached by the model
(the exceptions and switches of section 4 are where the properties leave it out).

* A stop: "Target the VISIBLE stream's turn" (`loop.py:277`); a socket that runs a turn elsewhere
  stops that one before it asks for the visible Case's detached turn (`:284`).
* "Re-emit turn-complete ONLY on the genuine fresh-socket resume, never on a keepalive ping"
  (`auth.py:143`); the flag is set by the first resume that rebinds nothing, which may be a
  keepalive while a new turn runs (`:134`).
* "KNOWN LIMIT (display only)" and "the persisted replay is correct" for concurrent turns
  (`state.py:57-61`); rows resolve the connection's pin when written and land in the other Case
  (`persist.py:144`), and a tool call whose steps the other turn dropped loses its result to the
  error its marks raise (`pipeline_emitter.py:574`).
* "must not re-aim them at the newly visible Case (verified contamination)" (`emitter.py:306-309`);
  the target is captured but the accumulator is not, and a select replaces its content (`:563`).
* "a whole-store write can never be computed from a snapshot another writer has already superseded"
  (`store/cases.py:651-653`); a read error is answered with an empty store (`:669`), and the next
  write drops every other document. This one is a bug rather than a matter of wording.
* "an archived or deleted Case is skipped rather than resurrected" (`case_state.py:316-317`); the
  status is never looked at, and a delete between the read and the write of a merge is undone
  (`:327`).
* "A success cannot arrive while the breaker is open" (`circuit_breaker.py:173`); one of an
  overlapping call can.
* A result returned as failed or cancelled ends the live card so, and the persisted one as complete;
  a decline raised in the body ends the live card cancelled and the persisted one failed
  (`emitter.py:513-522`).
* "Pre-serialized frames buffered while disconnected, flushed FIFO after resume"
  (`trid3nt_client.py:1298`); a frame buffered because a late failure on the previous socket cleared
  the flag (`:1719`) stays queued until the next reconnection.
* "the user MUST approve the exact code first. A model-supplied confirmed/code_exec_id is STRIPPED
  before gating" (`emitter.py:328-329`); `normalize_args` runs after that gate (`:345`), and an
  argument it renames into place was neither stripped nor shown on the card.
* "Per-TURN memory of gate decisions" (`state.py:134`); only a chat turn empties it
  (`stream.py:105`). A `!run` turn goes through the same gate (`handlers.py:94`) with what the turn
  before it left.
* Arguments revised on the payload card replace the estimated ones and are not estimated again, also
  when they are the same (`confirm.py:442-444`). A rung raised to the finest allowed one is then
  truncated to whole metres, and may be finer than allowed (`fetch_resolution.py:257`).
* "Captured as LOCALS before any await" (`stream.py:101`); the auto-naming at `:86` is awaited
  before, and a Case selected during it gives the turn its conversation.
* "a caller holding a partial view must never clobber summaries it never saw"
  (`store/cases.py:145`); of two that read the Case before either wrote, the second drops the
  first's layers, and any whole-summary upsert does.
* A layer that a call added is persisted with the emitter's layers when the call ends; a Case opened
  in between has replaced them (`pipeline_emitter.py:492`), and the layer is in no Case.
* An approval is remembered as what it changed (`confirm.py:269`): if the call already asked for the
  approved rung nothing is remembered but the area, and a retry at a finer rung runs without a card.
* "a crash leaves the un-finalized tail for the wrapper" (`stream.py:380-381`); a stop during the
  send of a chunk (`:374`) leaves a text the client has in no buffer and no row.
* "a finalized segment is never persisted twice" (`persist.py:33-36`); a cancellation during the
  segment's write leaves its buffer, which the wrapper writes again. A turn cancelled before it
  registers its lists stores the narration of the turn before (`stream.py:1306`). The abort note
  "lands on exactly one row" (`stream.py:1310`), or on none when a segment was persisted and none is
  open. A failure with a bubble open stores its card before the tail. Rounds without calls never
  reach the watchdog, whose comment says that they reset the streak (`runaway_guard.py:54`). A turn
  cancelled again in its wrapper ends without turn-complete (`loop.py:305`).
* An operation refused after a hand edit stays in the recipe (`session.py:97`), and a journal with
  an adopt event refuses to replay even after a reset (`:324`).

## 8. Not modelled, and why

The modules translate about 5,800 of some 114,000 lines of implementation (about 5%), in 33 files:
the concurrent core of the server and the plugin's connection. Nothing here speaks for the rest. Of
the 23 components 2 are modelled in full, 11 in part and 10 not at all.

* **Numerical and geospatial content** (`workflows/`, most of `tools/`, the meshers, rasters,
  styling: the larger part of the repository's lines): sequential construction of real-valued data,
  no protocol; out of reach of TLC.
* **Solver dispatch and workers**: the life cycle of a run is the next candidate.
* **Fetchers, cache, router, object store**: external I/O; the fallback logic and the sweep of old
  runs are later candidates. The one request a fetcher makes to the session is in `PendingReplies`.
* **Tool search, argument normalisation, adapters**: pure text and wire-format translation; of the
  normalisation, what it does to an approval is in `ToolGates`.
* **Plugin user interface**: Qt widgets; its network client is `PluginLink`.
* **Handshake, credentials, settings, contracts**: lookups and data classes. A connected socket in
  `TurnStreams` has passed the handshake.
* **Inside the modelled components**: the bound on the number of sessions held, the heartbeat,
  message contents, the accumulator of layer ids, fuzzy matching, announcements and the limit of 64
  items per walked result of the uri registry; tool retrieval, the ask mode, compaction and usage in
  the loop; progress, charts and durable solve cards of the emitter; the push of secrets after a
  flush; the estimators behind a gate's card; the key under which an accepted mesh is kept. Each is
  named in its component's note or hazard.
