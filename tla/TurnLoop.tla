------------------------------ MODULE TurnLoop ------------------------------
(***************************************************************************)
(* One turn of the model loop (server/turn/stream.py): rounds of streamed  *)
(* text and tool calls, the guards that end them, the narration segments   *)
(* that are persisted as they close, the ways a model stream fails, and    *)
(* the wrapper that persists what is left when the turn ends or is         *)
(* cancelled.                                                              *)
(*                                                                         *)
(* Three fields the turn uses belong to the connection: the abort note,    *)
(* the zoom-to commands and the narration of the last turn.  The other     *)
(* turns of the connection appear as the steps they take on these fields.  *)
(* What happens inside a tool call is the subject of Dispatch, and which   *)
(* Case a row goes to that of CaseTargeting; the turn has a Case.          *)
(***************************************************************************)
EXTENDS Naturals, Sequences, SequencesExt

CONSTANTS
    Rounds,      \* what a round may call: sequences of tools
    Geo,         \* geocode_location
    Composers,   \* the tools whose artifact is the answer (_is_terminal_composer)
    StepCap,     \* MAX_TURN_STEPS
    RepeatN,     \* LOOP_REPEAT_N
    RetryCap,    \* _EMPTY_COMPLETION_RETRY_CAP
    WrapUp,      \* _POST_DELIVERABLE_WRAPUP_ROUNDS
    MaxText,     \* pieces of text the model streams in the turn
    MaxOthers,   \* steps of other turns on the shared fields
    Local,       \* is the provider the local one (openai)?
    NoSig        \* no signature recorded

ASSUME LoopAssumption ==
    /\ \A r \in Rounds : r \in Seq(Range(r)) /\ r # << >>
    /\ {StepCap, RepeatN, RetryCap, WrapUp, MaxText, MaxOthers} \subseteq Nat
    /\ StepCap > 0 /\ RepeatN > 1 /\ WrapUp > 0
    /\ NoSig \notin Rounds /\ Local \in BOOLEAN

Failures == {"context", "upstream", "other"}
Reasons == Failures \cup {"none", "answer", "cap", "clock", "loop", "crisp", "dropped", "stopped"}

\* Pieces of the conversation, as the client sees them and as the Case keeps them.
Text(n) == <<"text", n>>
Card == <<"card", 0>>          \* the cards of tool calls that follow each other
Outage == <<"outage", 0>>      \* the sentence on an unavailable provider
Failed == <<"failed", 0>>      \* an error, and the card it leaves
Foreign == <<"foreign", 0>>    \* narration of another turn
Texts == {Text(n) : n \in 1..MaxText}
Items == Texts \cup {Card, Outage, Failed, Foreign}

\* Whose abort note, or whose narration: this turn's, another's or nobody's.
Whose == {"nobody", "own", "other"}

VARIABLES
    pc,          \* where the turn is
    reason,      \* why it left the loop
    guard,       \* the counters of the loop
    round,       \* the round in progress
    bubble,      \* current_message_id is set: a bubble is open
    segment,     \* _segment_buf: the text of the open bubble
    segments,    \* has a segment been persisted?
    marked,      \* has a row with the zoom-to commands been persisted?
    completed,   \* has the prompt been added to the history?
    pending,     \* rows to write, in order
    note,        \* current_turn_context_abort_note of the connection: whose it is
    zooms,       \* current_turn_map_commands of the connection: whose they are
    latest,      \* current_turn_narration of the connection: whose it is
    shown,       \* history: what the client was sent
    sent,        \* the chunk whose send has not returned: shown, and in no buffer yet
    rows,        \* history: what the Case keeps
    lost,        \* history: texts whose write failed
    kept,        \* history: what the rows carry besides text
    closed,      \* history: was the client sent a closing chunk?
    opened,      \* history: has a bubble been opened?
    begun,       \* history: did the turn register its lists?
    zoomed,      \* history: did the turn record a zoom-to?
    cut,         \* history: did a write fail, or was it interrupted?
    others,      \* history: steps other turns took on the shared fields
    log          \* history: the last rounds with calls

shared == <<note, zooms, latest>>
told == <<shown, sent, closed, opened>>
stored == <<pending, rows, lost, kept, segments, marked>>
ghosts == <<begun, zoomed, cut, others, log>>
vars == <<pc, reason, guard, round, bubble, segment, completed, shared, told, stored, ghosts>>

Rows == [items : Seq(Items), zooms : SUBSET {"own", "other"}, note : Whose]
NoRound == [sig |-> NoSig, left |-> << >>, text |-> FALSE, made |-> FALSE, bad |-> FALSE, good |-> FALSE]

\* Where a cancellation ends the body of the turn, and where it ends the wrapper.
Body == {"starting", "top", "stream", "sending", "flush", "calling", "finishing", "naming", "failing"}
Wrapper == {"closing", "completing"}

TypeOK ==
    /\ pc \in Body \cup Wrapper \cup {"off", "leaving", "wrap", "done", "killed"}
    /\ reason \in Reasons
    /\ guard \in [steps : 0..StepCap, retries : 0..RetryCap, nudged : BOOLEAN,
                  tools : SUBSET UNION {Range(r) : r \in Rounds},
                  last : Rounds \cup {NoSig}, repeats : 0..RepeatN,
                  delivered : BOOLEAN, idle : 0..WrapUp]
    /\ round.sig \in Rounds \cup {NoSig} /\ {round.text, round.made, round.bad, round.good} \subseteq BOOLEAN
    /\ \A i \in 1..Len(round.left) : round.left[i] \in Range(round.sig)
    /\ {bubble, segments, marked, completed, closed, opened, begun, zoomed, cut} \subseteq BOOLEAN
    /\ others \in 0..MaxOthers
    /\ Range(segment) \cup Range(sent) \subseteq Texts /\ Len(sent) <= 1 /\ lost \subseteq Texts
    /\ \A i \in 1..Len(pending) : pending[i].note \in Whose /\ Range(pending[i].items) \subseteq Items
    /\ note \in Whose /\ latest \in Whose /\ zooms \subseteq {"own", "other"}
    /\ Range(shown) \cup Range(rows) \subseteq Items
    /\ kept.note \in Whose /\ kept.zooms \subseteq {"own", "other"}

Init ==
    /\ pc = "off" /\ reason = "none" /\ round = NoRound
    /\ guard = [steps |-> 0, retries |-> 0, nudged |-> FALSE, tools |-> {}, last |-> NoSig,
                repeats |-> 0, delivered |-> FALSE, idle |-> 0]
    /\ bubble = FALSE /\ segment = << >> /\ segments = FALSE /\ marked = FALSE
    /\ completed = FALSE /\ pending = << >>
    /\ note = "nobody" /\ zooms = {} /\ latest \in {"nobody", "other"}
    /\ shown = << >> /\ sent = << >> /\ rows = << >> /\ lost = {} /\ kept = [zooms |-> {}, note |-> "nobody"]
    /\ closed = FALSE /\ opened = FALSE /\ begun = FALSE /\ zoomed = FALSE
    /\ cut = FALSE /\ others = 0 /\ log = << >>
-----------------------------------------------------------------------------
\* A row without the zoom-to commands (layer_emissions=[]), and one that snapshots them.
PlainRow(items) == [items |-> items, zooms |-> {}, note |-> "nobody"]
FullRow(items, n) == [items |-> items, zooms |-> zooms, note |-> n]

\* The prompt handler empties the accumulators and starts the task.
Launch ==
    /\ pc = "off" /\ pc' = "starting" /\ zooms' = {}
    /\ UNCHANGED <<reason, guard, round, bubble, segment, completed, note, latest, told, stored, ghosts>>

\* After auto-naming, the turn resets the shared fields and registers its own lists.
Begin ==
    /\ pc = "starting" /\ pc' = "top"
    /\ note' = "nobody" /\ latest' = "own" /\ begun' = TRUE
    /\ UNCHANGED <<reason, guard, round, bubble, segment, completed, zooms, told, stored,
                   zoomed, cut, others, log>>

\* The top of the loop: the step cap, then the wall clock, then the next round.
Leave(why) == pc' = "leaving" /\ reason' = why

\* Mutant: the cap is compared after the step is counted.
OneStepMore ==
    /\ pc = "top"
    /\ guard' = [guard EXCEPT !.steps = @ + 1] /\ round' = NoRound
    /\ pc' = "stream"
    /\ UNCHANGED <<reason, bubble, segment, completed, shared, told, stored, ghosts>>

\* Mutant: a round is not counted.
UncountedRounds ==
    /\ pc = "top" /\ round' = NoRound /\ pc' = "stream"
    /\ UNCHANGED <<reason, guard, bubble, segment, completed, shared, told, stored, ghosts>>

NextRound ==
    /\ pc = "top"
    /\ \/ guard.steps = StepCap /\ Leave("cap") /\ UNCHANGED <<guard, round>>
       \/ guard.steps < StepCap /\ Leave("clock") /\ UNCHANGED <<guard, round>>
       \/ /\ guard.steps < StepCap
          /\ guard' = [guard EXCEPT !.steps = @ + 1] /\ round' = NoRound
          /\ pc' = "stream" /\ UNCHANGED reason
    /\ UNCHANGED <<bubble, segment, completed, shared, told, stored, ghosts>>

Said == Cardinality({i \in 1..Len(shown) : shown[i] \in Texts})

\* A chunk is sent; no buffer has its text before the send returns.
SendChunk ==
    /\ Said < MaxText /\ pc' = "sending"
    /\ shown' = Append(shown, Text(Said + 1)) /\ sent' = <<Text(Said + 1)>>

\* A chunk of text opens a bubble if none is open.
Say ==
    /\ pc = "stream" /\ SendChunk
    /\ bubble' = TRUE /\ opened' = TRUE
    /\ UNCHANGED <<reason, guard, round, segment, completed, shared, closed, stored, ghosts>>

\* The send has returned: the text goes to every buffer.
Buffer ==
    /\ pc = "sending" /\ pc' = IF reason = "none" THEN "stream" ELSE "leaving"
    /\ segment' = segment \o sent /\ sent' = << >>
    /\ round' = [round EXCEPT !.text = TRUE]
    /\ UNCHANGED <<reason, guard, bubble, completed, shared, shown, closed, opened, stored, ghosts>>

\* White space, or reasoning the user asked to see: a bubble without text.
SayBlank ==
    /\ pc = "stream" /\ ~bubble
    /\ bubble' = TRUE /\ opened' = TRUE
    /\ UNCHANGED <<pc, reason, guard, round, segment, completed, shared, shown, sent, closed, stored, ghosts>>
-----------------------------------------------------------------------------
(* A round without calls.  An empty one is retried, a silent end or a lone
   geocoding is nudged once, and anything else is the answer. *)
Retries == Local /\ ~round.text /\ guard.retries < RetryCap

MayNudge == ~guard.nudged /\ guard.retries = 0

\* Must the loop go on, or may it (the prompt asked for data: bare-geocode)?
SilentEnd == guard.tools # {} /\ ~round.text
LoneGeocode == guard.tools = {Geo} /\ round.text

Answer ==
    /\ pc = "stream"
    /\ \/ /\ Retries
          /\ guard' = [guard EXCEPT !.retries = @ + 1] /\ pc' = "top"
          /\ UNCHANGED <<reason, shown, sent>>
       \/ /\ ~Retries /\ MayNudge /\ (SilentEnd \/ LoneGeocode)
          /\ guard' = [guard EXCEPT !.nudged = TRUE] /\ pc' = "top"
          /\ UNCHANGED <<reason, shown, sent>>
       \/ /\ ~Retries /\ ~(MayNudge /\ SilentEnd)
          /\ \/ Leave("answer") /\ UNCHANGED <<shown, sent>>
             \/ /\ Local /\ guard.tools = {} /\ round.text         \* the caveat
                /\ SendChunk /\ reason' = "answer"
          /\ UNCHANGED guard
    /\ UNCHANGED <<round, bubble, segment, completed, shared, closed, opened, stored, ghosts>>
-----------------------------------------------------------------------------
(* _finalize_segment closes the bubble and persists its text; the buffer is
   emptied only when the write has returned. *)
Finalize(terminal, after) ==
    /\ bubble' = FALSE /\ closed' = TRUE
    /\ IF segment = << >>
         THEN pc' = after /\ UNCHANGED pending
         ELSE /\ pc' = "flush"
              /\ pending' = << IF terminal THEN FullRow(segment, "nobody") ELSE PlainRow(segment) >>

\* Mutant: the buffer is emptied before its row is written.
ClearsFirst ==
    /\ pc = "stream" /\ bubble
    /\ \E r \in Rounds :
         /\ round' = [round EXCEPT !.sig = r, !.left = r]
         /\ guard' = [guard EXCEPT !.tools = @ \cup Range(r)]
    /\ Finalize(FALSE, "calling") /\ segment' = << >>
    /\ UNCHANGED <<reason, completed, shared, shown, sent, opened,
                   rows, lost, kept, segments, marked, ghosts>>

\* Mutant: the bubble stays open while the tools run.
CallsFirst ==
    /\ pc = "stream" /\ pc' = "calling"
    /\ \E r \in Rounds :
         /\ round' = [round EXCEPT !.sig = r, !.left = r]
         /\ guard' = [guard EXCEPT !.tools = @ \cup Range(r)]
    /\ UNCHANGED <<reason, bubble, segment, completed, shared, told, stored, ghosts>>

\* A round with calls: the open bubble is finalized before the first of them.
CallTools ==
    /\ pc = "stream"
    /\ \E r \in Rounds :
         /\ round' = [round EXCEPT !.sig = r, !.left = r]
         /\ guard' = [guard EXCEPT !.tools = @ \cup Range(r)]
    /\ IF bubble THEN Finalize(FALSE, "calling")
       ELSE pc' = "calling" /\ UNCHANGED <<bubble, closed, pending>>
    /\ UNCHANGED <<reason, segment, completed, shared, shown, sent, opened,
                   rows, lost, kept, segments, marked, ghosts>>

\* A row is in the Case.
Lands(row) ==
    /\ rows' = rows \o row.items
    /\ kept' = [zooms |-> kept.zooms \cup row.zooms,
                note |-> IF row.note = "nobody" THEN kept.note ELSE row.note]

\* The first pending row is written; a write that fails is only logged.
Persist ==
    \/ Lands(Head(pending)) /\ UNCHANGED <<lost, cut>>
    \/ /\ lost' = lost \cup (Range(Head(pending).items) \cap Texts) /\ cut' = TRUE
       /\ UNCHANGED <<rows, kept>>

\* The end of _finalize_segment, whatever became of the row.
Flushed ==
    /\ pc = "flush"
    /\ Persist
    /\ pending' = << >> /\ segment' = << >> /\ segments' = TRUE
    /\ marked' = (marked \/ reason # "none")
    /\ pc' = IF reason = "none" THEN "calling" ELSE "finishing"
    /\ UNCHANGED <<reason, guard, round, bubble, completed, shared, told, begun, zoomed, others, log>>

WithCard(s) == IF s # << >> /\ Last(s) = Card THEN s ELSE Append(s, Card)

(* One call of the round ends.  A tripped breaker and an unknown tool show no
   card; a result that carries a new extent moves the map, and the zoom-to is
   recorded once it has been sent. *)
EndCall ==
    /\ pc = "calling" /\ round.left # << >>
    /\ LET tool == Head(round.left) IN
       \E outcome \in {"bare", "failed", "refused"} \cup (IF tool = Geo THEN {} ELSE {"made"}) :
         LET good == outcome \in {"made", "bare"} IN
         /\ round' = [round EXCEPT !.left = Tail(@), !.made = @ \/ outcome = "made",
                                   !.bad = @ \/ ~good, !.good = @ \/ good]
         /\ IF outcome = "refused" THEN UNCHANGED <<shown, rows>>
            ELSE shown' = WithCard(shown) /\ rows' = WithCard(rows)
         /\ \/ good /\ zooms' = zooms \cup {"own"} /\ zoomed' = TRUE
            \/ UNCHANGED <<zooms, zoomed>>
         /\ guard' = IF outcome = "made" /\ tool \in Composers
                     THEN [guard EXCEPT !.delivered = TRUE, !.idle = 0] ELSE guard
    /\ UNCHANGED <<pc, reason, bubble, segment, completed, note, latest, sent, closed, opened,
                   pending, lost, kept, segments, marked, begun, cut, others, log>>

\* Mutant: every round that made nothing counts, the same as the last or not.
IgnoresSignature(progressed) ==
    IF progressed THEN [guard EXCEPT !.last = NoSig, !.repeats = 0]
    ELSE [guard EXCEPT !.last = round.sig, !.repeats = @ + 1]

\* LoopWatchdog.record_round: only a repeated round that made nothing counts.
RecordRound(progressed) ==
    IF progressed THEN [guard EXCEPT !.last = NoSig, !.repeats = 0]
    ELSE IF guard.last = round.sig THEN [guard EXCEPT !.repeats = @ + 1]
    ELSE [guard EXCEPT !.last = round.sig, !.repeats = 1]

\* After a delivery, rounds that make nothing are counted.
CountIdle(g) ==
    IF ~g.delivered THEN g
    ELSE IF round.made THEN [g EXCEPT !.idle = 0]
    ELSE [g EXCEPT !.idle = @ + 1]

\* As much of the log as the properties look at.
Latest(s) == SubSeq(s, Len(s) - Min({Len(s), Max({RepeatN, WrapUp})}) + 1, Len(s))

EndRound ==
    /\ pc = "calling" /\ round.left = << >>
    /\ LET progressed == round.made \/ (round.bad /\ ~round.good)
           watched == RecordRound(progressed)
           counted == CountIdle(watched)
       IN /\ log' = Latest(Append(log, [sig |-> round.sig, progressed |-> progressed,
                                        made |-> round.made, delivered |-> guard.delivered]))
          /\ IF watched.repeats >= RepeatN
               THEN Leave("loop") /\ guard' = watched
             ELSE /\ guard' = counted
                  /\ IF counted.delivered /\ counted.idle >= WrapUp
                       THEN Leave("crisp")
                       ELSE pc' = "top" /\ UNCHANGED reason
    /\ UNCHANGED <<round, bubble, segment, completed, shared, told, stored, begun, zoomed, cut, others>>
-----------------------------------------------------------------------------
\* Mutant: a concluded turn without text closes nothing.
ForgetsCrispEnd ==
    /\ pc = "leaving"
    /\ \/ bubble /\ Finalize(TRUE, "finishing") /\ segment' = segment
       \/ /\ ~bubble /\ closed' = (closed \/ reason \in {"cap", "clock", "loop"})
          /\ pc' = "finishing" /\ UNCHANGED <<bubble, segment, pending>>
    /\ UNCHANGED <<reason, guard, round, completed, shared, shown, sent, opened,
                   rows, lost, kept, segments, marked, ghosts>>

(* After the loop.  A guard's end is announced, with a closing chunk if no
   bubble is open; an open bubble is finalized as the terminal segment. *)
AfterLoop ==
    /\ pc = "leaving"
    /\ \/ bubble /\ Finalize(TRUE, "finishing") /\ segment' = segment
       \/ /\ ~bubble
          /\ closed' = (closed \/ reason \in {"cap", "clock", "loop"} \/ (reason = "crisp" /\ ~segments))
          /\ pc' = "finishing" /\ UNCHANGED <<bubble, segment, pending>>
    /\ UNCHANGED <<reason, guard, round, completed, shared, shown, sent, opened,
                   rows, lost, kept, segments, marked, ghosts>>

\* The generation step is completed and the prompt joins the history.
Finish ==
    /\ pc = "finishing" /\ pc' = "naming" /\ completed' = TRUE
    /\ UNCHANGED <<reason, guard, round, bubble, segment, shared, told, stored, ghosts>>

Named ==
    /\ pc = "naming" /\ pc' = "wrap"
    /\ UNCHANGED <<reason, guard, round, bubble, segment, completed, shared, told, stored, ghosts>>

(* The stream of a round fails.  A full context window leaves a note for the
   wrapper; an outage of the provider is told in a bubble and a row of its own;
   each leaves a failure card.  A closed client socket leaves nothing. *)
StreamFails ==
    /\ pc = "stream"
    /\ \/ /\ reason' = "context" /\ note' = "own" /\ shown' = Append(shown, Failed)
          /\ pending' = << PlainRow(<<Failed>>) >>
          /\ UNCHANGED <<bubble, closed, opened>>
       \/ /\ reason' = "upstream" /\ shown' = shown \o <<Outage, Failed>>
          /\ pending' = << PlainRow(<<Outage>>), PlainRow(<<Failed>>) >>
          /\ bubble' = FALSE /\ closed' = TRUE /\ opened' = TRUE /\ UNCHANGED note
       \/ /\ reason' = "other" /\ shown' = Append(shown, Failed)
          /\ pending' = << PlainRow(<<Failed>>) >>
          /\ UNCHANGED <<bubble, closed, opened, note>>
       \/ /\ reason' = "dropped" /\ UNCHANGED <<bubble, closed, opened, note, shown, pending>>
    /\ pc' = "failing"
    /\ UNCHANGED <<guard, round, segment, completed, zooms, latest, sent,
                   rows, lost, kept, segments, marked, ghosts>>

PersistFailure ==
    /\ pc = "failing"
    /\ \/ /\ pending # << >>
          /\ Persist
          /\ pending' = Tail(pending) /\ UNCHANGED pc
       \/ pending = << >> /\ pc' = "wrap" /\ UNCHANGED <<pending, rows, lost, kept, cut>>
    /\ UNCHANGED <<reason, guard, round, bubble, segment, completed, shared, told, segments, marked,
                   begun, zoomed, others, log>>
-----------------------------------------------------------------------------
(* The finally of _dispatch_model_turn_and_persist: what the loop left open is
   the last row.  A turn cancelled before it registered its lists falls back to
   the narration of the connection's last turn. *)
Borrowed == IF ~begun /\ latest = "other" THEN <<Foreign>> ELSE << >>

\* Mutant: the note is read and not put on the row.
DropsNote ==
    /\ pc = "wrap" /\ note' = "nobody"
    /\ pending' = <<FullRow(segment, "nobody")>> /\ pc' = "closing"
    /\ UNCHANGED <<reason, guard, round, bubble, segment, completed, zooms, latest, told,
                   rows, lost, kept, segments, marked, ghosts>>

WrapTurn ==
    /\ pc = "wrap" /\ note' = "nobody"
    /\ LET row ==
             IF segment # << >> THEN <<FullRow(segment, note)>>
             ELSE IF ~segments /\ (Borrowed # << >> \/ completed \/ note # "nobody")
               THEN <<FullRow(Borrowed, note)>>
             ELSE IF ~marked /\ zooms # {} THEN <<FullRow(<< >>, "nobody")>>
             ELSE << >>
       IN pending' = row /\ pc' = IF row = << >> THEN "completing" ELSE "closing"
    /\ UNCHANGED <<reason, guard, round, bubble, segment, completed, zooms, latest, told,
                   rows, lost, kept, segments, marked, ghosts>>

CloseTurn ==
    /\ pc = "closing" /\ pc' = "completing"
    /\ Persist
    /\ pending' = << >>
    /\ UNCHANGED <<reason, guard, round, bubble, segment, completed, shared, told, segments, marked,
                   begun, zoomed, others, log>>

\* turn-complete is sent.
Complete ==
    /\ pc = "completing" /\ pc' = "done"
    /\ UNCHANGED <<reason, guard, round, bubble, segment, completed, shared, told, stored, ghosts>>
-----------------------------------------------------------------------------
(* A cancellation, by a stop or a re-prompt, lands at the await the turn is in:
   a chunk that is being sent reaches no buffer, a write already handed to its
   thread may still land, and the card of a call cut short is left to the call
   (Dispatch).  In the wrapper it ends the turn. *)
Cancel ==
    /\ \/ /\ pc \in Body /\ (pc = "calling" => round.left # << >>)
          /\ pc' = "wrap" /\ reason' = IF pc = "failing" THEN reason ELSE "stopped"
       \/ pc \in Wrapper /\ pc' = "killed" /\ UNCHANGED reason
    /\ \/ pending # << >> /\ Lands(Head(pending))
       \/ UNCHANGED <<rows, kept>>
    /\ pending' = << >> /\ cut' = (cut \/ pending # << >>)
    /\ UNCHANGED <<guard, round, bubble, segment, completed, shared, told, lost, segments, marked,
                   begun, zoomed, others, log>>

\* The turns of other Cases on this connection run the same code.
Neighbour ==
    /\ pc \in Body /\ others < MaxOthers /\ others' = others + 1
    /\ \/ zooms' = {} /\ UNCHANGED <<note, latest>>                        \* Launch
       \/ note' = "nobody" /\ latest' = "other" /\ UNCHANGED zooms         \* Begin
       \/ zooms' = zooms \cup {"other"} /\ UNCHANGED <<note, latest>>      \* EndCall
       \/ note' = "other" /\ UNCHANGED <<zooms, latest>>                   \* StreamFails
       \/ note' = "nobody" /\ UNCHANGED <<zooms, latest>>                  \* WrapTurn
    /\ UNCHANGED <<pc, reason, guard, round, bubble, segment, completed, told, stored,
                   begun, zoomed, cut, log>>

Advance ==
    \/ Begin \/ NextRound \/ Say \/ Buffer \/ SayBlank \/ Answer \/ CallTools \/ Flushed \/ EndCall
    \/ EndRound \/ AfterLoop \/ Finish \/ Named \/ StreamFails \/ PersistFailure
    \/ WrapTurn \/ CloseTurn \/ Complete

Next == Launch \/ Advance \/ Cancel \/ Neighbour

Spec == Init /\ [][Next]_vars /\ WF_vars(Advance)
-----------------------------------------------------------------------------
Ended == pc = "done"
Clean == Ended /\ begun /\ ~cut

(* Whatever ended the turn, the text the client was sent is in the rows of the
   Case (the text of a write that failed aside), and a turn that registered its
   lists writes no text but its own.  One chunk may be missing: the one whose send a
   stop interrupted, which reaches the buffers after its send (stream.py, the stream
   of a round and the finally of _dispatch_model_turn_and_persist; persist.py,
   _finalize_segment). *)
NothingSaidIsLost ==
    /\ Ended => Range(shown) \cap Texts \subseteq Range(rows) \cup lost \cup Range(sent)
    /\ Ended /\ sent # << >> => reason = "stopped" /\ Len(sent) = 1
    /\ begun => Foreign \notin Range(rows)

(* A Case that is opened again replays the turn in the order the client saw it:
   each segment of text before the cards of the round that followed it.  A chunk
   whose send was interrupted comes last and is all that is missing.  Of a turn that
   failed with a bubble open the tail comes after the failure. *)
ReplayIsTheTurn ==
    Clean /\ ~(reason \in Failures /\ segment # << >>) => shown = rows \o sent

(* A turn that ran to its end leaves no bubble open, and the client has had a
   closing chunk unless the model answered with nothing at all. *)
StreamIsClosed ==
    Ended /\ completed /\ reason # "stopped" =>
        ~bubble /\ (closed \/ (reason = "answer" /\ ~opened))

(* What a turn left on the connection for its rows is on them, if no other turn used
   the shared fields meanwhile.  A turn that recorded a zoom-to persists a row that carries
   it (stream.py: "EVERY turn that emitted a zoom-to/layer persists at least one chat
   row carrying it").  The note on a full context window is on a row of the turn it is
   about and on no other; a turn that has persisted a segment and has none open writes
   no row that could carry it. *)
MarksOnItsTurn ==
    Clean /\ others = 0 =>
        /\ zoomed => "own" \in kept.zooms
        /\ kept.note = IF reason = "context" /\ ~(segments /\ segment = << >>) THEN "own" ELSE "nobody"

\* The last n rounds with calls.
LastRounds(n) == SubSeq(log, Len(log) - n + 1, Len(log))

\* The last rounds were the same and made nothing.
Looping ==
    /\ Len(log) >= RepeatN
    /\ \A i \in 1..RepeatN : LastRounds(RepeatN)[i].sig = LastRounds(1)[1].sig
                              /\ ~LastRounds(RepeatN)[i].progressed

\* A turn that has delivered spent its last rounds without making anything.
Idling ==
    /\ Len(log) >= WrapUp
    /\ \A i \in 1..WrapUp : LET r == LastRounds(WrapUp)[i] IN r.delivered /\ ~r.made

(* The watchdog stops the turn at once when the last rounds were the same and
   made nothing, and never otherwise: rounds in which every call failed are left
   to the circuit breaker.  A delivered turn is concluded after rounds that made
   nothing, and never before. *)
GuardsAreExact ==
    /\ reason = "loop" => Looping
    /\ reason = "crisp" => Idling
    /\ pc = "top" => ~Looping /\ ~Idling

\* A turn ends, whatever the model does: the step cap bounds its rounds.
TurnEnds == pc = "starting" ~> pc \in {"done", "killed"}
=============================================================================
