--------------------------- MODULE TurnLoopProofs ---------------------------
(***************************************************************************)
(* Proofs about one turn of the model loop, for any rounds of tool calls,  *)
(* any caps, any amount of text and any number of steps of other turns on  *)
(* the fields of the connection.                                           *)
(***************************************************************************)
EXTENDS TurnLoop, FiniteSetTheorems, SequenceTheorems, TLAPS

Tools == UNION {Range(r) : r \in Rounds}

Guards ==
    [steps : 0..StepCap, retries : 0..RetryCap, nudged : BOOLEAN, tools : SUBSET Tools,
     last : Rounds \cup {NoSig}, repeats : 0..RepeatN, delivered : BOOLEAN, idle : 0..WrapUp]

\* The fields of the round in progress; what is left of it are calls of its signature.
RoundOK ==
    /\ round \in [sig : Rounds \cup {NoSig}, left : Seq(Range(round.sig)), text : BOOLEAN,
                  made : BOOLEAN, bad : BOOLEAN, good : BOOLEAN]

\* Every history and buffer is a sequence of its items.
BuffersOK ==
    /\ shown \in Seq(Items) /\ rows \in Seq(Items) /\ segment \in Seq(Texts) /\ sent \in Seq(Texts)
    /\ pending \in Seq(Rows) /\ lost \in SUBSET Texts
    /\ kept \in [zooms : SUBSET {"own", "other"}, note : Whose]

FlagsOK ==
    /\ pc \in Body \cup Wrapper \cup {"off", "leaving", "wrap", "done", "killed"}
    /\ reason \in Reasons
    /\ bubble \in BOOLEAN /\ segments \in BOOLEAN /\ marked \in BOOLEAN /\ completed \in BOOLEAN
    /\ closed \in BOOLEAN /\ opened \in BOOLEAN /\ begun \in BOOLEAN /\ zoomed \in BOOLEAN
    /\ cut \in BOOLEAN /\ others \in 0..MaxOthers
    /\ note \in Whose /\ latest \in Whose /\ zooms \in SUBSET {"own", "other"}

\* Where the loop may still go on.
InLoop == pc \in {"off", "starting", "top", "stream", "calling"} \/ (pc \in {"flush", "sending"} /\ reason = "none")

\* While it may, no guard has been reached.
BelowBounds ==
    /\ InLoop => reason = "none" /\ guard.repeats < RepeatN /\ guard.idle < WrapUp
    /\ pc = "leaving" => reason \in {"answer", "cap", "clock", "loop", "crisp"}
    /\ pc = "sending" => reason \in {"none", "answer"}

\* What waits to be written, wherever the turn is.
Queue ==
    /\ pc = "flush" => Len(pending) = 1 /\ pending[1].items = segment
    /\ pc = "closing" => Len(pending) = 1
    /\ pc \notin {"flush", "closing", "failing"} => pending = << >>

\* A chunk is being sent, or a stop interrupted its send.
SentOK ==
    /\ pc = "sending" => Len(sent) = 1
    /\ pc # "sending" /\ sent # << >> =>
          Len(sent) = 1 /\ reason = "stopped" /\ pc \in {"wrap", "closing", "completing", "done", "killed"}

BaseTypes == FlagsOK /\ BuffersOK /\ RoundOK /\ guard \in Guards /\ BelowBounds /\ Queue
Types == BaseTypes /\ SentOK

(* The text of a turn: what the client was sent is in a row, on the list of the
   failed writes, still in the buffer or the chunk being sent, and a turn that has begun has no text
   of another one. *)
Unsaved == IF pc \in {"completing", "done"} THEN {} ELSE Range(segment)

SaidInv ==
    /\ pc # "killed" => Range(shown) \cap Texts \subseteq Range(rows) \cup lost \cup Unsaved \cup Range(sent)
    /\ pc = "closing" /\ segment # << >> => pending[1].items = segment
    /\ pc \in {"off", "starting"} => rows = << >> /\ shown = << >> /\ segment = << >>
    /\ begun => Foreign \notin Range(rows)
    /\ begun /\ pc \in {"closing", "failing"} =>
          \A i \in 1..Len(pending) : Foreign \notin Range(pending[i].items)

(* The bubbles of a turn: an opened one is open or was closed, and the loop's
   ordinary end closes the last one. *)
EndedClosed == ~bubble /\ (closed \/ (reason = "answer" /\ ~opened))

BubbleInv ==
    /\ bubble => opened
    /\ opened => bubble \/ closed
    /\ segments => closed
    /\ pc = "flush" => ~bubble /\ closed
    /\ pc = "finishing" => EndedClosed
    /\ completed => pc \in {"naming", "wrap", "done", "killed"} \cup Wrapper
    /\ completed /\ reason # "stopped" => EndedClosed

(* The order of a turn: until it ends, what was shown is what is in the rows and
   then the open segment and the chunk being sent.  A failure is shown after the open segment and written
   before it, which only an empty segment makes up for. *)
SegmentOpen ==
    /\ pc \in {"off", "starting"} => rows = << >> /\ shown = << >> /\ segment = << >>
    /\ (pc = "stream" /\ round.text) \/ pc = "sending" => bubble
    /\ pc \in {"top", "stream", "leaving"} /\ ~bubble => segment = << >>
    /\ pc \in {"flush", "calling"} => ~bubble
    /\ pc \in {"calling", "finishing", "naming"} => segment = << >>
    /\ pc = "failing" => reason \in Failures \cup {"dropped"}
    /\ pc = "failing" /\ reason = "dropped" => pending = << >>
    /\ pc = "closing" /\ begun => pending[1].items = segment

Tailed == reason \in Failures /\ segment # << >>

InOrder ==
    /\ pc \in {"top", "stream", "flush", "calling", "leaving", "finishing", "naming"} =>
          shown = rows \o segment
    /\ pc = "sending" => shown = (rows \o segment) \o sent
    /\ pc = "failing" /\ reason = "dropped" => shown = rows \o segment
    /\ pc = "failing" /\ reason # "dropped" /\ segment = << >> =>
          \/ pending = << >> /\ shown = rows
          \/ Len(pending) = 1 /\ shown = rows \o pending[1].items
          \/ Len(pending) = 2 /\ shown = (rows \o pending[1].items) \o pending[2].items
    /\ pc \in {"wrap", "closing"} /\ ~Tailed => shown = (rows \o segment) \o sent
    /\ pc \in {"completing", "done"} /\ ~Tailed => shown = rows \o sent

OrderInv == SegmentOpen /\ (begun /\ ~cut => InOrder)

(* The marks of a turn that had the connection's fields to itself. *)
NoteDue == IF reason = "context" THEN "own" ELSE "nobody"
NoteKept == IF reason = "context" /\ ~(segments /\ segment = << >>) THEN "own" ELSE "nobody"

MarksPlaced ==
    /\ marked => pc \in {"finishing", "naming", "wrap", "done", "killed"} \cup Wrapper
    /\ pc \in {"off", "starting"} => kept.note = "nobody" /\ ~zoomed

OwnMarks ==
    /\ zoomed => "own" \in zooms
    /\ zoomed /\ (marked \/ pc \in {"completing", "done"}) => "own" \in kept.zooms
    /\ pc = "flush" => pending[1].note = "nobody"
    /\ pc = "flush" /\ reason # "none" /\ zoomed => "own" \in pending[1].zooms
    /\ pc = "closing" => pending[1].note = NoteKept /\ (zoomed => "own" \in pending[1].zooms)
    /\ pc = "failing" => \A i \in 1..Len(pending) : pending[i].note = "nobody"
    /\ pc \notin {"wrap", "failing", "done", "killed"} \cup Wrapper => note = "nobody" /\ reason # "context"
    /\ pc \in {"wrap", "failing"} => note = NoteDue
    /\ pc \in {"completing", "done"} => kept.note = NoteKept
    /\ pc \notin {"completing", "done", "killed"} => kept.note = "nobody"

MarksInv == MarksPlaced /\ (begun /\ ~cut /\ others = 0 => OwnMarks)

(* The watchdog's counters count the rounds at the end of the log, and the round
   before those does not belong to them. *)
Window == IF RepeatN >= WrapUp THEN RepeatN ELSE WrapUp
Entries == [sig : Rounds, progressed : BOOLEAN, made : BOOLEAN, delivered : BOOLEAN]
Back(i) == log[Len(log) - i + 1]

RepeatsInv ==
    /\ guard.repeats <= Len(log)
    /\ \A i \in 1..guard.repeats : Back(i).sig = guard.last /\ ~Back(i).progressed
    /\ guard.repeats < Len(log) =>
          Back(guard.repeats + 1).progressed \/ Back(guard.repeats + 1).sig # guard.last
    /\ guard.repeats = 0 /\ Len(log) > 0 => Back(1).progressed

IdleInv ==
    /\ guard.idle <= Len(log)
    /\ ~guard.delivered => guard.idle = 0
    /\ \A i \in 1..guard.idle : Back(i).delivered /\ ~Back(i).made
    /\ guard.idle < Len(log) /\ ~(pc = "calling" /\ round.made) =>
          ~Back(guard.idle + 1).delivered \/ Back(guard.idle + 1).made

LogInv ==
    /\ log \in Seq(Entries) /\ Len(log) <= Window
    /\ pc = "calling" \/ (pc = "flush" /\ reason = "none") => round.sig \in Rounds
    /\ pc \in {"stream", "sending"} \/ (pc = "flush" /\ reason = "none") => ~round.made
    /\ InLoop => RepeatsInv /\ IdleInv
    /\ reason = "loop" => Looping
    /\ reason = "crisp" => Idling

-----------------------------------------------------------------------------
LEMMA Constants ==
    /\ StepCap \in Nat /\ RepeatN \in Nat /\ RetryCap \in Nat /\ WrapUp \in Nat
    /\ MaxText \in Nat /\ MaxOthers \in Nat /\ StepCap > 0 /\ RepeatN > 1 /\ WrapUp > 0
    /\ \A r \in Rounds : r \in Seq(Range(r)) /\ r # << >>
BY LoopAssumption

LEMMA TypesGiveTypeOK == Types => TypeOK
<1> SUFFICES ASSUME Types PROVE TypeOK OBVIOUS
<1>1. /\ Range(segment) \subseteq Texts /\ Range(sent) \subseteq Texts
      /\ Range(shown) \subseteq Items /\ Range(rows) \subseteq Items
  BY RangeOfSeq DEF Types, BaseTypes, BuffersOK
<1>6. Len(sent) <= 1
  <2>1. CASE sent = << >> BY <2>1
  <2>2. CASE sent # << >> BY <2>2 DEF Types, SentOK
  <2> QED BY <2>1, <2>2
<1>2. \A i \in 1..Len(pending) : pending[i].note \in Whose /\ Range(pending[i].items) \subseteq Items
  <2> SUFFICES ASSUME NEW i \in 1..Len(pending)
               PROVE  pending[i].note \in Whose /\ Range(pending[i].items) \subseteq Items
    OBVIOUS
  <2>1. pending[i] \in Rows BY ElementOfSeq DEF Types, BaseTypes, BuffersOK
  <2> QED BY <2>1, RangeOfSeq DEF Rows
<1>3. \A i \in 1..Len(round.left) : round.left[i] \in Range(round.sig)
  BY ElementOfSeq DEF Types, BaseTypes, RoundOK
<1>4. /\ round.sig \in Rounds \cup {NoSig} /\ {round.text, round.made, round.bad, round.good} \subseteq BOOLEAN
      /\ kept.note \in Whose /\ kept.zooms \subseteq {"own", "other"}
  BY DEF Types, BaseTypes, RoundOK, BuffersOK
<1>5. {bubble, segments, marked, completed, closed, opened, begun, zoomed, cut} \subseteq BOOLEAN
  BY DEF Types, BaseTypes, FlagsOK
<1> QED BY <1>1, <1>2, <1>3, <1>4, <1>5, <1>6 DEF Types, BaseTypes, TypeOK, FlagsOK, BuffersOK, Guards, Tools

\* The number of pieces said so far is a number, so the next piece is a text.
LEMMA NextText == ASSUME shown \in Seq(Items), Said < MaxText PROVE Text(Said + 1) \in Texts
<1> DEFINE said == {i \in 1..Len(shown) : shown[i] \in Texts}
<1>1. Len(shown) \in Nat OBVIOUS
<1>2. IsFiniteSet(1..Len(shown)) BY <1>1, FS_Interval
<1>3. IsFiniteSet(said) BY <1>2, FS_Subset
<1>4. Said \in Nat BY <1>3, FS_CardinalityType DEF Said
<1> QED BY <1>4, Constants DEF Texts

LEMMA TextsAreItems == Texts \subseteq Items /\ {Card, Outage, Failed, Foreign} \subseteq Items
BY DEF Items

\* What sending a chunk does to the histories.
LEMMA SendTypes ==
    ASSUME shown \in Seq(Items), SendChunk
    PROVE  /\ shown' \in Seq(Items) /\ sent' \in Seq(Texts) /\ Len(sent') = 1
           /\ \E e \in Texts : shown' = Append(shown, e) /\ sent' = <<e>>
<1>1. Text(Said + 1) \in Texts BY NextText DEF SendChunk
<1>2. Text(Said + 1) \in Items BY <1>1, TextsAreItems
<1> QED BY <1>1, <1>2, AppendProperties DEF SendChunk

LEMMA RowTypes ==
    /\ \A items \in Seq(Items) : PlainRow(items) \in Rows
    /\ zooms \in SUBSET {"own", "other"} =>
          \A items \in Seq(Items), n \in Whose : FullRow(items, n) \in Rows
    /\ \A s \in Seq(Texts) : s \in Seq(Items)
<1>1. \A s \in Seq(Texts) : s \in Seq(Items) BY TextsAreItems, SeqMonotonic
<1> QED BY <1>1 DEF PlainRow, FullRow, Rows, Whose

\* What a write of the first pending row does to the histories.
LEMMA PersistTypes ==
    ASSUME BuffersOK, pending # << >>, Persist
    PROVE  /\ rows' \in Seq(Items) /\ lost' \in SUBSET Texts
           /\ kept' \in [zooms : SUBSET {"own", "other"}, note : Whose]
           /\ cut' \in {cut, TRUE}
<1>1. Head(pending) \in Rows BY HeadTailProperties DEF BuffersOK
<1>2. CASE Lands(Head(pending)) /\ UNCHANGED <<lost, cut>>
  BY <1>1, <1>2, ConcatProperties DEF Lands, Rows, BuffersOK
<1>3. CASE /\ lost' = lost \cup (Range(Head(pending).items) \cap Texts) /\ cut' = TRUE
           /\ UNCHANGED <<rows, kept>>
  BY <1>3 DEF BuffersOK
<1> QED BY <1>2, <1>3 DEF Persist

LEMMA FinalizeTypes ==
    ASSUME BuffersOK, zooms \in SUBSET {"own", "other"}, NEW terminal \in BOOLEAN, NEW after,
           pending = << >>, after # "flush", Finalize(terminal, after)
    PROVE  /\ bubble' = FALSE /\ closed' = TRUE
           /\ \/ segment = << >> /\ pc' = after /\ pending' = pending
              \/ /\ segment # << >> /\ pc' = "flush" /\ pending' \in Seq(Rows)
                 /\ Len(pending') = 1 /\ pending'[1].items = segment /\ pending'[1].note = "nobody"
                 /\ terminal => pending'[1].zooms = zooms
<1>1. segment \in Seq(Items) BY RowTypes DEF BuffersOK
<1> DEFINE row == IF terminal THEN FullRow(segment, "nobody") ELSE PlainRow(segment)
<1>2. row \in Rows /\ row.items = segment /\ row.note = "nobody" /\ (terminal => row.zooms = zooms)
  <2>1. PlainRow(segment) \in Rows /\ FullRow(segment, "nobody") \in Rows
    BY <1>1, RowTypes DEF Whose
  <2> QED BY <2>1 DEF PlainRow, FullRow
<1>3. bubble' = FALSE /\ closed' = TRUE BY DEF Finalize
<1>4. CASE segment = << >> BY <1>3, <1>4 DEF Finalize
<1>5. CASE segment # << >>
  <2>1. pc' = "flush" /\ pending' = << row >> BY <1>5 DEF Finalize
  <2> HIDE DEF row
  <2>2. << row >> \in Seq(Rows) /\ Len(<< row >>) = 1 /\ << row >>[1] = row BY <1>2
  <2> QED BY <1>2, <1>3, <1>5, <2>1, <2>2
<1> QED BY <1>4, <1>5

(* The row the wrapper writes, if any: the open segment, or the narration it
   falls back on, with the note; or the zoom-to commands alone. *)
LEMMA WrapRow ==
    ASSUME BuffersOK, FlagsOK, WrapTurn
    PROVE  \/ /\ pending' = << >> /\ pc' = "completing" /\ segment = << >>
              /\ segments \/ note = "nobody"
              /\ marked \/ zooms = {}
           \/ \E row \in Rows :
                /\ pending' = << row >> /\ pc' = "closing" /\ row.zooms = zooms
                /\ \/ row.items = segment \/ (segment = << >> /\ row.items = Borrowed)
                /\ row.note = IF segments /\ segment = << >> THEN "nobody" ELSE note
<1>0. segment \in Seq(Items) /\ Borrowed \in Seq(Items) /\ << >> \in Seq(Items)
  BY RowTypes, TextsAreItems DEF BuffersOK, Borrowed
<1>1. \A items \in Seq(Items), n \in Whose :
         /\ FullRow(items, n) \in Rows /\ FullRow(items, n).items = items
         /\ FullRow(items, n).zooms = zooms /\ FullRow(items, n).note = n
  BY RowTypes DEF FlagsOK, FullRow
<1>2. note \in Whose /\ "nobody" \in Whose BY DEF FlagsOK, Whose
<1> DEFINE empty == ~segments /\ (Borrowed # << >> \/ completed \/ note # "nobody")
<1>3. CASE segment # << >>
  <2>1. pending' = << FullRow(segment, note) >> /\ pc' = "closing" BY <1>3 DEF WrapTurn
  <2> QED BY <1>0, <1>1, <1>2, <1>3, <2>1
<1>4. CASE segment = << >> /\ empty
  <2>1. pending' = << FullRow(Borrowed, note) >> /\ pc' = "closing" BY <1>4 DEF WrapTurn
  <2> QED BY <1>0, <1>1, <1>2, <1>4, <2>1
<1>5. CASE segment = << >> /\ ~empty /\ ~marked /\ zooms # {}
  <2>1. pending' = << FullRow(<< >>, "nobody") >> /\ pc' = "closing" BY <1>5 DEF WrapTurn
  <2>2. FullRow(<< >>, "nobody") \in Rows /\ FullRow(<< >>, "nobody").items = segment
        /\ FullRow(<< >>, "nobody").zooms = zooms /\ FullRow(<< >>, "nobody").note = "nobody"
    BY <1>0, <1>1, <1>2, <1>5
  <2>3. "nobody" = IF segments /\ segment = << >> THEN "nobody" ELSE note BY <1>5
  <2> QED BY <2>1, <2>2, <2>3
<1>6. CASE segment = << >> /\ ~empty /\ (marked \/ zooms = {})
  <2>1. pending' = << >> /\ pc' = "completing" BY <1>6 DEF WrapTurn
  <2> QED BY <1>6, <2>1
<1> QED BY <1>3, <1>4, <1>5, <1>6

\* What a call does when it ends, given its outcome.
CallEnds(outcome) ==
    LET tool == Head(round.left)
        good == outcome \in {"made", "bare"}
    IN /\ outcome \in {"bare", "failed", "refused", "made"}
       /\ round' = [round EXCEPT !.left = Tail(@), !.made = @ \/ outcome = "made",
                                 !.bad = @ \/ ~good, !.good = @ \/ good]
       /\ IF outcome = "refused" THEN UNCHANGED <<shown, rows>>
          ELSE shown' = WithCard(shown) /\ rows' = WithCard(rows)
       /\ \/ good /\ zooms' = zooms \cup {"own"} /\ zoomed' = TRUE
          \/ UNCHANGED <<zooms, zoomed>>
       /\ guard' = IF outcome = "made" /\ tool \in Composers
                   THEN [guard EXCEPT !.delivered = TRUE, !.idle = 0] ELSE guard

LEMMA EndCallEffect == EndCall => \E outcome : CallEnds(outcome)
<1> SUFFICES ASSUME EndCall PROVE \E outcome : CallEnds(outcome) OBVIOUS
<1> DEFINE tool == Head(round.left)
           Good(o) == o \in {"made", "bare"}
<1>1. PICK outcome \in {"bare", "failed", "refused"} \cup (IF tool = Geo THEN {} ELSE {"made"}) :
        /\ round' = [round EXCEPT !.left = Tail(@), !.made = @ \/ outcome = "made",
                                  !.bad = @ \/ ~Good(outcome), !.good = @ \/ Good(outcome)]
        /\ IF outcome = "refused" THEN UNCHANGED <<shown, rows>>
           ELSE shown' = WithCard(shown) /\ rows' = WithCard(rows)
        /\ \/ Good(outcome) /\ zooms' = zooms \cup {"own"} /\ zoomed' = TRUE
           \/ UNCHANGED <<zooms, zoomed>>
        /\ guard' = IF outcome = "made" /\ tool \in Composers
                    THEN [guard EXCEPT !.delivered = TRUE, !.idle = 0] ELSE guard
  BY DEF EndCall
<1>2. CallEnds(outcome) BY <1>1 DEF CallEnds
<1> QED BY <1>2

\* The cards of a call.
LEMMA CardTypes == ASSUME NEW s \in Seq(Items) PROVE WithCard(s) \in Seq(Items)
BY TextsAreItems, AppendProperties DEF WithCard

-----------------------------------------------------------------------------
LEMMA TypesInit == Init => Types
<1> SUFFICES ASSUME Init PROVE Types OBVIOUS
<1>7. SentOK BY DEF Init, SentOK
<1>1. FlagsOK
  <2>1. note \in Whose /\ latest \in Whose /\ zooms \in SUBSET {"own", "other"} BY DEF Init, Whose
  <2>2. others \in 0..MaxOthers BY Constants DEF Init
  <2> QED BY <2>1, <2>2 DEF Init, FlagsOK, Reasons
<1>2. BuffersOK BY DEF Init, BuffersOK, Whose
<1>3. RoundOK BY LoopAssumption DEF Init, RoundOK, NoRound
<1>4. guard \in Guards BY Constants DEF Init, Guards
<1>5. BelowBounds BY Constants DEF Init, BelowBounds
<1>6. Queue BY DEF Init, Queue
<1> QED BY <1>1, <1>2, <1>3, <1>4, <1>5, <1>6, <1>7 DEF Types, BaseTypes

\* Only a stop leaves a chunk behind that is in no buffer.
LEMMA SentStep == Types /\ [Next]_vars => SentOK'
<1> SUFFICES ASSUME Types, [Next]_vars PROVE SentOK' OBVIOUS
<1> USE DEF vars, shared, told, stored, ghosts
<1>0. SentOK /\ shown \in Seq(Items) BY DEF Types, BaseTypes, BuffersOK
<1>1. CASE (Say \/ Answer) /\ SendChunk
  <2>1. Len(sent') = 1 /\ pc' = "sending" BY <1>0, <1>1, SendTypes DEF SendChunk
  <2> QED BY <2>1 DEF SentOK
<1>2. CASE Answer /\ ~SendChunk
  <2>1. pc = "stream" /\ sent' = sent /\ pc' # "sending" BY <1>2 DEF Answer, Leave
  <2> QED BY <1>0, <2>1 DEF SentOK
<1>3. CASE Buffer
  <2>1. sent' = << >> /\ pc' # "sending" BY <1>3 DEF Buffer
  <2> QED BY <2>1 DEF SentOK
<1>4. CASE \/ Launch \/ Begin \/ NextRound \/ SayBlank \/ CallTools \/ Flushed \/ EndRound
           \/ AfterLoop \/ Finish \/ Named \/ StreamFails
  <2>1. /\ sent' = sent /\ pc' # "sending"
        /\ pc \notin {"sending", "wrap", "closing", "completing", "done", "killed"}
    BY <1>4 DEF Launch, Begin, NextRound, Leave, SayBlank, CallTools, Finalize, Flushed, EndRound,
                AfterLoop, Finish, Named, StreamFails
  <2> QED BY <1>0, <2>1 DEF SentOK
<1>5. CASE EndCall BY <1>0, <1>5 DEF EndCall, SentOK
<1>6. CASE PersistFailure
  <2>1. pc = "failing" /\ pc' # "sending" /\ sent' = sent BY <1>6 DEF PersistFailure
  <2> QED BY <1>0, <2>1 DEF SentOK
<1>7. CASE WrapTurn \/ CloseTurn \/ Complete
  <2>1. /\ sent' = sent /\ reason' = reason /\ pc # "sending"
        /\ pc' \in {"wrap", "closing", "completing", "done"}
    BY <1>7 DEF WrapTurn, CloseTurn, Complete
  <2> QED BY <1>0, <2>1 DEF SentOK
<1>8. CASE Cancel
  <2>1. CASE pc = "sending"
    <3>1. sent' = sent /\ pc' = "wrap" /\ reason' = "stopped" BY <1>8, <2>1 DEF Cancel, Wrapper
    <3> QED BY <1>0, <2>1, <3>1 DEF SentOK
  <2>2. CASE pc # "sending"
    <3>1. sent' = sent /\ pc' \in {"wrap", "killed"} BY <1>8 DEF Cancel
    <3>2. CASE sent = << >> BY <3>1, <3>2 DEF SentOK
    <3>3. CASE sent # << >>
      <4>1. Len(sent) = 1 /\ reason = "stopped" /\ pc \in {"wrap", "closing", "completing", "done", "killed"}
        BY <1>0, <2>2, <3>3 DEF SentOK
      <4>2. reason' = reason BY <1>8, <4>1 DEF Cancel, Body
      <4> QED BY <3>1, <4>1, <4>2 DEF SentOK
    <3> QED BY <3>2, <3>3
  <2> QED BY <2>1, <2>2
<1>9. CASE Neighbour \/ UNCHANGED vars
  <2>1. UNCHANGED <<sent, pc, reason>> BY <1>9 DEF Neighbour
  <2> QED BY <1>0, <2>1 DEF SentOK
<1> QED BY <1>1, <1>2, <1>3, <1>4, <1>5, <1>6, <1>7, <1>8, <1>9 DEF Next, Advance, Say

LEMMA TypesStep == Types /\ [Next]_vars => Types'
<1> SUFFICES ASSUME Types, [Next]_vars PROVE BaseTypes' BY SentStep DEF Types
<1> USE DEF vars, shared, told, stored, ghosts
<1>0. /\ FlagsOK /\ BuffersOK /\ RoundOK /\ guard \in Guards /\ BelowBounds /\ Queue
      /\ zooms \in SUBSET {"own", "other"}
  BY DEF Types, BaseTypes, FlagsOK
<1> DEFINE Buffers == <<shown, sent, rows, segment, pending, lost, kept>>
<1>b. ASSUME UNCHANGED Buffers PROVE BuffersOK' BY <1>0, <1>b DEF BuffersOK
<1>r. ASSUME UNCHANGED round PROVE RoundOK' BY <1>0, <1>r DEF RoundOK
<1>1. CASE Launch
  BY <1>0, <1>1, <1>b, <1>r DEF Launch, Types, BaseTypes, FlagsOK, Body, BelowBounds, InLoop, Queue
<1>2. CASE Begin
  BY <1>0, <1>2, <1>b, <1>r DEF Begin, Types, BaseTypes, FlagsOK, Body, BelowBounds, InLoop, Queue, Whose
<1>3. CASE NextRound
  <2>1. FlagsOK' /\ BuffersOK' /\ Queue'
    BY <1>0, <1>3, <1>b DEF NextRound, Leave, FlagsOK, Body, Queue, Reasons
  <2>2. RoundOK'
    <3>1. CASE UNCHANGED round BY <1>r, <3>1
    <3>2. CASE round' = NoRound BY <3>2 DEF RoundOK, NoRound
    <3> QED BY <1>3, <3>1, <3>2 DEF NextRound
  <2>3. (guard \in Guards)' BY <1>0, <1>3, Constants DEF NextRound, Guards
  <2>4. BelowBounds' BY <1>0, <1>3 DEF NextRound, Leave, BelowBounds, InLoop, Guards
  <2> QED BY <2>1, <2>2, <2>3, <2>4 DEF Types, BaseTypes
<1>4. CASE Say
  <2>1. BuffersOK' /\ Len(sent') = 1 BY <1>0, <1>4, SendTypes DEF Say, BuffersOK
  <2>2. FlagsOK' /\ (guard \in Guards)' /\ BelowBounds' /\ Queue'
    BY <1>0, <1>4, <2>1 DEF Say, SendChunk, FlagsOK, Body, BelowBounds, InLoop, Queue
  <2>3. RoundOK' BY <1>4, <1>r DEF Say
  <2> QED BY <2>1, <2>2, <2>3 DEF Types, BaseTypes
<1>4a. CASE Buffer
  <2>1. BuffersOK' BY <1>0, <1>4a, ConcatProperties DEF Buffer, BuffersOK
  <2>2. FlagsOK' /\ (guard \in Guards)' /\ BelowBounds' /\ Queue'
    BY <1>0, <1>4a DEF Buffer, FlagsOK, Body, BelowBounds, InLoop, Queue
  <2>3. RoundOK' BY <1>0, <1>4a DEF Buffer, RoundOK
  <2> QED BY <2>1, <2>2, <2>3 DEF Types, BaseTypes
<1>5. CASE SayBlank
  BY <1>0, <1>5, <1>b, <1>r DEF SayBlank, Types, BaseTypes, FlagsOK, BelowBounds, InLoop, Queue
<1>6. CASE Answer
  <2>1. BuffersOK' /\ (pc' = "sending" => Len(sent') = 1)
    <3>1. CASE UNCHANGED <<shown, sent>> /\ pc' # "sending" BY <1>6, <1>b, <3>1 DEF Answer
    <3>2. CASE SendChunk BY <1>0, <1>6, <3>2, SendTypes DEF Answer, BuffersOK
    <3> QED BY <1>6, <3>1, <3>2 DEF Answer, Leave
  <2>2. FlagsOK' /\ Queue'
    BY <1>0, <1>6, <2>1 DEF Answer, Leave, SendChunk, FlagsOK, Body, Reasons, Queue
  <2>3. (guard \in Guards)' 
    <3>1. CASE Retries /\ guard' = [guard EXCEPT !.retries = @ + 1]
      BY <1>0, <3>1, Constants DEF Guards, Retries
    <3>2. CASE guard' = [guard EXCEPT !.nudged = TRUE] BY <1>0, <3>2 DEF Guards
    <3> QED BY <1>0, <1>6, <3>1, <3>2 DEF Answer
  <2>4. BelowBounds' BY <1>0, <1>6 DEF Answer, Leave, SendChunk, BelowBounds, InLoop, Guards
  <2>5. RoundOK' BY <1>6, <1>r DEF Answer
  <2> QED BY <2>1, <2>2, <2>3, <2>4, <2>5 DEF Types, BaseTypes
<1>7. CASE CallTools
  <2>1. PICK r \in Rounds : /\ round' = [round EXCEPT !.sig = r, !.left = r]
                            /\ guard' = [guard EXCEPT !.tools = @ \cup Range(r)]
    BY <1>7 DEF CallTools
  <2>2. RoundOK' BY <1>0, <2>1, Constants DEF RoundOK
  <2>3. (guard \in Guards)' BY <1>0, <2>1 DEF Guards, Tools
  <2>4. /\ bubble' \in BOOLEAN /\ closed' \in BOOLEAN /\ pending' \in Seq(Rows)
        /\ \/ pc' = "calling" /\ pending' = << >>
           \/ pc' = "flush" /\ Len(pending') = 1 /\ pending'[1].items = segment
    BY <1>0, <1>7, FinalizeTypes DEF CallTools, Queue, FlagsOK, BuffersOK
  <2>5. BuffersOK' /\ FlagsOK' /\ Queue'
    BY <1>0, <1>7, <2>4 DEF CallTools, BuffersOK, FlagsOK, Body, Queue
  <2>6. BelowBounds' BY <1>0, <1>7, <2>1, <2>4 DEF CallTools, BelowBounds, InLoop, Guards
  <2> QED BY <2>2, <2>3, <2>5, <2>6 DEF Types, BaseTypes
<1>8. CASE Flushed
  <2>1. /\ rows' \in Seq(Items) /\ lost' \in SUBSET Texts
        /\ kept' \in [zooms : SUBSET {"own", "other"}, note : Whose] /\ cut' \in {cut, TRUE}
    <3>1. pending # << >> /\ Persist BY <1>0, <1>8 DEF Flushed, Queue
    <3> QED BY <1>0, <3>1, PersistTypes
  <2>2. BuffersOK' BY <1>0, <1>8, <2>1 DEF Flushed, BuffersOK
  <2>3. FlagsOK' BY <1>0, <1>8, <2>1 DEF Flushed, FlagsOK, Body
  <2>4. Queue' BY <1>8 DEF Flushed, Queue
  <2>5. BelowBounds' /\ RoundOK' /\ (guard \in Guards)'
    BY <1>0, <1>8, <1>r DEF Flushed, BelowBounds, InLoop
  <2> QED BY <2>2, <2>3, <2>4, <2>5 DEF Types, BaseTypes
<1>9. CASE EndCall
  <2>1. PICK outcome : CallEnds(outcome) BY <1>9, EndCallEffect
  <2> USE DEF CallEnds
  <2>2. RoundOK'
    <3>1. Tail(round.left) \in Seq(Range(round.sig))
      BY <1>0, <1>9, HeadTailProperties DEF EndCall, RoundOK
    <3> QED BY <1>0, <2>1, <3>1 DEF RoundOK
  <2>3. BuffersOK' BY <1>0, <1>9, <2>1, CardTypes DEF EndCall, BuffersOK
  <2>4. FlagsOK' BY <1>0, <1>9, <2>1 DEF EndCall, FlagsOK
  <2>5. (guard \in Guards)' /\ BelowBounds' /\ Queue'
    <3>1. (guard \in Guards)' /\ guard'.repeats = guard.repeats /\ guard'.idle \in {0, guard.idle}
      <4>1. CASE guard' = [guard EXCEPT !.delivered = TRUE, !.idle = 0]
        <5>1. 0 \in 0..WrapUp BY Constants
        <5>2. guard'.repeats = guard.repeats /\ guard'.idle = 0 BY <1>0, <4>1 DEF Guards
        <5>3. guard' \in Guards BY <1>0, <4>1, <5>1 DEF Guards
        <5> QED BY <5>2, <5>3
      <4> QED BY <1>0, <2>1, <4>1
    <3>2. pc' = pc /\ reason' = reason /\ pending' = pending BY <1>9 DEF EndCall
    <3> QED BY <1>0, <1>9, <3>1, <3>2, Constants DEF EndCall, BelowBounds, InLoop, Queue
  <2> QED BY <2>2, <2>3, <2>4, <2>5 DEF Types, BaseTypes
<1>10. CASE EndRound
  <2> DEFINE progressed == round.made \/ (round.bad /\ ~round.good)
             watched == RecordRound(progressed)
             counted == CountIdle(watched)
  <2>1. watched \in Guards /\ watched.idle = guard.idle
    <3>1. guard.repeats + 1 \in 0..RepeatN /\ round.sig \in Rounds \cup {NoSig}
      BY <1>0, <1>10, Constants DEF EndRound, Guards, RoundOK, BelowBounds, InLoop
    <3>2. watched \in {[guard EXCEPT !.last = NoSig, !.repeats = 0],
                       [guard EXCEPT !.repeats = guard.repeats + 1],
                       [guard EXCEPT !.last = round.sig, !.repeats = 1]}
      BY <1>0 DEF RecordRound, Guards
    <3>3. 0 \in 0..RepeatN /\ 1 \in 0..RepeatN BY Constants
    <3>4. CASE watched = [guard EXCEPT !.last = NoSig, !.repeats = 0]
      BY <1>0, <3>3, <3>4 DEF Guards
    <3>5. CASE watched = [guard EXCEPT !.repeats = guard.repeats + 1]
      BY <1>0, <3>1, <3>5 DEF Guards
    <3>6. CASE watched = [guard EXCEPT !.last = round.sig, !.repeats = 1]
      BY <1>0, <3>1, <3>3, <3>6 DEF Guards
    <3> QED BY <3>2, <3>4, <3>5, <3>6
  <2> HIDE DEF watched
  <2>2. /\ counted \in Guards /\ counted.repeats = watched.repeats
        /\ ~counted.delivered => counted.idle = guard.idle
    <3>1. watched.idle + 1 \in 0..WrapUp
      BY <1>0, <1>10, <2>1, Constants DEF EndRound, Guards, BelowBounds, InLoop
    <3>2. counted \in {watched, [watched EXCEPT !.idle = 0], [watched EXCEPT !.idle = watched.idle + 1]}
          /\ (~watched.delivered => counted = watched)
      BY <2>1 DEF CountIdle, Guards
    <3>3. 0 \in 0..WrapUp BY Constants
    <3>4. CASE counted = watched BY <2>1, <3>4
    <3>5. CASE watched.delivered /\ counted = [watched EXCEPT !.idle = 0] BY <2>1, <3>3, <3>5 DEF Guards
    <3>6. CASE watched.delivered /\ counted = [watched EXCEPT !.idle = watched.idle + 1]
      BY <2>1, <3>1, <3>6 DEF Guards
    <3> QED BY <2>1, <3>2, <3>4, <3>5, <3>6
  <2> HIDE DEF counted
  <2>4. BuffersOK' /\ RoundOK' /\ Queue' BY <1>0, <1>10, <1>b, <1>r DEF EndRound, Leave, Queue
  <2>5. FlagsOK' BY <1>0, <1>10 DEF EndRound, Leave, FlagsOK, Body, Reasons
  <2>6. (guard \in Guards)' BY <1>10, <2>1, <2>2 DEF EndRound, watched, counted
  <2>7. BelowBounds'
    <3>0. pc' \in {"top", "leaving"} /\ (pc' = "leaving" => reason' \in {"loop", "crisp"}) BY <1>10 DEF EndRound, Leave
    <3> SUFFICES ASSUME InLoop' PROVE reason' = "none" /\ guard'.repeats < RepeatN /\ guard'.idle < WrapUp
      BY <3>0 DEF BelowBounds
    <3>1. pc' = "top" /\ UNCHANGED reason /\ guard' = counted
          /\ ~(watched.repeats >= RepeatN) /\ ~(counted.delivered /\ counted.idle >= WrapUp)
      BY <1>10 DEF EndRound, Leave, InLoop, watched, counted
    <3> QED BY <1>0, <1>10, <2>1, <2>2, <3>1, Constants DEF EndRound, BelowBounds, InLoop, Guards
  <2> QED BY <2>4, <2>5, <2>6, <2>7 DEF Types, BaseTypes
<1>11. CASE AfterLoop
  <2>1. /\ bubble' \in BOOLEAN /\ closed' \in BOOLEAN /\ pending' \in Seq(Rows) /\ segment' = segment
        /\ \/ pc' = "finishing" /\ pending' = << >>
           \/ pc' = "flush" /\ Len(pending') = 1 /\ pending'[1].items = segment
    BY <1>0, <1>11, FinalizeTypes DEF AfterLoop, Queue, FlagsOK, BuffersOK
  <2>2. BuffersOK' /\ FlagsOK' /\ Queue'
    BY <1>0, <1>11, <2>1 DEF AfterLoop, BuffersOK, FlagsOK, Body, Queue
  <2>3. BelowBounds' /\ RoundOK' /\ (guard \in Guards)'
    BY <1>0, <1>11, <2>1, <1>r DEF AfterLoop, BelowBounds, InLoop
  <2> QED BY <2>2, <2>3 DEF Types, BaseTypes
<1>12. CASE Finish
  BY <1>0, <1>12, <1>b, <1>r DEF Finish, Types, BaseTypes, FlagsOK, Body, BelowBounds, InLoop, Queue
<1>13. CASE Named
  BY <1>0, <1>13, <1>b, <1>r DEF Named, Types, BaseTypes, FlagsOK, Body, BelowBounds, InLoop, Queue
<1>14. CASE StreamFails
  <2>1. PlainRow(<<Failed>>) \in Rows /\ PlainRow(<<Outage>>) \in Rows
    <3>1. <<Failed>> \in Seq(Items) /\ <<Outage>> \in Seq(Items) BY TextsAreItems
    <3>2. \A items \in Seq(Items) : PlainRow(items) \in Rows BY RowTypes
    <3> QED BY <3>1, <3>2
  <2>2. shown' \in Seq(Items) /\ pending' \in Seq(Rows)
    <3>1. <<Outage, Failed>> \in Seq(Items) BY TextsAreItems
    <3>2. shown \o <<Outage, Failed>> \in Seq(Items) /\ Append(shown, Failed) \in Seq(Items)
      BY <1>0, <3>1, TextsAreItems, ConcatProperties, AppendProperties DEF BuffersOK
    <3> HIDE DEF Rows
    <3>3. /\ << PlainRow(<<Failed>>) >> \in Seq(Rows)
          /\ << PlainRow(<<Outage>>), PlainRow(<<Failed>>) >> \in Seq(Rows)
      BY <2>1
    <3> QED BY <1>0, <1>14, <3>2, <3>3 DEF StreamFails, BuffersOK
  <2>3. BuffersOK' BY <1>0, <1>14, <2>2 DEF StreamFails, BuffersOK
  <2>4. FlagsOK'
    <3>1. reason' \in Reasons /\ pc' = "failing" BY <1>14 DEF StreamFails, Reasons, Failures
    <3>2. /\ bubble' \in BOOLEAN /\ closed' \in BOOLEAN /\ opened' \in BOOLEAN /\ note' \in Whose
      BY <1>0, <1>14 DEF StreamFails, FlagsOK, Whose
    <3> QED BY <1>0, <1>14, <3>1, <3>2 DEF StreamFails, FlagsOK, Body
  <2>5. RoundOK' /\ (guard \in Guards)' /\ BelowBounds' /\ Queue'
    BY <1>0, <1>14, <1>r DEF StreamFails, BelowBounds, InLoop, Queue
  <2> QED BY <2>3, <2>4, <2>5 DEF Types, BaseTypes
<1>15. CASE PersistFailure
  <2>1. /\ rows' \in Seq(Items) /\ lost' \in SUBSET Texts /\ pending' \in Seq(Rows)
        /\ kept' \in [zooms : SUBSET {"own", "other"}, note : Whose] /\ cut' \in {cut, TRUE}
    <3>1. CASE pending # << >> /\ Persist /\ pending' = Tail(pending)
      BY <1>0, <3>1, PersistTypes, HeadTailProperties DEF BuffersOK
    <3>2. CASE UNCHANGED <<pending, rows, lost, kept, cut>> BY <1>0, <3>2 DEF BuffersOK
    <3> QED BY <1>15, <3>1, <3>2 DEF PersistFailure
  <2>2. BuffersOK' BY <1>0, <1>15, <2>1 DEF PersistFailure, BuffersOK
  <2>3. FlagsOK' BY <1>0, <1>15, <2>1 DEF PersistFailure, FlagsOK, Body
  <2>4. RoundOK' /\ (guard \in Guards)' /\ BelowBounds' /\ Queue'
    BY <1>0, <1>15, <1>r DEF PersistFailure, BelowBounds, InLoop, Queue
  <2> QED BY <2>2, <2>3, <2>4 DEF Types, BaseTypes
<1>16. CASE WrapTurn
  <2>1. pending' \in Seq(Rows) /\ \/ pending' = << >> /\ pc' = "completing"
                                  \/ Len(pending') = 1 /\ pc' = "closing"
    <3>1. \/ pending' = << >> /\ pc' = "completing"
          \/ \E row \in Rows : pending' = << row >> /\ pc' = "closing"
      BY <1>0, <1>16, WrapRow
    <3>2. << >> \in Seq(Rows) /\ \A row \in Rows : << row >> \in Seq(Rows) /\ Len(<< row >>) = 1 OBVIOUS
    <3> QED BY <3>1, <3>2
  <2>2. BuffersOK' /\ FlagsOK' /\ Queue'
    BY <1>0, <1>16, <2>1 DEF WrapTurn, BuffersOK, FlagsOK, Wrapper, Queue, Whose
  <2>3. RoundOK' /\ (guard \in Guards)' /\ BelowBounds'
    BY <1>0, <1>16, <2>1, <1>r DEF WrapTurn, BelowBounds, InLoop
  <2> QED BY <2>2, <2>3 DEF Types, BaseTypes
<1>17. CASE CloseTurn
  <2>1. /\ rows' \in Seq(Items) /\ lost' \in SUBSET Texts
        /\ kept' \in [zooms : SUBSET {"own", "other"}, note : Whose] /\ cut' \in {cut, TRUE}
    <3>1. pending # << >> /\ Persist BY <1>0, <1>17 DEF CloseTurn, Queue
    <3> QED BY <1>0, <3>1, PersistTypes
  <2>2. BuffersOK' BY <1>0, <1>17, <2>1 DEF CloseTurn, BuffersOK
  <2>3. FlagsOK' BY <1>0, <1>17, <2>1 DEF CloseTurn, FlagsOK, Wrapper
  <2>4. RoundOK' /\ (guard \in Guards)' /\ BelowBounds' /\ Queue'
    BY <1>0, <1>17, <1>r DEF CloseTurn, BelowBounds, InLoop, Queue
  <2> QED BY <2>2, <2>3, <2>4 DEF Types, BaseTypes
<1>18. CASE Complete
  BY <1>0, <1>18, <1>b, <1>r DEF Complete, Types, BaseTypes, FlagsOK, BelowBounds, InLoop, Queue
<1>19. CASE Cancel
  <2>1. rows' \in Seq(Items) /\ kept' \in [zooms : SUBSET {"own", "other"}, note : Whose]
    <3>1. ASSUME pending # << >> PROVE Head(pending) \in Rows
      BY <1>0, <3>1, HeadTailProperties DEF BuffersOK
    <3>2. CASE pending # << >> /\ Lands(Head(pending))
      BY <1>0, <3>1, <3>2, ConcatProperties DEF Lands, Rows, BuffersOK
    <3> QED BY <1>0, <1>19, <3>2 DEF Cancel, BuffersOK
  <2>2. BuffersOK' BY <1>0, <1>19, <2>1 DEF Cancel, BuffersOK
  <2>3. FlagsOK' BY <1>0, <1>19 DEF Cancel, FlagsOK, Reasons
  <2>4. RoundOK' /\ (guard \in Guards)' /\ BelowBounds' /\ Queue'
    BY <1>0, <1>19, <1>r DEF Cancel, BelowBounds, InLoop, Queue
  <2> QED BY <2>2, <2>3, <2>4 DEF Types, BaseTypes
<1>20. CASE Neighbour
  <2>1. FlagsOK'
    <3>1. others' \in 0..MaxOthers BY <1>0, <1>20, Constants DEF Neighbour, FlagsOK
    <3>2. note' \in Whose /\ latest' \in Whose /\ zooms' \in SUBSET {"own", "other"}
      BY <1>0, <1>20 DEF Neighbour, FlagsOK, Whose
    <3> QED BY <1>0, <1>20, <3>1, <3>2 DEF Neighbour, FlagsOK
  <2>2. BuffersOK' /\ RoundOK' /\ (guard \in Guards)' /\ BelowBounds' /\ Queue'
    BY <1>0, <1>20, <1>b, <1>r DEF Neighbour, BelowBounds, InLoop, Queue
  <2> QED BY <2>1, <2>2 DEF Types, BaseTypes
<1>21. CASE UNCHANGED vars
  BY <1>0, <1>21, <1>b, <1>r DEF Types, BaseTypes, FlagsOK, BelowBounds, InLoop, Queue
<1> QED BY <1>1, <1>2, <1>3, <1>4, <1>4a, <1>5, <1>6, <1>7, <1>8, <1>9, <1>10, <1>11, <1>12, <1>13,
           <1>14, <1>15, <1>16, <1>17, <1>18, <1>19, <1>20, <1>21 DEF Next, Advance

(* Wherever the turn is, every counter stays within its cap, every buffer holds
   items of its kind and the calls left of a round are calls of that round
   (stream.py, the body of the loop and its guards). *)
THEOREM TypeCorrect == Spec => []TypeOK
<1>1. Spec => []Types BY TypesInit, TypesStep, PTL DEF Spec
<1> QED BY <1>1, TypesGiveTypeOK, PTL
-----------------------------------------------------------------------------
\* The pieces that are not text of this turn.
LEMMA Distinct == {Card, Outage, Failed, Foreign} \cap Texts = {} /\ Foreign \notin {Card, Outage, Failed}
BY DEF Texts, Text, Card, Outage, Failed, Foreign

LEMMA RangeSingle == Range(<< >>) = {} /\ \A e \in Items : Range(<<e>>) = {e}
<1>1. << >> \in Seq(Items) /\ \A e \in Items : <<e>> \in Seq(Items) OBVIOUS
<1>2. Range(<< >>) = {}
  <2>1. Range(<< >>) = {<< >>[i] : i \in 1..Len(<< >>)} BY <1>1, RangeEquality
  <2> QED BY <2>1
<1>3. ASSUME NEW e \in Items PROVE Range(<<e>>) = {e}
  <2>1. Range(<<e>>) = {<<e>>[i] : i \in 1..Len(<<e>>)} BY <1>1, RangeEquality
  <2> QED BY <2>1
<1> QED BY <1>2, <1>3

LEMMA RangeAppend ==
    ASSUME NEW s \in Seq(Items), NEW e \in Items PROVE Range(Append(s, e)) = Range(s) \cup {e}
<1>1. Append(s, e) = s \o <<e>> BY AppendIsConcat
<1>2. <<e>> \in Seq(Items) OBVIOUS
<1> DEFINE t == <<e>>
<1>3. Range(t) = {e} BY RangeSingle
<1> HIDE DEF t
<1>4. Range(s \o t) = Range(s) \cup Range(t)
  <2>1. t \in Seq(Items) BY <1>2 DEF t
  <2> QED BY <2>1, RangeConcatenation
<1> QED BY <1>1, <1>3, <1>4 DEF t

LEMMA RangeCard ==
    ASSUME NEW s \in Seq(Items)
    PROVE  Range(s) \subseteq Range(WithCard(s)) /\ Range(WithCard(s)) \subseteq Range(s) \cup {Card}
BY RangeAppend, TextsAreItems DEF WithCard

\* What a write does to the text that is kept: the row is in the Case or on the list of the lost.
LEMMA PersistRanges ==
    ASSUME BuffersOK, pending # << >>, Persist
    PROVE  /\ Range(rows) \subseteq Range(rows') /\ lost \subseteq lost'
           /\ Range(rows') \subseteq Range(rows) \cup Range(pending[1].items)
           /\ Range(pending[1].items) \cap Texts \subseteq Range(rows') \cup lost'
<1>1. pending[1] \in Rows /\ Head(pending) = pending[1]
  BY HeadTailProperties DEF BuffersOK
<1>2. rows \in Seq(Items) /\ pending[1].items \in Seq(Items) BY <1>1 DEF BuffersOK, Rows
<1>3. CASE Lands(Head(pending)) /\ UNCHANGED <<lost, cut>>
  BY <1>1, <1>2, <1>3, RangeConcatenation DEF Lands
<1>4. CASE lost' = lost \cup (Range(Head(pending).items) \cap Texts) /\ UNCHANGED <<rows, kept>>
  BY <1>1, <1>4
<1> QED BY <1>3, <1>4 DEF Persist

LEMMA SaidInit == Init => SaidInv
BY RangeSingle DEF Init, SaidInv, Unsaved

LEMMA SaidStep == Types /\ Types' /\ SaidInv /\ [Next]_vars => SaidInv'
<1> SUFFICES ASSUME Types, Types', SaidInv, [Next]_vars PROVE SaidInv' OBVIOUS
<1> USE DEF vars, shared, told, stored, ghosts
<1>0. /\ BuffersOK /\ BuffersOK' /\ FlagsOK /\ Queue /\ Queue' /\ SentOK
      /\ shown \in Seq(Items) /\ rows \in Seq(Items) /\ segment \in Seq(Items) /\ sent \in Seq(Items)
      /\ Range(segment) \subseteq Texts
  BY RangeOfSeq, RowTypes DEF Types, BaseTypes, BuffersOK
\* A step that leaves the text alone.
<1>q. ASSUME UNCHANGED <<shown, sent, rows, lost, segment, begun>>,
             pc' \in {"off", "starting"} => pc \in {"off", "starting"},
             pc' \in {"completing", "done"} => pc \in {"completing", "done"},
             pc' # "killed" => pc # "killed",
             pc' \in {"closing", "failing"} => pc' = pc /\ pending' = pending
      PROVE  SaidInv'
  BY <1>q DEF SaidInv, Unsaved
<1>1. CASE Launch BY <1>1, <1>q DEF Launch
<1>2. CASE Begin BY <1>2, RangeSingle DEF Begin, SaidInv, Unsaved
<1>3. CASE NextRound BY <1>3, <1>q DEF NextRound, Leave
<1>4. CASE (Say \/ Answer) /\ SendChunk
  <2>1. /\ UNCHANGED <<rows, lost, begun, pending, segment>> /\ pc = "stream" /\ pc' = "sending"
    BY <1>4 DEF Say, Answer, SendChunk
  <2>2. PICK e \in Texts : shown' = Append(shown, e) /\ sent' = <<e>> BY <1>0, <1>4, SendTypes
  <2>3. Range(shown') = Range(shown) \cup {e} /\ Range(sent') = {e}
    BY <1>0, <2>2, RangeAppend, RangeSingle, TextsAreItems
  <2>4. Range(sent) = {} BY <1>0, <2>1, RangeSingle DEF SentOK
  <2> QED BY <2>1, <2>3, <2>4 DEF SaidInv, Unsaved
<1>4a. CASE Buffer
  <2>1. Range(segment') = Range(segment) \cup Range(sent)
    BY <1>0, <1>4a, RangeConcatenation DEF Buffer
  <2>2. pc = "sending" /\ pc' \in {"stream", "leaving"} /\ UNCHANGED <<shown, rows, lost, begun, pending>>
    BY <1>4a DEF Buffer
  <2> QED BY <2>1, <2>2 DEF SaidInv, Unsaved
<1>5. CASE SayBlank BY <1>5, <1>q DEF SayBlank
<1>6. CASE Answer /\ ~SendChunk BY <1>6, <1>q DEF Answer, Leave
<1>7. CASE CallTools
  <2>1. pc' \in {"flush", "calling"} BY <1>7 DEF CallTools, Finalize
  <2> QED BY <1>7, <1>q, <2>1 DEF CallTools
<1>8. CASE Flushed
  <2>1. pending # << >> /\ pending[1].items = segment
    <3>1. Len(pending) = 1 /\ pending[1].items = segment BY <1>0, <1>8 DEF Flushed, Queue
    <3> QED BY <3>1
  <2>2. Range(segment) \subseteq Range(rows') \cup lost' /\ Range(rows) \subseteq Range(rows') /\ lost \subseteq lost'
        /\ Range(rows') \subseteq Range(rows) \cup Range(segment)
    BY <1>0, <1>8, <2>1, PersistRanges DEF Flushed
  <2>3. pc' \in {"calling", "finishing"} /\ UNCHANGED <<shown, begun>> BY <1>8 DEF Flushed
  <2> QED BY <1>0, <1>8, <2>2, <2>3, Distinct DEF Flushed, SaidInv, Unsaved
<1>9. CASE EndCall
  <2>1. \/ UNCHANGED <<shown, rows>>
        \/ shown' = WithCard(shown) /\ rows' = WithCard(rows)
    <3>1. PICK outcome : CallEnds(outcome) BY <1>9, EndCallEffect
    <3> QED BY <3>1 DEF CallEnds
  <2>2. /\ Range(shown') \subseteq Range(shown) \cup {Card} /\ Range(rows) \subseteq Range(rows')
        /\ Range(rows') \subseteq Range(rows) \cup {Card}
    BY <1>0, <2>1, RangeCard
  <2> QED BY <1>9, <2>2, Distinct DEF EndCall, SaidInv, Unsaved
<1>10. CASE EndRound BY <1>10, <1>q DEF EndRound, Leave
<1>11. CASE AfterLoop
  <2>1. pc' \in {"flush", "finishing"} BY <1>11 DEF AfterLoop, Finalize
  <2> QED BY <1>11, <1>q, <2>1 DEF AfterLoop
<1>12. CASE Finish \/ Named \/ Complete BY <1>12, <1>q DEF Finish, Named, Complete
<1>14. CASE StreamFails
  <2>1. Range(shown') \subseteq Range(shown) \cup {Outage, Failed}
    <3>1. <<Outage, Failed>> \in Seq(Items) BY TextsAreItems
    <3>2. Range(<<Outage, Failed>>) = {Outage, Failed}
      <4>1. Range(<<Outage, Failed>>) = {<<Outage, Failed>>[i] : i \in 1..Len(<<Outage, Failed>>)}
        BY <3>1, RangeEquality
      <4> QED BY <4>1
    <3>3. Range(shown \o <<Outage, Failed>>) = Range(shown) \cup {Outage, Failed}
      <4> DEFINE t == <<Outage, Failed>>
      <4>1. t \in Seq(Items) /\ Range(t) = {Outage, Failed} BY <3>1, <3>2
      <4> HIDE DEF t
      <4>2. Range(shown \o t) = Range(shown) \cup Range(t) BY <1>0, <4>1, RangeConcatenation
      <4> QED BY <4>1, <4>2 DEF t
    <3>4. Range(Append(shown, Failed)) = Range(shown) \cup {Failed}
      BY <1>0, RangeAppend, TextsAreItems
    <3> QED BY <1>14, <3>3, <3>4 DEF StreamFails
  <2>2. \A i \in 1..Len(pending') : Foreign \notin Range(pending'[i].items)
    <3>1. /\ PlainRow(<<Failed>>).items = <<Failed>> /\ PlainRow(<<Outage>>).items = <<Outage>>
          /\ Range(<<Failed>>) = {Failed} /\ Range(<<Outage>>) = {Outage}
      BY RangeSingle, TextsAreItems DEF PlainRow
    <3>2. pending = << >> BY <1>0, <1>14 DEF StreamFails, Queue
    <3>3. \/ pending' = << PlainRow(<<Failed>>) >>
          \/ pending' = << PlainRow(<<Outage>>), PlainRow(<<Failed>>) >>
          \/ pending' = << >>
      BY <1>14, <3>2 DEF StreamFails
    <3>4. \A i \in 1..Len(pending') : pending'[i] \in {PlainRow(<<Failed>>), PlainRow(<<Outage>>)}
      BY <3>3
    <3> QED BY <3>1, <3>4, Distinct
  <2> QED BY <1>14, <2>1, <2>2, Distinct DEF StreamFails, SaidInv, Unsaved
<1>15. CASE PersistFailure
  <2>1. CASE pending # << >> /\ Persist /\ pending' = Tail(pending) /\ pc' = pc
    <3>1. Range(rows) \subseteq Range(rows') /\ lost \subseteq lost'
          /\ Range(rows') \subseteq Range(rows) \cup Range(pending[1].items)
      BY <1>0, <2>1, PersistRanges
    <3>2. /\ 1 \in 1..Len(pending) /\ Len(pending') = Len(pending) - 1
          /\ \A i \in 1..Len(pending') : i + 1 \in 1..Len(pending) /\ pending'[i] = pending[i + 1]
      BY <1>0, <2>1, HeadTailProperties DEF BuffersOK
    <3> QED BY <1>15, <2>1, <3>1, <3>2 DEF PersistFailure, SaidInv, Unsaved
  <2>2. CASE pc' = "wrap" /\ UNCHANGED <<pending, rows, lost, kept, cut>>
    BY <1>15, <1>q, <2>2 DEF PersistFailure
  <2> QED BY <1>15, <2>1, <2>2 DEF PersistFailure
<1>16. CASE WrapTurn
  <2>1. CASE pending' = << >> /\ pc' = "completing" /\ segment = << >>
    BY <1>16, <2>1, RangeSingle DEF WrapTurn, SaidInv, Unsaved
  <2>2. ASSUME NEW row \in Rows, pending' = << row >>, pc' = "closing",
               row.items = segment \/ (segment = << >> /\ row.items = Borrowed)
        PROVE  SaidInv'
    <3>1. Len(pending') = 1 /\ pending'[1] = row BY <2>2
    <3>2. begun => Foreign \notin Range(row.items)
      BY <1>0, <2>2, RangeSingle, Distinct DEF Borrowed
    <3>3. segment # << >> => row.items = segment BY <2>2
    <3> QED BY <1>16, <2>2, <3>1, <3>2, <3>3 DEF WrapTurn, SaidInv, Unsaved
  <2> QED BY <1>0, <1>16, <2>1, <2>2, WrapRow
<1>17. CASE CloseTurn
  <2>1. pending # << >> /\ 1 \in 1..Len(pending)
    <3>1. Len(pending) = 1 BY <1>0, <1>17 DEF CloseTurn, Queue
    <3> QED BY <3>1
  <2>2. /\ Range(rows) \subseteq Range(rows') /\ lost \subseteq lost'
        /\ Range(rows') \subseteq Range(rows) \cup Range(pending[1].items)
        /\ Range(pending[1].items) \cap Texts \subseteq Range(rows') \cup lost'
    BY <1>0, <1>17, <2>1, PersistRanges DEF CloseTurn
  <2>3. Range(segment) \subseteq Range(rows') \cup lost'
    <3>1. CASE segment = << >> BY <3>1, RangeSingle
    <3>2. CASE segment # << >> BY <1>0, <1>17, <2>2, <3>2 DEF CloseTurn, SaidInv
    <3> QED BY <3>1, <3>2
  <2> QED BY <1>17, <2>1, <2>2, <2>3 DEF CloseTurn, SaidInv, Unsaved
<1>19. CASE Cancel
  <2>1. Range(rows) \subseteq Range(rows') /\ (begun => Foreign \notin Range(rows'))
    <3>1. CASE pending # << >> /\ Lands(Head(pending))
      <4>1. pending[1] \in Rows /\ Head(pending) = pending[1] /\ 1 \in 1..Len(pending)
        BY <1>0, <3>1, HeadTailProperties DEF BuffersOK
      <4>2. Range(rows') = Range(rows) \cup Range(pending[1].items)
        BY <1>0, <3>1, <4>1, RangeConcatenation DEF Lands, Rows
      <4>3. CASE pc \in {"closing", "failing"} BY <4>1, <4>2, <4>3 DEF SaidInv
      <4>4. CASE pc = "flush" BY <1>0, <4>2, <4>4, Distinct DEF SaidInv, Queue
      <4> QED BY <1>0, <3>1, <4>3, <4>4 DEF Queue
    <3> QED BY <1>19, <3>1 DEF Cancel, SaidInv
  <2>2. pc' \in {"wrap", "killed"} /\ (pc' = "wrap" => pc \in Body) BY <1>19 DEF Cancel
  <2> QED BY <1>19, <2>1, <2>2 DEF Cancel, SaidInv, Unsaved, Body
<1>20. CASE Neighbour BY <1>20, <1>q DEF Neighbour
<1>21. CASE UNCHANGED vars BY <1>21, <1>q
<1> QED BY <1>1, <1>2, <1>3, <1>4, <1>4a, <1>5, <1>6, <1>7, <1>8, <1>9, <1>10, <1>11, <1>12,
           <1>14, <1>15, <1>16, <1>17, <1>19, <1>20, <1>21 DEF Next, Advance, Say

(* Whatever ended the turn (an answer, a cap, a guard, a failing stream or a
   cancellation at any await), the text the client was sent is in the rows of the
   Case or in a write that failed, but for the one chunk whose send a stop
   interrupted, and no text of another turn is in the rows of a turn that registered
   its lists (stream.py, the finally of
   _dispatch_model_turn_and_persist; persist.py, _finalize_segment). *)
THEOREM TextIsKept == Spec => []NothingSaidIsLost
<1>1. Types /\ SaidInv => NothingSaidIsLost BY DEF Types, SentOK, SaidInv, Unsaved, NothingSaidIsLost, Ended
<1> QED BY <1>1, TypesInit, TypesStep, SaidInit, SaidStep, PTL DEF Spec
-----------------------------------------------------------------------------
LEMMA BubbleInit == Init => BubbleInv
BY DEF Init, BubbleInv

LEMMA BubbleStep == Types /\ Types' /\ BubbleInv /\ [Next]_vars => BubbleInv'
<1> SUFFICES ASSUME Types, Types', BubbleInv, [Next]_vars PROVE BubbleInv' OBVIOUS
<1> USE DEF vars, shared, told, stored, ghosts
<1>0. FlagsOK /\ FlagsOK' /\ BelowBounds /\ BelowBounds' BY DEF Types, BaseTypes
\* A step of the loop that touches no bubble.
<1>q. ASSUME UNCHANGED <<bubble, closed, opened, segments, completed>>,
             (pc' = pc /\ reason' = reason) \/ (~completed /\ pc' \notin {"flush", "finishing"})
      PROVE  BubbleInv'
  BY <1>q DEF BubbleInv, EndedClosed
<1>c. completed => pc \in {"naming", "wrap", "done", "killed"} \cup Wrapper BY DEF BubbleInv
<1> USE DEF Wrapper
<1>1. CASE Launch \/ Begin \/ NextRound \/ Answer \/ EndRound
  <2>1. ~completed /\ pc' \notin {"flush", "finishing"}
    BY <1>1, <1>c DEF Launch, Begin, NextRound, Answer, EndRound, Leave, SendChunk
  <2>2. UNCHANGED <<bubble, closed, opened, segments, completed>>
    BY <1>1 DEF Launch, Begin, NextRound, Answer, EndRound
  <2> QED BY <1>q, <2>1, <2>2
<1>2. CASE Say \/ SayBlank BY <1>2, <1>c DEF Say, SendChunk, SayBlank, BubbleInv, EndedClosed
<1>2a. CASE Buffer
  <2>1. ~completed /\ pc' \notin {"flush", "finishing"} BY <1>2a, <1>c DEF Buffer
  <2> QED BY <1>2a, <1>q, <2>1 DEF Buffer
<1>3. CASE CallTools
  <2>1. CASE ~bubble BY <1>3, <1>c, <1>q, <2>1 DEF CallTools
  <2>2. CASE bubble BY <1>3, <1>c, <2>2 DEF CallTools, Finalize, BubbleInv, EndedClosed
  <2> QED BY <2>1, <2>2, <1>0 DEF FlagsOK
<1>4. CASE Flushed BY <1>4, <1>c DEF Flushed, BubbleInv, EndedClosed
<1>5. CASE EndCall BY <1>5, <1>q DEF EndCall
<1>6. CASE AfterLoop
  <2>1. ~completed BY <1>6, <1>c DEF AfterLoop
  <2>2. CASE bubble /\ Finalize(TRUE, "finishing")
    BY <1>6, <2>1, <2>2 DEF AfterLoop, Finalize, BubbleInv, EndedClosed
  <2>3. CASE ~bubble
    BY <1>0, <1>6, <2>1, <2>3 DEF AfterLoop, BelowBounds, BubbleInv, EndedClosed, FlagsOK
  <2> QED BY <1>6, <2>2, <2>3 DEF AfterLoop
<1>7. CASE Finish BY <1>7 DEF Finish, BubbleInv, EndedClosed
<1>8. CASE Named \/ WrapTurn \/ CloseTurn \/ Complete
  <2>1. /\ UNCHANGED <<bubble, closed, opened, segments, completed, reason>>
        /\ pc' \in {"wrap", "closing", "completing", "done"} /\ pc # "flush"
    BY <1>8 DEF Named, WrapTurn, CloseTurn, Complete
  <2> QED BY <2>1 DEF BubbleInv, EndedClosed
<1>9. CASE StreamFails BY <1>9, <1>c DEF StreamFails, BubbleInv, EndedClosed
<1>10. CASE PersistFailure
  <2>1. UNCHANGED <<bubble, closed, opened, segments, completed, reason>> /\ pc' \in {"failing", "wrap"}
    BY <1>10 DEF PersistFailure
  <2> QED BY <1>10, <1>c, <2>1, <1>q DEF PersistFailure
<1>11. CASE Cancel
  <2>1. /\ UNCHANGED <<bubble, closed, opened, segments, completed>>
        /\ pc' \in {"wrap", "killed"} /\ reason' \in {reason, "stopped"}
    BY <1>11 DEF Cancel
  <2> QED BY <2>1 DEF BubbleInv, EndedClosed
<1>12. CASE Neighbour BY <1>12, <1>q DEF Neighbour
<1>13. CASE UNCHANGED vars BY <1>13, <1>q
<1> QED BY <1>1, <1>2, <1>2a, <1>3, <1>4, <1>5, <1>6, <1>7, <1>8, <1>9, <1>10, <1>11, <1>12, <1>13
        DEF Next, Advance

(* A turn that ran to its end, after however many rounds and whichever guard or
   answer ended them, leaves no bubble open, and the client had a closing chunk
   unless the model answered with nothing at all (stream.py, the code after the
   loop; persist.py, _finalize_segment). *)
THEOREM BubblesAreClosed == Spec => []StreamIsClosed
<1>1. BubbleInv => StreamIsClosed BY DEF BubbleInv, EndedClosed, StreamIsClosed, Ended
<1> QED BY <1>1, TypesInit, TypesStep, BubbleInit, BubbleStep, PTL DEF Spec
-----------------------------------------------------------------------------
\* Text added to the open segment is added to what was shown.
LEMMA AppendTwice ==
    ASSUME NEW a \in Seq(Items), NEW b \in Seq(Items), NEW e \in Items
    PROVE  Append(a \o b, e) = a \o Append(b, e)
<1>1. <<e>> \in Seq(Items) /\ a \o b \in Seq(Items) BY ConcatProperties
<1>2. Append(a \o b, e) = (a \o b) \o <<e>> /\ Append(b, e) = b \o <<e>> BY <1>1, AppendIsConcat
<1> DEFINE t == <<e>>
<1>3. t \in Seq(Items) BY <1>1
<1> HIDE DEF t
<1>4. (a \o b) \o t = a \o (b \o t) BY <1>3, ConcatAssociative
<1> QED BY <1>2, <1>4 DEF t

LEMMA OrderInit == Init => OrderInv
BY DEF Init, OrderInv, SegmentOpen

LEMMA SegmentStep == Types /\ Types' /\ SegmentOpen /\ [Next]_vars => SegmentOpen'
<1> SUFFICES ASSUME Types, Types', SegmentOpen, [Next]_vars PROVE SegmentOpen' OBVIOUS
<1> USE DEF vars, shared, told, stored, ghosts
<1>0. FlagsOK /\ FlagsOK' /\ BuffersOK /\ Queue /\ Queue' /\ RoundOK BY DEF Types, BaseTypes
<1>1. CASE Launch \/ Begin \/ Finish \/ Named \/ Complete
  BY <1>1 DEF Launch, Begin, Finish, Named, Complete, SegmentOpen
<1>2. CASE NextRound BY <1>2 DEF NextRound, Leave, NoRound, SegmentOpen
<1>3. CASE Say \/ SayBlank \/ Buffer BY <1>3 DEF Say, SendChunk, SayBlank, Buffer, SegmentOpen
<1>4. CASE Answer BY <1>4 DEF Answer, Leave, SendChunk, SegmentOpen
<1>5. CASE CallTools
  <2>1. CASE ~bubble BY <1>5, <2>1 DEF CallTools, SegmentOpen
  <2>2. CASE bubble BY <1>5, <2>2 DEF CallTools, Finalize, SegmentOpen
  <2> QED BY <2>1, <2>2
<1>6. CASE Flushed BY <1>6 DEF Flushed, SegmentOpen
<1>7. CASE EndCall
  <2>1. pc = "calling" /\ UNCHANGED <<pc, bubble, segment>> BY <1>7 DEF EndCall
  <2> QED BY <2>1 DEF SegmentOpen
<1>8. CASE EndRound
  <2>1. pc = "calling" /\ pc' \in {"top", "leaving"} /\ UNCHANGED <<bubble, segment>>
    BY <1>8 DEF EndRound, Leave
  <2> QED BY <2>1 DEF SegmentOpen
<1>9. CASE AfterLoop
  <2>1. CASE bubble /\ Finalize(TRUE, "finishing")
    BY <1>9, <2>1 DEF AfterLoop, Finalize, SegmentOpen
  <2>2. CASE ~bubble /\ pc' = "finishing" /\ UNCHANGED <<bubble, segment, pending>>
    BY <1>9, <2>2 DEF AfterLoop, SegmentOpen
  <2> QED BY <1>9, <2>1, <2>2 DEF AfterLoop
<1>10. CASE StreamFails
  <2>1. /\ pc' = "failing" /\ reason' \in Failures \cup {"dropped"}
        /\ reason' = "dropped" => pending' = << >>
    BY <1>0, <1>10 DEF StreamFails, Failures, Queue
  <2> QED BY <2>1 DEF SegmentOpen
<1>11. CASE PersistFailure
  <2>1. CASE pending # << >> /\ pc' = pc /\ reason' = reason
    BY <1>11, <2>1 DEF PersistFailure, SegmentOpen
  <2>2. CASE pc' = "wrap" BY <2>2 DEF SegmentOpen
  <2> QED BY <1>11, <2>1, <2>2 DEF PersistFailure
<1>12. CASE WrapTurn
  <2>1. CASE pc' = "completing" BY <2>1 DEF SegmentOpen
  <2>2. ASSUME NEW row \in Rows, pending' = << row >>, pc' = "closing",
               row.items = segment \/ (segment = << >> /\ row.items = Borrowed)
        PROVE  SegmentOpen'
    <3>1. pending'[1] = row BY <2>2
    <3>2. begun => row.items = segment BY <2>2 DEF Borrowed
    <3>3. UNCHANGED <<begun, segment>> BY <1>12 DEF WrapTurn
    <3> QED BY <2>2, <3>1, <3>2, <3>3 DEF SegmentOpen
  <2> QED BY <1>0, <1>12, <2>1, <2>2, WrapRow
<1>13. CASE CloseTurn BY <1>13 DEF CloseTurn, SegmentOpen
<1>14. CASE Cancel
  <2>1. pc' \in {"wrap", "killed"} BY <1>14 DEF Cancel
  <2> QED BY <2>1 DEF SegmentOpen
<1>15. CASE Neighbour
  <2>1. UNCHANGED <<pc, reason, round, bubble, segment, pending, begun, rows, shown>> BY <1>15 DEF Neighbour
  <2> QED BY <2>1 DEF SegmentOpen
<1>16. CASE UNCHANGED vars BY <1>16 DEF SegmentOpen
<1> QED BY <1>1, <1>2, <1>3, <1>4, <1>5, <1>6, <1>7, <1>8, <1>9, <1>10, <1>11, <1>12, <1>13,
           <1>14, <1>15, <1>16 DEF Next, Advance

LEMMA OrderStep == Types /\ Types' /\ OrderInv /\ [Next]_vars => OrderInv'
<1> SUFFICES ASSUME Types, Types', OrderInv, [Next]_vars PROVE OrderInv' OBVIOUS
<1> USE DEF vars, shared, told, stored, ghosts
<1>0. /\ FlagsOK /\ BuffersOK /\ BuffersOK' /\ Queue /\ Queue' /\ SegmentOpen
      /\ shown \in Seq(Items) /\ rows \in Seq(Items) /\ segment \in Seq(Items) /\ sent \in Seq(Items)
  BY RowTypes DEF Types, BaseTypes, BuffersOK, OrderInv
<1>n. pc \notin {"sending", "wrap", "closing", "completing", "done", "killed"} => sent = << >>
  BY DEF Types, SentOK
<1>s. SegmentOpen' BY SegmentStep DEF OrderInv
<1>e. rows \o << >> = rows /\ (rows \o segment) \o << >> = rows \o segment
  BY <1>0, ConcatEmptySeq, ConcatProperties
<1> SUFFICES ASSUME begun', ~cut' PROVE InOrder' BY <1>s DEF OrderInv
<1>1. CASE Begin BY <1>0, <1>1, <1>e DEF Begin, SegmentOpen, InOrder
<1> SUFFICES ASSUME ~Begin PROVE InOrder' BY <1>1
<1>2. begun /\ ~cut /\ InOrder
  <2>1. begun' = begun
    BY DEF Next, Advance, Launch, NextRound, Say, Buffer, SayBlank, Answer, CallTools, Flushed, EndCall, EndRound,
           AfterLoop, Finish, Named, StreamFails, PersistFailure, WrapTurn, CloseTurn, Complete, Cancel, Neighbour
  <2>2. cut' \in {cut, TRUE}
    BY <1>0 DEF Next, Advance, Launch, NextRound, Say, Buffer, SayBlank, Answer, CallTools, Flushed, EndCall, EndRound,
           AfterLoop, Finish, Named, StreamFails, PersistFailure, WrapTurn, CloseTurn, Complete, Cancel,
           Neighbour, Persist, FlagsOK
  <2> QED BY <1>0, <2>1, <2>2 DEF OrderInv, FlagsOK
\* A write that is not lost adds its row; one cut short is a cut.
<1>w. ASSUME pending # << >>, Persist PROVE rows' = rows \o pending[1].items
  BY <1>w DEF Persist, Lands
<1>3. CASE Launch BY <1>3 DEF Launch, InOrder
<1>4. CASE NextRound \/ SayBlank \/ Finish \/ Neighbour \/ UNCHANGED vars
  <2>1. /\ UNCHANGED <<shown, sent, rows, segment, pending>>
        /\ \/ UNCHANGED <<pc, reason>>
           \/ /\ pc \in {"top", "stream", "finishing"}
              /\ pc' \in {"top", "stream", "leaving", "naming"}
    BY <1>4 DEF NextRound, Leave, SayBlank, Finish, Neighbour
  <2> QED BY <1>2, <2>1 DEF InOrder, Tailed
<1>5. CASE Say \/ Answer
  <2>1. /\ pc = "stream" /\ UNCHANGED <<rows, segment, pending>>
        /\ \/ pc' \in {"top", "leaving"} /\ UNCHANGED <<shown, sent>>
           \/ SendChunk
    BY <1>5 DEF Say, Answer, Leave
  <2>2. shown = rows \o segment BY <1>2, <2>1 DEF InOrder
  <2>3. CASE pc' \in {"top", "leaving"} /\ UNCHANGED shown BY <2>1, <2>2, <2>3 DEF InOrder
  <2>4. CASE SendChunk
    <3>1. PICK e \in Texts : shown' = Append(shown, e) /\ sent' = <<e>> BY <1>0, <2>4, SendTypes
    <3>2. shown' = shown \o sent' BY <1>0, <3>1, TextsAreItems, AppendIsConcat
    <3> QED BY <2>1, <2>2, <2>4, <3>2 DEF InOrder, SendChunk
  <2> QED BY <2>1, <2>3, <2>4
<1>5a. CASE Buffer
  <2>1. shown = (rows \o segment) \o sent BY <1>2, <1>5a DEF Buffer, InOrder
  <2>2. shown = rows \o (segment \o sent) BY <1>0, <2>1, ConcatAssociative
  <2> QED BY <1>5a, <2>2 DEF Buffer, InOrder
<1>6. CASE CallTools \/ AfterLoop
  <2>1. /\ pc \in {"stream", "leaving"} /\ pc' \in {"flush", "calling", "finishing"}
        /\ UNCHANGED <<shown, rows, segment>>
    BY <1>6 DEF CallTools, AfterLoop, Finalize
  <2> QED BY <1>2, <2>1 DEF InOrder
<1>7. CASE Flushed
  <2>1. Len(pending) = 1 /\ pending[1].items = segment BY <1>0, <1>7 DEF Flushed, Queue
  <2>2. pending # << >> BY <2>1
  <2>3. rows' = rows \o segment BY <1>7, <1>w, <2>1, <2>2 DEF Flushed
  <2>4. shown = rows \o segment BY <1>2, <1>7 DEF Flushed, InOrder
  <2>5. rows' \o << >> = rows' BY <1>0, ConcatEmptySeq DEF BuffersOK
  <2> QED BY <1>7, <2>3, <2>4, <2>5 DEF Flushed, InOrder
<1>8. CASE EndCall
  <2>1. shown = rows /\ segment = << >> BY <1>0, <1>2, <1>8, <1>e DEF EndCall, SegmentOpen, InOrder
  <2>2. PICK outcome : CallEnds(outcome) BY <1>8, EndCallEffect
  <2>3. shown' = rows' /\ pc' = "calling" /\ segment' = << >> BY <1>8, <2>1, <2>2 DEF EndCall, CallEnds
  <2>4. rows' \o << >> = rows' BY <1>0, ConcatEmptySeq DEF BuffersOK
  <2> QED BY <2>3, <2>4 DEF InOrder
<1>9. CASE EndRound
  <2>1. pc = "calling" /\ pc' \in {"top", "leaving"} /\ UNCHANGED <<shown, rows, segment>>
    BY <1>9 DEF EndRound, Leave
  <2> QED BY <1>2, <2>1 DEF InOrder
<1>10. CASE Named
  <2>1. /\ pc = "naming" /\ pc' = "wrap" /\ UNCHANGED <<shown, sent, rows, segment>>
        /\ sent = << >> /\ shown = rows \o segment
    BY <1>2, <1>10, <1>n DEF Named, InOrder
  <2> QED BY <1>e, <2>1 DEF InOrder
<1>11. CASE StreamFails
  <2>1. pc = "stream" /\ pc' = "failing" /\ UNCHANGED <<rows, segment>> /\ shown = rows \o segment
    BY <1>2, <1>11 DEF StreamFails, InOrder
  <2>2. CASE reason' = "dropped" /\ shown' = shown BY <2>1, <2>2 DEF InOrder
  <2>3. CASE reason' # "dropped" /\ segment # << >> BY <2>1, <2>3 DEF InOrder
  <2>4. CASE /\ segment = << >> /\ shown' = Append(shown, Failed)
             /\ pending' = << PlainRow(<<Failed>>) >>
    <3>1. Len(pending') = 1 /\ pending'[1] = PlainRow(<<Failed>>) BY <2>4
    <3>2. pending'[1].items = <<Failed>> BY <3>1 DEF PlainRow
    <3>3. shown' = rows \o <<Failed>> BY <1>0, <1>e, <2>1, <2>4, TextsAreItems, AppendIsConcat
    <3>4. reason' # "dropped"
      <4>1. pending' # << >> BY <3>1
      <4> QED BY <1>s, <2>1, <4>1 DEF SegmentOpen
    <3> QED BY <2>1, <3>1, <3>2, <3>3, <3>4 DEF InOrder
  <2>5. CASE /\ segment = << >> /\ shown' = shown \o <<Outage, Failed>>
             /\ pending' = << PlainRow(<<Outage>>), PlainRow(<<Failed>>) >>
    <3>1. Len(pending') = 2 /\ pending'[1] = PlainRow(<<Outage>>) /\ pending'[2] = PlainRow(<<Failed>>)
      BY <2>5
    <3>2. pending'[1].items = <<Outage>> /\ pending'[2].items = <<Failed>> BY <3>1 DEF PlainRow
    <3>3. (rows \o <<Outage>>) \o <<Failed>> = rows \o <<Outage, Failed>>
      <4> DEFINE a == rows \o <<Outage>>
      <4>1. <<Outage>> \in Seq(Items) /\ Failed \in Items BY TextsAreItems
      <4>2. a \in Seq(Items) BY <1>0, <4>1, ConcatProperties
      <4>3. Append(a, Failed) = rows \o Append(<<Outage>>, Failed) BY <1>0, <4>1, AppendTwice
      <4>4. Append(<<Outage>>, Failed) = <<Outage, Failed>>
        <5> DEFINE s == Append(<<Outage>>, Failed)
                   t == <<Outage, Failed>>
        <5>1. s \in Seq(Items) /\ Len(s) = 2 /\ s[1] = Outage /\ s[2] = Failed
          BY <4>1, AppendProperties
        <5>2. t \in Seq(Items) /\ Len(t) = 2 /\ t[1] = Outage /\ t[2] = Failed BY <4>1, TextsAreItems
        <5> HIDE DEF s, t
        <5>3. \A i \in 1..Len(s) : s[i] = t[i]
          <6> SUFFICES ASSUME NEW i \in 1..Len(s) PROVE s[i] = t[i] OBVIOUS
          <6>1. i = 1 \/ i = 2 BY <5>1
          <6> QED BY <5>1, <5>2, <6>1
        <5>4. s = t BY <5>1, <5>2, <5>3, SeqEqual
        <5> QED BY <5>4 DEF s, t
      <4> HIDE DEF a
      <4>5. Append(a, Failed) = a \o <<Failed>> BY <4>1, <4>2, AppendIsConcat
      <4> QED BY <4>3, <4>4, <4>5 DEF a
    <3>4. reason' # "dropped"
      <4>1. pending' # << >> BY <3>1
      <4> QED BY <1>s, <2>1, <4>1 DEF SegmentOpen
    <3> QED BY <1>e, <2>1, <2>5, <3>1, <3>2, <3>3, <3>4 DEF InOrder
  <2> QED BY <1>11, <2>2, <2>3, <2>4, <2>5 DEF StreamFails
<1>12. CASE PersistFailure
  <2>1. CASE pending # << >> /\ Persist /\ pending' = Tail(pending) /\ pc' = pc
    <3>1. rows' = rows \o pending[1].items BY <1>w, <2>1
    <3>2. UNCHANGED <<shown, segment, reason>> /\ pc = "failing" BY <1>12 DEF PersistFailure
    <3>3. reason # "dropped" BY <1>0, <2>1, <3>2 DEF SegmentOpen
    <3>4. ASSUME segment = << >>
          PROVE  \/ pending' = << >> /\ shown' = rows'
                 \/ Len(pending') = 1 /\ shown' = rows' \o pending'[1].items
      <4>1. CASE Len(pending) = 1 /\ shown = rows \o pending[1].items
        <5>1. pending' \in Seq(Rows) /\ Len(pending') = 0
          BY <1>0, <2>1, <4>1, HeadTailProperties DEF BuffersOK
        <5> QED BY <3>1, <3>2, <4>1, <5>1, EmptySeq
      <4>2. CASE Len(pending) = 2 /\ shown = (rows \o pending[1].items) \o pending[2].items
        <5>1. Len(pending') = 1 /\ \A i \in 1..Len(pending') : pending'[i] = pending[i + 1]
          BY <1>0, <2>1, <4>2, HeadTailProperties DEF BuffersOK
        <5>2. pending'[1] = pending[1 + 1] BY <5>1
        <5>3. pending'[1] = pending[2] BY <5>2
        <5> QED BY <3>1, <3>2, <4>2, <5>1, <5>3
      <4> QED BY <1>2, <2>1, <3>2, <3>3, <3>4, <4>1, <4>2 DEF InOrder
    <3> QED BY <2>1, <3>2, <3>3, <3>4 DEF InOrder
  <2>2. CASE pending = << >> /\ pc' = "wrap" /\ UNCHANGED <<pending, rows, lost, kept, cut>>
    <3>1. UNCHANGED <<shown, segment, reason>> /\ pc = "failing" BY <1>12 DEF PersistFailure
    <3>2. Len(<< >>) = 0 OBVIOUS
    <3>3. ~Tailed => shown = rows \o segment BY <1>0, <1>2, <1>e, <2>2, <3>1, <3>2 DEF InOrder, Tailed, SegmentOpen
    <3>4. sent' = << >> BY <1>12, <1>n, <3>1 DEF PersistFailure
    <3> QED BY <1>e, <2>2, <3>1, <3>3, <3>4 DEF InOrder, Tailed
  <2> QED BY <1>12, <2>1, <2>2 DEF PersistFailure
<1>13. CASE WrapTurn
  <2>1. /\ UNCHANGED <<shown, sent, rows, segment, reason>> /\ pc = "wrap"
        /\ pc' = "closing" \/ (pc' = "completing" /\ segment = << >>)
    BY <1>0, <1>13, WrapRow DEF WrapTurn
  <2> QED BY <1>2, <1>e, <2>1 DEF InOrder, Tailed
<1>14. CASE CloseTurn
  <2>1. Len(pending) = 1 /\ pending[1].items = segment BY <1>0, <1>2, <1>14 DEF CloseTurn, Queue, SegmentOpen
  <2>2. pending # << >> BY <2>1
  <2>3. rows' = rows \o segment BY <1>14, <1>w, <2>1, <2>2 DEF CloseTurn
  <2> QED BY <1>2, <1>14, <2>3 DEF CloseTurn, InOrder, Tailed
<1>15. CASE Complete BY <1>2, <1>15 DEF Complete, InOrder, Tailed
<1>16. CASE Cancel
  <2>1. pending = << >> /\ UNCHANGED <<rows, shown, sent, segment>> BY <1>16 DEF Cancel
  <2>2. CASE pc' = "killed" BY <2>2 DEF InOrder
  <2>3. CASE pc' = "wrap" /\ pc = "failing" /\ reason' = reason
    <3>1. Len(<< >>) = 0 OBVIOUS
    <3>2. sent = << >> BY <1>n, <2>3
    <3> QED BY <1>0, <1>2, <1>e, <2>1, <2>3, <3>1, <3>2 DEF InOrder, Tailed, SegmentOpen
  <2>4. CASE pc' = "wrap" /\ pc \in Body /\ pc # "failing"
    <3>1. CASE pc = "sending" BY <1>2, <2>1, <2>4, <3>1 DEF InOrder
    <3>2. CASE pc # "sending"
      <4>1. sent = << >> BY <1>n, <2>4, <3>2 DEF Body
      <4>2. shown = rows \o segment
        BY <1>0, <1>2, <1>e, <2>1, <2>4, <3>2 DEF InOrder, Body, SegmentOpen
      <4> QED BY <1>e, <2>1, <2>4, <4>1, <4>2 DEF InOrder
    <3> QED BY <3>1, <3>2
  <2> QED BY <1>16, <2>2, <2>3, <2>4 DEF Cancel
<1> QED BY <1>3, <1>4, <1>5, <1>5a, <1>6, <1>7, <1>8, <1>9, <1>10, <1>11, <1>12, <1>13, <1>14, <1>15, <1>16
        DEF Next, Advance

(* A Case that is opened again replays the turn in the order the client saw it:
   rows are written one segment at a time, between calls whose cards are written by
   others, and still the rows are what was shown, piece by piece, up to a last chunk
   whose send was interrupted.  Only the tail of a failed turn comes after its failure (persist.py, _finalize_segment). *)
THEOREM ReplayKeepsTheOrder == Spec => []ReplayIsTheTurn
<1>1. OrderInv => ReplayIsTheTurn BY DEF OrderInv, InOrder, Tailed, ReplayIsTheTurn, Clean, Ended
<1> QED BY <1>1, TypesInit, TypesStep, OrderInit, OrderStep, PTL DEF Spec
-----------------------------------------------------------------------------
LEMMA MarksInit == Init => MarksInv
BY DEF Init, MarksInv, MarksPlaced

LEMMA MarksPlacedStep == Types /\ MarksPlaced /\ [Next]_vars => MarksPlaced'
<1> SUFFICES ASSUME Types, MarksPlaced, [Next]_vars PROVE MarksPlaced' OBVIOUS
<1> USE DEF vars, shared, told, stored, ghosts
\* Outside the writes of rows and the calls, a turn moves on.
<1>q. ASSUME UNCHANGED <<marked, zoomed, kept>>, pc' \in {"off", "starting"} => pc \in {"off", "starting"},
             \/ pc' = pc
             \/ pc \in {"off", "starting", "top", "stream", "sending", "calling", "leaving", "failing"}
             \/ pc' \in {"naming", "wrap", "done", "killed"} \cup Wrapper
      PROVE  MarksPlaced'
  BY <1>q DEF MarksPlaced, Wrapper
<1>1. CASE Launch \/ Begin BY <1>1, <1>q DEF Launch, Begin
<1>2. CASE NextRound \/ Say \/ Buffer \/ SayBlank \/ Answer
  <2>1. /\ UNCHANGED <<marked, zoomed, kept>> /\ pc \in {"top", "stream", "sending"}
        /\ pc' \in {"top", "stream", "sending", "leaving"}
    BY <1>2 DEF NextRound, Say, SendChunk, Buffer, SayBlank, Answer, Leave
  <2> QED BY <1>q, <2>1
<1>3. CASE CallTools \/ AfterLoop
  <2>1. /\ UNCHANGED <<marked, zoomed, kept>> /\ pc \in {"stream", "leaving"}
        /\ pc' \in {"flush", "calling", "finishing"}
    BY <1>3 DEF CallTools, AfterLoop, Finalize
  <2> QED BY <1>q, <2>1
<1>4. CASE Flushed
  <2>1. /\ pc = "flush" /\ marked' = (marked \/ reason # "none")
        /\ pc' = IF reason = "none" THEN "calling" ELSE "finishing"
    BY <1>4 DEF Flushed
  <2> QED BY <2>1 DEF MarksPlaced, Wrapper
<1>5. CASE EndCall BY <1>5 DEF EndCall, MarksPlaced, Wrapper
<1>6. CASE EndRound
  <2>1. UNCHANGED <<marked, zoomed, kept>> /\ pc = "calling" /\ pc' \in {"top", "leaving"}
    BY <1>6 DEF EndRound, Leave
  <2> QED BY <1>q, <2>1
<1>7. CASE Finish \/ Named \/ Complete BY <1>7, <1>q DEF Finish, Named, Complete
<1>8. CASE StreamFails BY <1>8, <1>q DEF StreamFails
<1>9. CASE PersistFailure \/ WrapTurn \/ CloseTurn \/ Cancel
  <2>1. /\ UNCHANGED <<marked, zoomed>> /\ pc' \notin {"off", "starting"}
        /\ (pc' = pc) \/ pc' \in {"naming", "wrap", "done", "killed"} \cup Wrapper
    BY <1>9 DEF PersistFailure, WrapTurn, CloseTurn, Cancel, Wrapper
  <2> QED BY <2>1 DEF MarksPlaced, Wrapper
<1>10. CASE Neighbour BY <1>10, <1>q DEF Neighbour
<1>11. CASE UNCHANGED vars BY <1>11, <1>q
<1> QED BY <1>1, <1>2, <1>3, <1>4, <1>5, <1>6, <1>7, <1>8, <1>9, <1>10, <1>11 DEF Next, Advance

LEMMA MarksStep == Types /\ Types' /\ MarksInv /\ [Next]_vars => MarksInv'
<1> SUFFICES ASSUME Types, Types', MarksInv, [Next]_vars PROVE MarksInv' OBVIOUS
<1> USE DEF vars, shared, told, stored, ghosts
<1>0. /\ FlagsOK /\ FlagsOK' /\ BuffersOK /\ Queue /\ Queue' /\ BelowBounds /\ MarksPlaced
      /\ pending \in Seq(Rows) /\ kept \in [zooms : SUBSET {"own", "other"}, note : Whose]
  BY DEF Types, BaseTypes, MarksInv, BuffersOK
<1>p. MarksPlaced' BY MarksPlacedStep DEF MarksInv
<1> SUFFICES ASSUME begun', ~cut', others' = 0 PROVE OwnMarks' BY <1>p DEF MarksInv
<1>1. CASE Begin
  BY <1>0, <1>1 DEF Begin, MarksPlaced, OwnMarks, BelowBounds, InLoop, Wrapper
<1> SUFFICES ASSUME ~Begin PROVE OwnMarks' BY <1>1
<1>2. begun /\ ~cut /\ others = 0 /\ ~Neighbour /\ OwnMarks
  <2>1. ~Neighbour
    <3>1. others \in Nat BY <1>0, Constants DEF FlagsOK
    <3>2. Neighbour => others' = others + 1 BY DEF Neighbour
    <3> QED BY <3>1, <3>2
  <2>2. UNCHANGED <<begun, others>>
    BY <2>1 DEF Next, Advance, Launch, NextRound, Say, Buffer, SayBlank, Answer, CallTools, Flushed, EndCall, EndRound,
           AfterLoop, Finish, Named, StreamFails, PersistFailure, WrapTurn, CloseTurn, Complete, Cancel
  <2>3. cut' \in {cut, TRUE}
    BY <1>0 DEF Next, Advance, Launch, NextRound, Say, Buffer, SayBlank, Answer, CallTools, Flushed, EndCall, EndRound,
           AfterLoop, Finish, Named, StreamFails, PersistFailure, WrapTurn, CloseTurn, Complete, Cancel,
           Neighbour, Persist, FlagsOK
  <2> QED BY <1>0, <2>1, <2>2, <2>3 DEF MarksInv, FlagsOK
\* A write that is not lost leaves the marks of its row.
<1>w. ASSUME pending # << >>, Persist
      PROVE  /\ kept'.zooms = kept.zooms \cup pending[1].zooms
             /\ kept'.note = IF pending[1].note = "nobody" THEN kept.note ELSE pending[1].note
  BY <1>w DEF Persist, Lands
<1>3. CASE Launch
  <2>1. pc = "off" /\ pc' = "starting" /\ ~zoomed' /\ UNCHANGED <<reason, note, kept, pending, marked>>
    BY <1>0, <1>3 DEF Launch, MarksPlaced
  <2> QED BY <1>2, <2>1 DEF OwnMarks, Wrapper
\* A step within the loop that writes nothing.
<1>q. ASSUME UNCHANGED <<zooms, zoomed, marked, kept, note>>, reason' # "context",
             pc \in {"top", "stream", "sending", "calling", "leaving", "finishing"},
             pc' \in {"top", "stream", "sending", "calling", "leaving", "finishing", "naming"}
      PROVE  OwnMarks'
  BY <1>2, <1>q DEF OwnMarks, Wrapper
<1>r. pc \in {"top", "stream", "sending", "calling", "leaving", "finishing"} => reason # "context"
  BY <1>2 DEF OwnMarks, Wrapper
<1>4. CASE NextRound \/ Say \/ Buffer \/ SayBlank \/ Answer \/ EndRound \/ Finish
  <2>1. /\ UNCHANGED <<zooms, zoomed, marked, kept, note>>
        /\ pc \in {"top", "stream", "sending", "calling", "leaving", "finishing"}
        /\ pc' \in {"top", "stream", "sending", "calling", "leaving", "finishing", "naming"}
        /\ reason' \in {reason, "cap", "clock", "answer", "loop", "crisp"}
    BY <1>4 DEF NextRound, Say, SendChunk, Buffer, SayBlank, Answer, EndRound, Finish, Leave
  <2> QED BY <1>q, <1>r, <2>1
<1>5. CASE CallTools \/ AfterLoop
  <2>1. /\ UNCHANGED <<zooms, zoomed, marked, kept, note, reason>> /\ pc \in {"stream", "leaving"}
        /\ pc = "stream" => reason = "none"
    BY <1>0, <1>5 DEF CallTools, AfterLoop, BelowBounds, InLoop
  <2>2. \/ pc' \in {"calling", "finishing"}
        \/ /\ pc' = "flush" /\ pending'[1].note = "nobody"
           /\ pc = "leaving" => pending'[1].zooms = zooms
    <3>1. pending = << >> BY <1>0, <2>1 DEF Queue
    <3>2. CASE Finalize(FALSE, "calling") /\ pc = "stream" BY <1>0, <3>1, <3>2, FinalizeTypes DEF FlagsOK
    <3>3. CASE Finalize(TRUE, "finishing") BY <1>0, <3>1, <3>3, FinalizeTypes DEF FlagsOK
    <3> QED BY <1>5, <3>2, <3>3 DEF CallTools, AfterLoop
  <2>3. CASE pc' \in {"calling", "finishing"} BY <1>q, <1>r, <2>1, <2>3
  <2>4. CASE pc' = "flush" /\ pending'[1].note = "nobody" /\ (pc = "leaving" => pending'[1].zooms = zooms)
    BY <1>0, <1>2, <2>1, <2>4 DEF OwnMarks, Wrapper, MarksPlaced
  <2> QED BY <2>2, <2>3, <2>4
<1>6. CASE Flushed
  <2>1. Len(pending) = 1 BY <1>0, <1>6 DEF Flushed, Queue
  <2>2. pending # << >> BY <2>1
  <2>3. /\ kept'.zooms = kept.zooms \cup pending[1].zooms
        /\ kept'.note = IF pending[1].note = "nobody" THEN kept.note ELSE pending[1].note
    BY <1>6, <1>w, <2>2 DEF Flushed
  <2>4. /\ pc = "flush" /\ pc' \in {"calling", "finishing"} /\ UNCHANGED <<zooms, zoomed, note, reason>>
        /\ marked' = (marked \/ reason # "none")
    BY <1>6 DEF Flushed
  <2> QED BY <1>0, <1>2, <2>3, <2>4 DEF OwnMarks, Wrapper, MarksPlaced
<1>7. CASE EndCall
  <2>1. PICK outcome : CallEnds(outcome) BY <1>7, EndCallEffect
  <2>2. pc = "calling" /\ UNCHANGED <<pc, reason, note, pending, kept, marked>> BY <1>7 DEF EndCall
  <2>3. ~marked BY <1>0, <2>2 DEF MarksPlaced, Wrapper
  <2>4. zoomed' => "own" \in zooms' BY <1>2, <2>1 DEF CallEnds, OwnMarks
  <2> QED BY <1>2, <2>2, <2>3, <2>4 DEF OwnMarks, Wrapper
<1>8. CASE Named BY <1>2, <1>8 DEF Named, OwnMarks, NoteDue, Wrapper
<1>9. CASE StreamFails
  <2>1. /\ pc = "stream" /\ pc' = "failing" /\ UNCHANGED <<zooms, zoomed, marked, kept>>
        /\ note' = IF reason' = "context" THEN "own" ELSE "nobody"
    BY <1>2, <1>9 DEF StreamFails, OwnMarks, Wrapper
  <2>2. \A i \in 1..Len(pending') : pending'[i].note = "nobody"
    <3>1. PlainRow(<<Failed>>).note = "nobody" /\ PlainRow(<<Outage>>).note = "nobody" BY DEF PlainRow
    <3>2. pending = << >> BY <1>0, <2>1 DEF Queue
    <3>3. \/ pending' = << PlainRow(<<Failed>>) >>
          \/ pending' = << PlainRow(<<Outage>>), PlainRow(<<Failed>>) >>
          \/ pending' = << >>
      BY <1>9, <3>2 DEF StreamFails
    <3>4. \A i \in 1..Len(pending') : pending'[i] \in {PlainRow(<<Failed>>), PlainRow(<<Outage>>)}
      BY <3>3
    <3> QED BY <3>1, <3>4
  <2> QED BY <1>0, <1>2, <2>1, <2>2 DEF OwnMarks, NoteDue, Wrapper, MarksPlaced
<1>10. CASE PersistFailure
  <2>0. pc = "failing" /\ UNCHANGED <<reason, zooms, zoomed, marked, note>> BY <1>10 DEF PersistFailure
  <2>1. CASE pending # << >> /\ Persist /\ pending' = Tail(pending) /\ pc' = pc
    <3>1. /\ 1 \in 1..Len(pending)
          /\ \A i \in 1..Len(pending') : i + 1 \in 1..Len(pending) /\ pending'[i] = pending[i + 1]
      BY <1>0, <2>1, HeadTailProperties
    <3>2. pending[1].note = "nobody" /\ \A i \in 1..Len(pending') : pending'[i].note = "nobody"
      BY <1>2, <2>0, <3>1 DEF OwnMarks
    <3>3. kept'.note = kept.note /\ kept.zooms \subseteq kept'.zooms BY <1>w, <2>1, <3>2
    <3> QED BY <1>2, <2>0, <2>1, <3>2, <3>3 DEF OwnMarks, NoteDue, Wrapper
  <2>2. CASE pc' = "wrap" /\ UNCHANGED kept BY <1>2, <2>0, <2>2 DEF OwnMarks, NoteDue, Wrapper
  <2> QED BY <1>10, <2>1, <2>2 DEF PersistFailure
<1>11. CASE WrapTurn
  <2>0. /\ pc = "wrap" /\ UNCHANGED <<reason, segment, segments, marked, zooms, zoomed, kept>>
        /\ note = NoteDue
    BY <1>2, <1>11 DEF WrapTurn, OwnMarks
  <2>1. CASE /\ pc' = "completing" /\ segment = << >>
             /\ segments \/ note = "nobody"
             /\ marked \/ zooms = {}
    BY <1>2, <2>0, <2>1 DEF OwnMarks, NoteDue, NoteKept, Wrapper
  <2>2. ASSUME NEW row \in Rows, pending' = << row >>, pc' = "closing", row.zooms = zooms,
               row.note = IF segments /\ segment = << >> THEN "nobody" ELSE note
        PROVE  OwnMarks'
    <3>1. pending'[1] = row BY <2>2
    <3>2. row.note = NoteKept' BY <2>0, <2>2 DEF NoteDue, NoteKept
    <3> QED BY <1>2, <2>0, <2>2, <3>1, <3>2 DEF OwnMarks, Wrapper
  <2> QED BY <1>0, <1>11, <2>1, <2>2, WrapRow
<1>12. CASE CloseTurn
  <2>1. Len(pending) = 1 BY <1>0, <1>12 DEF CloseTurn, Queue
  <2>2. pending # << >> BY <2>1
  <2>3. /\ kept'.zooms = kept.zooms \cup pending[1].zooms
        /\ kept'.note = IF pending[1].note = "nobody" THEN kept.note ELSE pending[1].note
    BY <1>12, <1>w, <2>2 DEF CloseTurn
  <2>4. /\ pc = "closing" /\ pc' = "completing"
        /\ UNCHANGED <<zooms, zoomed, note, reason, segment, segments, marked>>
    BY <1>12 DEF CloseTurn
  <2> QED BY <1>2, <2>3, <2>4 DEF OwnMarks, Wrapper, NoteKept
<1>13. CASE Complete BY <1>2, <1>13 DEF Complete, OwnMarks, NoteKept, Wrapper
<1>14. CASE Cancel
  <2>1. UNCHANGED <<rows, kept, zooms, zoomed, marked, note, segment, segments>> /\ pending = << >>
    BY <1>14 DEF Cancel
  <2>2. CASE pc' = "killed" BY <1>0, <1>2, <1>14, <2>1, <2>2 DEF Cancel, OwnMarks, Wrapper
  <2>3. CASE pc' = "wrap" /\ pc \in Body /\ reason' = IF pc = "failing" THEN reason ELSE "stopped"
    BY <1>2, <2>1, <2>3 DEF OwnMarks, Wrapper, Body, NoteDue
  <2> QED BY <1>14, <2>2, <2>3 DEF Cancel
<1>15. CASE UNCHANGED vars BY <1>2, <1>15 DEF OwnMarks, NoteDue, NoteKept
<1> QED BY <1>2, <1>3, <1>4, <1>5, <1>6, <1>7, <1>8, <1>9, <1>10, <1>11, <1>12, <1>13, <1>14, <1>15
        DEF Next, Advance

(* A turn that had the connection's fields to itself persists a row that carries its
   zoom-to, and the note on a full context window is on a row of its own turn and of
   no other, however the turn ended (stream.py, the finally of
   _dispatch_model_turn_and_persist). *)
THEOREM MarksAreKept == Spec => []MarksOnItsTurn
<1>1. MarksInv => MarksOnItsTurn BY DEF MarksInv, OwnMarks, NoteKept, MarksOnItsTurn, Clean, Ended
<1> QED BY <1>1, TypesInit, TypesStep, MarksInit, MarksStep, PTL DEF Spec
-----------------------------------------------------------------------------
\* The entries of the log after a step.
NewBack(i) == log'[Len(log') - i + 1]

LEMMA Extremes ==
    ASSUME NEW a \in Nat, NEW b \in Nat
    PROVE  /\ Max({a, b}) = IF a >= b THEN a ELSE b
           /\ Min({a, b}) = IF a <= b THEN a ELSE b
<1> DEFINE hi == IF a >= b THEN a ELSE b
           lo == IF a <= b THEN a ELSE b
<1>1. hi \in {a, b} /\ \A y \in {a, b} : hi >= y OBVIOUS
<1>2. \A x \in {a, b} : (\A y \in {a, b} : x >= y) => x = hi OBVIOUS
<1>3. lo \in {a, b} /\ \A y \in {a, b} : lo <= y OBVIOUS
<1>4. \A x \in {a, b} : (\A y \in {a, b} : x <= y) => x = lo OBVIOUS
<1> HIDE DEF hi, lo
<1>5. Max({a, b}) = hi BY <1>1, <1>2 DEF Max
<1>6. Min({a, b}) = lo BY <1>3, <1>4 DEF Min
<1> QED BY <1>5, <1>6 DEF hi, lo

\* The log after a round: the new entry first, counted from the end, and the others one further back.
LEMMA NewLog ==
    ASSUME log \in Seq(Entries), Len(log) <= Window, NEW e \in Entries, log' = Latest(Append(log, e))
    PROVE  /\ log' \in Seq(Entries) /\ Len(log') <= Window
           /\ Len(log') = IF Len(log) < Window THEN Len(log) + 1 ELSE Window
           /\ NewBack(1) = e
           /\ \A i \in 2..Len(log') : NewBack(i) = Back(i - 1)
<1> DEFINE s == Append(log, e)
           m == IF Len(log) < Window THEN Len(log) + 1 ELSE Window
<1>0. Window \in Nat /\ Window > 0 /\ Len(log) \in Nat BY Constants DEF Window
<1>1. /\ s \in Seq(Entries) /\ Len(s) = Len(log) + 1 /\ s[Len(log) + 1] = e
      /\ \A i \in 1..Len(log) : s[i] = log[i]
  BY AppendProperties
<1> HIDE DEF s
<1>2. m \in 1..Len(s) /\ m <= Window /\ m <= Len(log) + 1 BY <1>0, <1>1
<1>3. Min({Len(s), Max({RepeatN, WrapUp})}) = m
  <2>1. Max({RepeatN, WrapUp}) = Window BY Extremes, Constants DEF Window
  <2>2. Len(s) \in Nat BY <1>0, <1>1
  <2>3. Min({Len(s), Window}) = IF Len(s) <= Window THEN Len(s) ELSE Window BY <1>0, <2>2, Extremes
  <2>4. (IF Len(s) <= Window THEN Len(s) ELSE Window) = m BY <1>0, <1>1
  <2> QED BY <2>1, <2>3, <2>4
<1> HIDE DEF m
<1>4. log' = SubSeq(s, Len(s) - m + 1, Len(s)) BY <1>3 DEF Latest, s
<1>5. /\ log' \in Seq(Entries) /\ Len(log') = m
      /\ \A i \in 1..m : log'[i] = s[Len(s) - m + i]
  <2> DEFINE a == Len(s) - m + 1
             b == Len(s)
  <2>1. a \in 1..(Len(s) + 1) /\ b \in (a - 1)..Len(s) /\ a <= b /\ b - a + 1 = m
        /\ \A i \in 1..m : a + i - 1 = Len(s) - m + i
    BY <1>0, <1>1, <1>2
  <2> HIDE DEF a, b
  <2>2. /\ SubSeq(s, a, b) \in Seq(Entries)
        /\ Len(SubSeq(s, a, b)) = b - a + 1
        /\ \A i \in 1..(b - a + 1) : SubSeq(s, a, b)[i] = s[a + i - 1]
    BY <1>1, <2>1, SubSeqProperties
  <2>3. log' = SubSeq(s, a, b) BY <1>4 DEF a, b
  <2> QED BY <2>1, <2>2, <2>3
<1>6. NewBack(1) = e
  <2>1. m \in 1..m /\ Len(log') - 1 + 1 = m /\ Len(s) - m + m = Len(log) + 1 BY <1>0, <1>1, <1>2, <1>5
  <2> QED BY <1>1, <1>5, <2>1 DEF Back, NewBack
<1>7. ASSUME NEW i \in 2..m PROVE NewBack(i) = Back(i - 1)
  <2>1. /\ m - i + 1 \in 1..m /\ Len(s) - m + (m - i + 1) = Len(log) - (i - 1) + 1
        /\ Len(log) - (i - 1) + 1 \in 1..Len(log)
    BY <1>0, <1>1, <1>2
  <2>2. NewBack(i) = log'[m - i + 1] /\ Back(i - 1) = log[Len(log) - (i - 1) + 1] BY <1>5 DEF Back, NewBack
  <2> QED BY <1>1, <1>5, <2>1, <2>2
<1> QED BY <1>2, <1>5, <1>6, <1>7 DEF m

LEMMA LastRoundsAre ==
    ASSUME log \in Seq(Entries), NEW n \in 1..Len(log), NEW i \in 1..n
    PROVE  LastRounds(n)[i] = Back(n - i + 1)
<1> DEFINE a == Len(log) - n + 1
           b == Len(log)
<1>1. Len(log) \in Nat OBVIOUS
<1>2. /\ a \in 1..(Len(log) + 1) /\ b \in (a - 1)..Len(log) /\ i \in 1..(b - a + 1)
      /\ a + i - 1 = Len(log) - (n - i + 1) + 1
  BY <1>1
<1> HIDE DEF a, b
<1>3. SubSeq(log, a, b)[i] = log[a + i - 1] BY <1>2, SubSeqProperties
<1> QED BY <1>2, <1>3 DEF LastRounds, Back, a, b

\* The properties' windows, counted from the end of the log.
WindowsCounted ==
    log \in Seq(Entries) =>
        /\ Looping <=> /\ Len(log) >= RepeatN
                       /\ \A i \in 1..RepeatN : Back(i).sig = Back(1).sig /\ ~Back(i).progressed
        /\ Idling <=> /\ Len(log) >= WrapUp
                      /\ \A i \in 1..WrapUp : Back(i).delivered /\ ~Back(i).made

LEMMA WindowsAre == WindowsCounted
<1> SUFFICES ASSUME log \in Seq(Entries)
             PROVE  /\ Looping <=> /\ Len(log) >= RepeatN
                                   /\ \A i \in 1..RepeatN : Back(i).sig = Back(1).sig /\ ~Back(i).progressed
                    /\ Idling <=> /\ Len(log) >= WrapUp
                                  /\ \A i \in 1..WrapUp : Back(i).delivered /\ ~Back(i).made
  BY DEF WindowsCounted
<1>0. Len(log) \in Nat OBVIOUS
<1>1. ASSUME Len(log) >= RepeatN
      PROVE  /\ \A i \in 1..RepeatN : LastRounds(RepeatN)[i] = Back(RepeatN - i + 1)
             /\ LastRounds(1)[1] = Back(1)
  <2>1. RepeatN \in 1..Len(log) /\ 1 \in 1..Len(log) /\ 1 \in 1..1 /\ 1 - 1 + 1 = 1 BY <1>0, <1>1, Constants
  <2>2. LastRounds(1)[1] = Back(1 - 1 + 1) BY <2>1, LastRoundsAre
  <2> QED BY <2>1, <2>2, LastRoundsAre
<1>2. ASSUME Len(log) >= WrapUp
      PROVE  \A i \in 1..WrapUp : LastRounds(WrapUp)[i] = Back(WrapUp - i + 1)
  <2>1. WrapUp \in 1..Len(log) BY <1>0, <1>2, Constants
  <2> QED BY <2>1, LastRoundsAre
<1>3. ASSUME NEW n \in Nat
      PROVE  \A i \in 1..n : n - i + 1 \in 1..n /\ n - (n - i + 1) + 1 = i
  OBVIOUS
<1>4. ASSUME Len(log) >= RepeatN
      PROVE  (\A i \in 1..RepeatN : LastRounds(RepeatN)[i].sig = LastRounds(1)[1].sig
                                     /\ ~LastRounds(RepeatN)[i].progressed)
             <=> \A i \in 1..RepeatN : Back(i).sig = Back(1).sig /\ ~Back(i).progressed
  <2>1. ASSUME \A i \in 1..RepeatN : LastRounds(RepeatN)[i].sig = LastRounds(1)[1].sig
                                      /\ ~LastRounds(RepeatN)[i].progressed,
               NEW i \in 1..RepeatN
        PROVE  Back(i).sig = Back(1).sig /\ ~Back(i).progressed
    <3> DEFINE j == RepeatN - i + 1
    <3>1. j \in 1..RepeatN /\ RepeatN - j + 1 = i BY Constants
    <3> HIDE DEF j
    <3>2. LastRounds(RepeatN)[j] = Back(i) BY <1>1, <1>4, <3>1
    <3> QED BY <1>1, <1>4, <2>1, <3>1, <3>2
  <2>2. ASSUME \A i \in 1..RepeatN : Back(i).sig = Back(1).sig /\ ~Back(i).progressed,
               NEW i \in 1..RepeatN
        PROVE  LastRounds(RepeatN)[i].sig = LastRounds(1)[1].sig /\ ~LastRounds(RepeatN)[i].progressed
    <3>1. RepeatN - i + 1 \in 1..RepeatN BY Constants
    <3> QED BY <1>1, <1>4, <2>2, <3>1
  <2> QED BY <2>1, <2>2
<1>5. ASSUME Len(log) >= WrapUp
      PROVE  (\A i \in 1..WrapUp : LastRounds(WrapUp)[i].delivered /\ ~LastRounds(WrapUp)[i].made)
             <=> \A i \in 1..WrapUp : Back(i).delivered /\ ~Back(i).made
  <2>1. ASSUME \A i \in 1..WrapUp : LastRounds(WrapUp)[i].delivered /\ ~LastRounds(WrapUp)[i].made,
               NEW i \in 1..WrapUp
        PROVE  Back(i).delivered /\ ~Back(i).made
    <3> DEFINE j == WrapUp - i + 1
    <3>1. j \in 1..WrapUp /\ WrapUp - j + 1 = i BY Constants
    <3> HIDE DEF j
    <3>2. LastRounds(WrapUp)[j] = Back(i) BY <1>2, <1>5, <3>1
    <3> QED BY <2>1, <3>1, <3>2
  <2>2. ASSUME \A i \in 1..WrapUp : Back(i).delivered /\ ~Back(i).made, NEW i \in 1..WrapUp
        PROVE  LastRounds(WrapUp)[i].delivered /\ ~LastRounds(WrapUp)[i].made
    <3>1. WrapUp - i + 1 \in 1..WrapUp BY Constants
    <3> QED BY <1>2, <1>5, <2>2, <3>1
  <2> QED BY <2>1, <2>2
<1> QED BY <1>4, <1>5 DEF Looping, Idling

LEMMA WindowsAreNext == WindowsCounted'
BY WindowsAre, PTL

LEMMA LogInit == Init => LogInv
<1> SUFFICES ASSUME Init PROVE LogInv OBVIOUS
<1>1. log = << >> /\ guard.repeats = 0 /\ guard.idle = 0 /\ reason = "none" /\ pc = "off" BY DEF Init
<1>2. << >> \in Seq(Entries) /\ Len(<< >>) = 0 OBVIOUS
<1>3. Window \in Nat BY Constants DEF Window
<1>4. RepeatsInv /\ IdleInv BY <1>1, <1>2 DEF RepeatsInv, IdleInv
<1> QED BY <1>1, <1>2, <1>3, <1>4 DEF LogInv

\* What the end of a round does to the counters.
LEMMA CountersStep ==
    ASSUME Types, LogInv, EndRound
    PROVE  /\ log' \in Seq(Entries) /\ Len(log') <= Window /\ RepeatsInv'
           /\ reason' # "loop" => IdleInv'
           /\ reason' = "loop" => guard'.repeats >= RepeatN
           /\ reason' = "crisp" => guard'.idle >= WrapUp
<1> DEFINE progressed == round.made \/ (round.bad /\ ~round.good)
           watched == RecordRound(progressed)
           counted == CountIdle(watched)
           e == [sig |-> round.sig, progressed |-> progressed, made |-> round.made,
                 delivered |-> guard.delivered]
<1>0. /\ pc = "calling" /\ reason = "none" /\ guard \in Guards /\ RoundOK
      /\ guard.repeats \in Nat /\ guard.repeats < RepeatN /\ guard.idle \in Nat /\ guard.idle < WrapUp
  BY Constants DEF EndRound, Types, BaseTypes, BelowBounds, InLoop, Guards
<1>1. log \in Seq(Entries) /\ Len(log) <= Window /\ Len(log) \in Nat /\ RepeatsInv /\ IdleInv /\ round.sig \in Rounds
  BY <1>0 DEF LogInv, InLoop
<1>2. /\ Window \in Nat /\ Window > 0 /\ RepeatN <= Window /\ WrapUp <= Window
      /\ RepeatN \in Nat /\ WrapUp \in Nat
  BY Constants DEF Window
<1>3. e \in Entries BY <1>0, <1>1 DEF Entries, RoundOK, Guards
<1>4. /\ log' = Latest(Append(log, e))
      /\ \/ watched.repeats >= RepeatN /\ reason' = "loop" /\ guard' = watched
         \/ guard' = counted /\ counted.delivered /\ counted.idle >= WrapUp /\ reason' = "crisp"
         \/ guard' = counted /\ reason' = "none"
  BY <1>0 DEF EndRound, Leave
<1>5. /\ log' \in Seq(Entries) /\ Len(log') <= Window /\ Len(log') \in Nat
      /\ Len(log') = IF Len(log) < Window THEN Len(log) + 1 ELSE Window
      /\ NewBack(1) = e /\ \A i \in 2..Len(log') : NewBack(i) = Back(i - 1)
  <2> HIDE DEF e
  <2>1. Len(log') = IF Len(log) < Window THEN Len(log) + 1 ELSE Window BY <1>1, <1>3, <1>4, NewLog
  <2> QED BY <1>1, <1>2, <1>3, <1>4, <2>1, NewLog
<1>6. /\ e.sig = round.sig /\ (e.progressed <=> progressed) /\ e.made = round.made
      /\ e.delivered = guard.delivered
  OBVIOUS
<1>7. /\ watched.idle = guard.idle /\ watched.delivered = guard.delivered
      /\ \/ progressed /\ watched.repeats = 0
         \/ /\ ~progressed /\ guard.last = round.sig
            /\ watched.last = round.sig /\ watched.repeats = guard.repeats + 1
         \/ /\ ~progressed /\ guard.last # round.sig
            /\ watched.last = round.sig /\ watched.repeats = 1
  BY <1>0 DEF RecordRound, Guards
<1>8. watched \in [steps : Nat, retries : Nat, nudged : BOOLEAN, tools : SUBSET Tools,
                   last : Rounds \cup {NoSig}, repeats : Nat, delivered : BOOLEAN, idle : Nat]
  <2> DEFINE G == [steps : Nat, retries : Nat, nudged : BOOLEAN, tools : SUBSET Tools,
                   last : Rounds \cup {NoSig}, repeats : Nat, delivered : BOOLEAN, idle : Nat]
  <2>1. guard \in G BY <1>0, Constants DEF Guards
  <2>a. [guard EXCEPT !.last = NoSig, !.repeats = 0] \in G BY <2>1
  <2>b. [guard EXCEPT !.repeats = guard.repeats + 1] \in G BY <2>1
  <2>c. [guard EXCEPT !.last = round.sig, !.repeats = 1] \in G BY <1>1, <2>1
  <2>3. watched \in {[guard EXCEPT !.last = NoSig, !.repeats = 0],
                     [guard EXCEPT !.repeats = guard.repeats + 1],
                     [guard EXCEPT !.last = round.sig, !.repeats = 1]}
    BY <1>0 DEF RecordRound, Guards
  <2> HIDE DEF G, watched
  <2>4. watched \in G BY <2>a, <2>b, <2>c, <2>3
  <2> QED BY <2>4 DEF G
<1> HIDE DEF e, watched, progressed
<1>9. /\ counted.repeats = watched.repeats /\ counted.last = watched.last
      /\ counted.delivered = guard.delivered
      /\ \/ ~guard.delivered /\ counted.idle = guard.idle
         \/ guard.delivered /\ round.made /\ counted.idle = 0
         \/ guard.delivered /\ ~round.made /\ counted.idle = guard.idle + 1
  BY <1>7, <1>8 DEF CountIdle
<1> HIDE DEF counted
<1>10. RepeatsInv'
  <2>1. guard'.repeats = watched.repeats /\ guard'.last = watched.last BY <1>4, <1>9
  <2> DEFINE k == guard'.repeats
  <2>2. SUFFICES /\ k <= Len(log')
                 /\ \A i \in 1..k : NewBack(i).sig = guard'.last /\ ~NewBack(i).progressed
                 /\ k < Len(log') => NewBack(k + 1).progressed \/ NewBack(k + 1).sig # guard'.last
                 /\ k = 0 /\ Len(log') > 0 => NewBack(1).progressed
    BY DEF RepeatsInv, Back, NewBack
  <2>3. CASE progressed /\ watched.repeats = 0
    <3>0. e.progressed BY <1>6, <2>3
    <3>1. k = 0 /\ NewBack(1).progressed /\ k + 1 = 1 BY <1>5, <2>1, <2>3, <3>0
    <3> HIDE DEF k
    <3> QED BY <1>5, <3>1
  <2>4. CASE /\ ~progressed /\ guard.last = round.sig
             /\ watched.last = round.sig /\ watched.repeats = guard.repeats + 1
    <3>1. k = guard.repeats + 1 /\ guard'.last = round.sig BY <2>1, <2>4
    <3> HIDE DEF k
    <3>2. k <= Len(log') BY <1>0, <1>1, <1>2, <1>5, <3>1 DEF RepeatsInv
    <3>3. ASSUME NEW i \in 1..k PROVE NewBack(i).sig = guard'.last /\ ~NewBack(i).progressed
      <4>1. CASE i = 1 BY <1>5, <1>6, <2>4, <3>1, <4>1
      <4>2. CASE i > 1
        <5>1. i \in 2..Len(log') /\ i - 1 \in 1..guard.repeats BY <1>0, <1>5, <3>1, <3>2, <4>2
        <5> QED BY <1>1, <1>5, <2>4, <3>1, <5>1 DEF RepeatsInv
      <4> QED BY <4>1, <4>2
    <3>4. ASSUME k < Len(log') PROVE NewBack(k + 1).progressed \/ NewBack(k + 1).sig # guard'.last
      <4>1. k + 1 \in 2..Len(log') /\ (k + 1) - 1 = guard.repeats + 1 /\ guard.repeats < Len(log)
        BY <1>0, <1>1, <1>5, <3>1, <3>4
      <4>2. NewBack(k + 1) = Back(guard.repeats + 1) BY <1>5, <4>1
      <4> QED BY <1>1, <2>4, <3>1, <4>1, <4>2 DEF RepeatsInv
    <3> QED BY <1>0, <3>1, <3>2, <3>3, <3>4
  <2>5. CASE /\ ~progressed /\ guard.last # round.sig
             /\ watched.last = round.sig /\ watched.repeats = 1
    <3>1. k = 1 /\ guard'.last = round.sig BY <2>1, <2>5
    <3> HIDE DEF k
    <3>2. k <= Len(log') BY <1>1, <1>2, <1>5, <3>1
    <3>3. \A i \in 1..k : NewBack(i).sig = guard'.last /\ ~NewBack(i).progressed
      <4>1. \A i \in 1..k : i = 1 BY <3>1
      <4> QED BY <1>5, <1>6, <2>5, <3>1, <4>1
    <3>4. ASSUME k < Len(log') PROVE NewBack(k + 1).progressed \/ NewBack(k + 1).sig # guard'.last
      <4>1. k + 1 = 2 /\ 2 \in 2..Len(log') /\ 2 - 1 = 1 /\ Len(log) > 0 BY <1>1, <1>5, <3>1, <3>4
      <4>2. NewBack(k + 1) = Back(1) BY <1>5, <4>1
      <4>3. CASE guard.repeats = 0 BY <1>1, <4>1, <4>2, <4>3 DEF RepeatsInv
      <4>4. CASE guard.repeats > 0
        <5>1. 1 \in 1..guard.repeats BY <1>0, <4>4
        <5> QED BY <1>1, <2>5, <3>1, <4>2, <5>1 DEF RepeatsInv
      <4> QED BY <1>0, <4>3, <4>4
    <3> QED BY <3>1, <3>2, <3>3, <3>4
  <2> QED BY <1>7, <2>3, <2>4, <2>5
<1>11. ASSUME guard' = counted PROVE IdleInv'
  <2> DEFINE k == guard'.idle
  <2>1. SUFFICES /\ k <= Len(log') /\ (~guard'.delivered => k = 0)
                 /\ \A i \in 1..k : NewBack(i).delivered /\ ~NewBack(i).made
                 /\ k < Len(log') => ~NewBack(k + 1).delivered \/ NewBack(k + 1).made
    BY DEF IdleInv, Back, NewBack
  <2>2. CASE ~guard.delivered \/ round.made
    <3>1. k = 0 /\ (guard'.delivered <=> guard.delivered)
      BY <1>0, <1>1, <1>9, <1>11, <2>2 DEF IdleInv
    <3> HIDE DEF k
    <3>2. k + 1 = 1 /\ (~NewBack(1).delivered \/ NewBack(1).made) BY <1>5, <1>6, <2>2, <3>1
    <3> QED BY <1>5, <3>1, <3>2
  <2>3. CASE guard.delivered /\ ~round.made
    <3>1. k = guard.idle + 1 /\ guard'.delivered BY <1>9, <1>11, <2>3
    <3> HIDE DEF k
    <3>2. k <= Len(log') BY <1>0, <1>1, <1>2, <1>5, <3>1 DEF IdleInv
    <3>3. ASSUME NEW i \in 1..k PROVE NewBack(i).delivered /\ ~NewBack(i).made
      <4>1. CASE i = 1 BY <1>5, <1>6, <2>3, <4>1
      <4>2. CASE i > 1
        <5>1. i \in 2..Len(log') /\ i - 1 \in 1..guard.idle BY <1>0, <1>5, <3>1, <3>2, <4>2
        <5> QED BY <1>1, <1>5, <5>1 DEF IdleInv
      <4> QED BY <4>1, <4>2
    <3>4. ASSUME k < Len(log') PROVE ~NewBack(k + 1).delivered \/ NewBack(k + 1).made
      <4>1. k + 1 \in 2..Len(log') /\ (k + 1) - 1 = guard.idle + 1 /\ guard.idle < Len(log)
        BY <1>0, <1>1, <1>5, <3>1, <3>4
      <4>2. NewBack(k + 1) = Back(guard.idle + 1) BY <1>5, <4>1
      <4> QED BY <1>1, <2>3, <4>1, <4>2 DEF IdleInv
    <3> QED BY <3>1, <3>2, <3>3, <3>4
  <2> QED BY <2>2, <2>3
<1> QED BY <1>4, <1>5, <1>10, <1>11

LEMMA LogStep == Types /\ Types' /\ LogInv /\ [Next]_vars => LogInv'
<1> SUFFICES ASSUME Types, Types', LogInv, [Next]_vars PROVE LogInv' OBVIOUS
<1> USE DEF vars, shared, told, stored, ghosts
<1>0. guard \in Guards /\ guard' \in Guards /\ BelowBounds /\ BelowBounds' /\ RoundOK /\ log \in Seq(Entries)
  BY DEF Types, BaseTypes, LogInv
<1> DEFINE SameCounters == /\ guard'.repeats = guard.repeats /\ guard'.last = guard.last
                           /\ guard'.idle = guard.idle /\ guard'.delivered = guard.delivered
\* A step that counts nothing.
<1>q. ASSUME log' = log, SameCounters, reason' = reason \/ reason' \notin {"loop", "crisp"},
             InLoop' => InLoop /\ (pc # "calling" \/ (pc' = pc /\ round' = round)),
             pc' = "calling" \/ (pc' = "flush" /\ reason' = "none") => round'.sig \in Rounds,
             pc' \in {"stream", "sending"} \/ (pc' = "flush" /\ reason' = "none") => ~round'.made
      PROVE  LogInv'
  <2>1. reason' = "loop" => Looping' BY <1>q DEF LogInv, Looping, LastRounds
  <2>2. reason' = "crisp" => Idling' BY <1>q DEF LogInv, Idling, LastRounds
  <2>3. InLoop' => RepeatsInv' BY <1>q DEF LogInv, RepeatsInv, Back, NewBack
  <2>4. InLoop' => IdleInv' BY <1>q DEF LogInv, IdleInv, Back, NewBack
  <2> QED BY <1>q, <2>1, <2>2, <2>3, <2>4 DEF LogInv
<1>1. CASE Launch \/ Begin \/ Finish \/ Named \/ Complete
  BY <1>1, <1>q DEF Launch, Begin, Finish, Named, Complete, InLoop
<1>2. CASE NextRound
  <2>1. SameCounters BY <1>0, <1>2 DEF NextRound, Guards
  <2>2. pc = "top" /\ log' = log /\ (pc' = "leaving" \/ (pc' = "stream" /\ round' = NoRound))
        /\ (reason' = reason \/ reason' \in {"cap", "clock"})
    BY <1>2 DEF NextRound, Leave
  <2> HIDE DEF SameCounters
  <2> QED BY <1>q, <2>1, <2>2 DEF InLoop, NoRound
<1>3. CASE Say
  <2>1. UNCHANGED <<log, guard, round, reason>> /\ pc = "stream" /\ pc' = "sending"
    BY <1>3 DEF Say, SendChunk
  <2> QED BY <1>0, <1>q, <2>1 DEF InLoop, LogInv, BelowBounds
<1>3a. CASE Buffer
  <2>1. /\ UNCHANGED <<log, guard, reason>> /\ pc = "sending"
        /\ pc' = IF reason = "none" THEN "stream" ELSE "leaving"
        /\ round'.made = round.made
    BY <1>0, <1>3a DEF Buffer, RoundOK
  <2> QED BY <1>q, <2>1 DEF InLoop, LogInv
<1>4. CASE SayBlank BY <1>4, <1>q DEF SayBlank, InLoop, LogInv
<1>5. CASE Answer
  <2>1. SameCounters BY <1>0, <1>5 DEF Answer, Guards
  <2>2. /\ pc = "stream" /\ log' = log /\ round' = round /\ reason' \in {reason, "answer"}
        /\ pc' \in {"top", "leaving"} \/ (pc' = "sending" /\ reason' = "answer")
    BY <1>5 DEF Answer, Leave, SendChunk
  <2> HIDE DEF SameCounters
  <2> QED BY <1>q, <2>1, <2>2 DEF InLoop, LogInv
<1>6. CASE CallTools
  <2>1. PICK r \in Rounds : /\ round' = [round EXCEPT !.sig = r, !.left = r]
                            /\ guard' = [guard EXCEPT !.tools = @ \cup Range(r)]
    BY <1>6 DEF CallTools
  <2>2. SameCounters /\ round'.sig \in Rounds /\ round'.made = round.made
    BY <1>0, <2>1 DEF Guards, RoundOK
  <2>3. pc = "stream" /\ pc' \in {"flush", "calling"} /\ UNCHANGED <<log, reason>>
    BY <1>6 DEF CallTools, Finalize
  <2> HIDE DEF SameCounters
  <2> QED BY <1>q, <2>2, <2>3 DEF InLoop, LogInv
<1>7. CASE Flushed
  <2>1. /\ pc = "flush" /\ pc' = IF reason = "none" THEN "calling" ELSE "finishing"
        /\ UNCHANGED <<log, guard, round, reason>>
    BY <1>7 DEF Flushed
  <2> QED BY <1>q, <2>1 DEF InLoop, LogInv
<1>8. CASE EndCall
  <2>1. PICK outcome : CallEnds(outcome) BY <1>8, EndCallEffect
  <2>2. pc = "calling" /\ UNCHANGED <<pc, reason, log>> BY <1>8 DEF EndCall
  <2>3. round'.sig = round.sig /\ (round.made => round'.made) BY <1>0, <2>1 DEF CallEnds, RoundOK
  <2>4. /\ guard'.repeats = guard.repeats /\ guard'.last = guard.last
        /\ \/ guard' = guard
           \/ guard'.idle = 0 /\ guard'.delivered /\ round'.made
    BY <1>0, <2>1 DEF CallEnds, Guards, RoundOK
  <2>5. RepeatsInv /\ IdleInv /\ round.sig \in Rounds BY <2>2 DEF LogInv, InLoop
  <2>6. RepeatsInv' BY <2>2, <2>4, <2>5 DEF RepeatsInv, Back, NewBack
  <2>7. IdleInv'
    <3>1. CASE guard' = guard BY <2>2, <2>3, <2>5, <3>1 DEF IdleInv, Back, NewBack
    <3>2. CASE guard'.idle = 0 /\ guard'.delivered /\ round'.made
      <4>1. Len(log) \in Nat BY <1>0
      <4> QED BY <2>2, <3>2, <4>1 DEF IdleInv, Back, NewBack
    <3> QED BY <2>4, <3>1, <3>2
  <2>8. (reason' = "loop" => Looping') /\ (reason' = "crisp" => Idling')
    BY <2>2 DEF LogInv, Looping, Idling, LastRounds
  <2> QED BY <2>2, <2>3, <2>5, <2>6, <2>7, <2>8 DEF LogInv
<1>9. CASE EndRound
  <2>1. /\ log' \in Seq(Entries) /\ Len(log') <= Window /\ RepeatsInv'
        /\ reason' # "loop" => IdleInv'
        /\ reason' = "loop" => guard'.repeats >= RepeatN
        /\ reason' = "crisp" => guard'.idle >= WrapUp
    BY <1>9, CountersStep
  <2>2. pc' \in {"top", "leaving"} /\ (pc' = "top" => reason' = "none") /\ Len(log') \in Nat
    BY <1>0, <1>9, <2>1 DEF EndRound, Leave, BelowBounds, InLoop
  <2>3. guard'.repeats \in 0..RepeatN /\ guard'.idle \in 0..WrapUp BY <1>0 DEF Guards
  <2>4. ASSUME reason' = "loop" PROVE Looping'
    <3>1. guard'.repeats = RepeatN /\ 1 \in 1..RepeatN BY <2>1, <2>3, <2>4, Constants
    <3>2. \A i \in 1..RepeatN : NewBack(i).sig = guard'.last /\ ~NewBack(i).progressed
      BY <2>1, <3>1 DEF RepeatsInv, Back, NewBack
    <3>3. Len(log') >= RepeatN BY <2>1, <2>2, <3>1, Constants DEF RepeatsInv
    <3>4. NewBack(1).sig = guard'.last BY <3>1, <3>2
    <3>5. \A i \in 1..RepeatN : NewBack(i).sig = NewBack(1).sig /\ ~NewBack(i).progressed BY <3>2, <3>4
    <3>6. (log \in Seq(Entries))' BY <2>1
    <3> QED BY <3>3, <3>5, <3>6, WindowsAreNext DEF WindowsCounted, Back, NewBack
  <2>5. ASSUME reason' = "crisp" PROVE Idling'
    <3>1. guard'.idle = WrapUp /\ IdleInv' BY <2>1, <2>3, <2>5, Constants
    <3>2. \A i \in 1..WrapUp : NewBack(i).delivered /\ ~NewBack(i).made BY <3>1 DEF IdleInv, Back, NewBack
    <3>3. Len(log') >= WrapUp BY <2>2, <3>1, Constants DEF IdleInv
    <3> QED BY <2>1, <3>2, <3>3, WindowsAreNext DEF WindowsCounted, Back, NewBack
  <2> QED BY <2>1, <2>2, <2>4, <2>5 DEF LogInv, InLoop
<1>10. CASE AfterLoop
  <2>1. /\ pc = "leaving" /\ pc' \in {"flush", "finishing"} /\ UNCHANGED <<log, guard, round, reason>>
        /\ reason # "none"
    BY <1>0, <1>10 DEF AfterLoop, Finalize, BelowBounds
  <2> QED BY <1>q, <2>1 DEF InLoop
<1>11. CASE StreamFails BY <1>11, <1>q DEF StreamFails, InLoop
<1>12. CASE PersistFailure \/ WrapTurn \/ CloseTurn
  <2>1. /\ pc' \in {"failing", "wrap", "closing", "completing"} /\ UNCHANGED <<log, guard, round, reason>>
    BY <1>12 DEF PersistFailure, WrapTurn, CloseTurn
  <2> QED BY <1>q, <2>1 DEF InLoop
<1>13. CASE Cancel
  <2>1. pc' \in {"wrap", "killed"} /\ UNCHANGED <<log, guard, round>> /\ reason' \in {reason, "stopped"}
    BY <1>13 DEF Cancel
  <2> QED BY <1>q, <2>1 DEF InLoop
<1>14. CASE Neighbour \/ UNCHANGED vars
  <2>1. UNCHANGED <<pc, log, guard, round, reason>> BY <1>14 DEF Neighbour
  <2> QED BY <1>q, <2>1 DEF InLoop, LogInv
<1> QED BY <1>1, <1>2, <1>3, <1>3a, <1>4, <1>5, <1>6, <1>7, <1>8, <1>9, <1>10, <1>11, <1>12, <1>13, <1>14
        DEF Next, Advance

LEMMA CountersAreExact == Types /\ LogInv => GuardsAreExact
<1> SUFFICES ASSUME Types, LogInv, pc = "top" PROVE ~Looping /\ ~Idling BY DEF LogInv, GuardsAreExact
<1>0. /\ guard.repeats \in Nat /\ guard.repeats < RepeatN /\ guard.idle \in Nat /\ guard.idle < WrapUp
  BY Constants DEF Types, BaseTypes, Guards, BelowBounds, InLoop
<1>1. log \in Seq(Entries) /\ Len(log) \in Nat /\ RepeatsInv /\ IdleInv BY DEF LogInv, InLoop
<1>2. ASSUME Looping PROVE FALSE
  <2>1. /\ Len(log) >= RepeatN
        /\ \A i \in 1..RepeatN : Back(i).sig = Back(1).sig /\ ~Back(i).progressed
    BY <1>1, <1>2, WindowsAre DEF WindowsCounted
  <2>2. guard.repeats + 1 \in 1..RepeatN /\ 1 \in 1..RepeatN /\ guard.repeats < Len(log) /\ Len(log) > 0
    BY <1>0, <1>1, <2>1, Constants
  <2>3. CASE guard.repeats = 0 BY <1>1, <2>1, <2>2, <2>3 DEF RepeatsInv
  <2>4. CASE guard.repeats > 0
    <3>1. Back(1).sig = guard.last
      <4>1. 1 \in 1..guard.repeats BY <1>0, <2>4
      <4> QED BY <1>1, <4>1 DEF RepeatsInv
    <3> QED BY <1>1, <2>1, <2>2, <3>1 DEF RepeatsInv
  <2> QED BY <1>0, <2>3, <2>4
<1>3. ASSUME Idling PROVE FALSE
  <2>1. Len(log) >= WrapUp /\ \A i \in 1..WrapUp : Back(i).delivered /\ ~Back(i).made
    BY <1>1, <1>3, WindowsAre DEF WindowsCounted
  <2>2. guard.idle + 1 \in 1..WrapUp /\ guard.idle < Len(log) BY <1>0, <1>1, <2>1, Constants
  <2> QED BY <1>1, <2>1, <2>2 DEF IdleInv
<1> QED BY <1>2, <1>3

(* The watchdog stops a turn as soon as its last rounds were the same and made
   nothing, and the wrap-up guard as soon as a delivered turn made nothing for its
   rounds; neither ever stops a turn otherwise, whatever the caps and the rounds
   (LoopWatchdog.record_round; stream.py, the end of a round). *)
THEOREM WatchdogIsExact == Spec => []GuardsAreExact
BY CountersAreExact, TypesInit, TypesStep, LogInit, LogStep, PTL DEF Spec
=============================================================================
