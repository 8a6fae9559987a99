------------------------ MODULE PendingRepliesProofs ------------------------
(***************************************************************************)
(* The registries of pending replies, for every set of requests, keys,     *)
(* sessions and answers.  The invariant adds to the properties what they   *)
(* rest on: where a reply on the wire and a reply in a future came from.   *)
(***************************************************************************)
EXTENDS PendingReplies, TLAPS

\* A reply carries the key and the session of a card, and an answer given to it.
Genuine(m) ==
    /\ m.session = SessionOf[m.card]
    /\ m.key = KeyOf[m.card]
    /\ m.answer \in said[m.card]

RepliesGenuine == \A m \in replies : Genuine(m)

\* A future holds one reply at most, and one that carries the key it waits under.
FuturesGenuine ==
    \A w \in Waits : \A m \in got[w] : Genuine(m) /\ m.key = KeyOf[w] /\ got[w] = {m}

Inv ==
    /\ TypeOK
    /\ RepliesGenuine
    /\ FuturesGenuine
    /\ OnlyOwnerAnswers
    /\ NoEntryOutlivesWait
    /\ WaitIsReachable

-----------------------------------------------------------------------------
(* The type invariant is preserved by every step: a wait that ends "answered"
   has a reply in its future. *)
LEMMA TypeStep == TypeOK /\ [Next]_vars => TypeOK'
<1> SUFFICES ASSUME TypeOK, [Next]_vars PROVE TypeOK'
  OBVIOUS
<1> USE RepliesAssumption DEF TypeOK, Stages, Parked, Ended, Goto
<1>1. CASE \E w \in Waits : CheckLayer(w) \/ Register(w) \/ SendCard(w) \/ Expire(w) \/ Stop(w)
  BY <1>1 DEF CheckLayer, Register, SendCard, Expire, Stop
<1>2. CASE \E w \in Waits : Resume(w)
  <2> PICK w \in Waits : Resume(w)
    BY <1>2
  <2>1. PICK s \in Ending(w) : stage' = [stage EXCEPT ![w] = s]
    BY DEF Resume
  <2>2. s \in Ended /\ (s = "answered" => got[w] # {})
    BY <2>1 DEF Ending
  <2> QED
    BY <2>1, <2>2 DEF Resume
<1>3. CASE \E w \in Waits, a \in Answers : Answer(w, a)
  BY <1>3 DEF Answer, Replies
<1>4. CASE \E m \in replies : Receive(m)
  <2> PICK m \in replies : Receive(m)
    BY <1>4
  <2>1. got' \in [Waits -> SUBSET Replies] /\ \A w \in Waits : got[w] # {} => got'[w] # {}
    BY DEF Receive
  <2>2. entry' \in [Keys -> Waits \cup {NoWait}]
    BY DEF Receive, Replies
  <2> QED
    BY <2>1, <2>2 DEF Receive
<1>5. CASE UNCHANGED vars
  BY <1>5 DEF vars
<1> QED
  BY <1>1, <1>2, <1>3, <1>4, <1>5 DEF Next

(* Every reply, on the wire or in a future, is an answer the user gave to the
   card it carries. *)
LEMMA GenuineStep ==
    TypeOK /\ RepliesGenuine /\ FuturesGenuine /\ NoEntryOutlivesWait /\ [Next]_vars
        => RepliesGenuine' /\ FuturesGenuine'
<1> SUFFICES ASSUME TypeOK, RepliesGenuine, FuturesGenuine, NoEntryOutlivesWait, [Next]_vars
             PROVE  RepliesGenuine' /\ FuturesGenuine'
  OBVIOUS
<1>1. CASE UNCHANGED <<got, said, replies>>
  BY <1>1 DEF RepliesGenuine, FuturesGenuine, Genuine
<1>2. CASE \E w \in Waits, a \in Answers : Answer(w, a)
  <2> PICK w \in Waits, a \in Answers : Answer(w, a)
    BY <1>2
  <2> DEFINE new == [session |-> SessionOf[w], key |-> KeyOf[w], answer |-> a, card |-> w]
  <2>1. /\ replies' = replies \cup {new} /\ got' = got
        /\ \A v \in Waits : said[v] \subseteq said'[v]
        /\ a \in said'[w]
    BY DEF Answer, TypeOK
  <2>2. \A m \in Replies : Genuine(m) => Genuine(m)'
    BY <2>1 DEF Genuine, Replies
  <2>3. Genuine(new)'
    BY <2>1 DEF Genuine
  <2>4. RepliesGenuine'
    BY <2>1, <2>2, <2>3 DEF RepliesGenuine, TypeOK
  <2>5. FuturesGenuine'
    BY <2>1, <2>2 DEF FuturesGenuine, TypeOK
  <2> QED
    BY <2>4, <2>5
<1>3. CASE \E m \in replies : Receive(m)
  <2> PICK m \in replies : Receive(m)
    BY <1>3
  <2>1. replies' \subseteq replies /\ said' = said
    BY DEF Receive
  <2>2. RepliesGenuine'
    BY <2>1 DEF RepliesGenuine, Genuine
  <2>3. ASSUME NEW w \in Waits, NEW n \in got'[w]
        PROVE  Genuine(n)' /\ n.key = KeyOf[w] /\ got'[w] = {n}
    <3>1. CASE got'[w] = got[w]
      BY <2>1, <2>3, <3>1 DEF FuturesGenuine, Genuine
    <3>2. CASE got'[w] # got[w]
      <4>1. got'[w] = {m} /\ entry[m.key] = w
        BY <3>2 DEF Receive, Claim, TypeOK
      <4>2. n = m /\ m.key \in Keys
        BY <4>1, <2>3 DEF TypeOK, Replies
      <4>3. m.key = KeyOf[w]
        BY <4>1, <4>2, RepliesAssumption DEF NoEntryOutlivesWait
      <4>4. Genuine(m)'
        BY <2>1 DEF RepliesGenuine, Genuine
      <4> QED
        BY <4>1, <4>2, <4>3, <4>4
    <3> QED
      BY <3>1, <3>2
  <2> QED
    BY <2>2, <2>3 DEF FuturesGenuine
<1> QED
  BY <1>1, <1>2, <1>3 DEF Next, CheckLayer, Register, SendCard, Expire, Stop, Resume, vars

(* A reply completes the request of its own session only. *)
LEMMA OwnerStep == TypeOK /\ OnlyOwnerAnswers /\ [Next]_vars => OnlyOwnerAnswers'
<1> SUFFICES ASSUME TypeOK, OnlyOwnerAnswers, [Next]_vars PROVE OnlyOwnerAnswers'
  OBVIOUS
<1>1. CASE got' = got
  BY <1>1 DEF OnlyOwnerAnswers
<1>2. CASE \E m \in replies : Receive(m)
  <2> PICK m \in replies : Receive(m)
    BY <1>2
  <2>1. \A w \in Waits : got'[w] = got[w] \/ (got'[w] = {m} /\ SessionOf[w] = m.session)
    BY DEF Receive, Claim, TypeOK
  <2> QED
    BY <2>1 DEF OnlyOwnerAnswers
<1> QED
  BY <1>1, <1>2 DEF Next, CheckLayer, Register, SendCard, Expire, Stop, Resume, Answer, vars

\* An entry names a request that is parked under its key.
LEMMA EntryStep == TypeOK /\ NoEntryOutlivesWait /\ [Next]_vars => NoEntryOutlivesWait'
<1> SUFFICES ASSUME TypeOK, NoEntryOutlivesWait, [Next]_vars,
                    NEW k \in Keys, entry'[k] # NoWait
             PROVE  KeyOf[entry'[k]] = k /\ stage'[entry'[k]] \in Parked
  BY DEF NoEntryOutlivesWait
<1>0. entry[k] # NoWait => entry[k] \in Waits /\ KeyOf[entry[k]] = k /\ stage[entry[k]] \in Parked
  BY DEF NoEntryOutlivesWait, TypeOK
<1>1. ASSUME NEW w \in Waits, CheckLayer(w) \/ SendCard(w) \/ Expire(w) \/ Stop(w)
      PROVE  KeyOf[entry'[k]] = k /\ stage'[entry'[k]] \in Parked
  BY <1>0, <1>1, RepliesAssumption
     DEF CheckLayer, SendCard, Expire, Stop, Goto, TypeOK, Parked
<1>2. ASSUME NEW w \in Waits, Register(w)
      PROVE  KeyOf[entry'[k]] = k /\ stage'[entry'[k]] \in Parked
  <2>1. stage' = [stage EXCEPT ![w] = "sending"] /\ entry' = [entry EXCEPT ![KeyOf[w]] = w]
    BY <1>2 DEF Register, Goto
  <2> QED
    BY <2>1, <1>0, RepliesAssumption DEF TypeOK, Parked
<1>3. ASSUME NEW w \in Waits, Resume(w)
      PROVE  KeyOf[entry'[k]] = k /\ stage'[entry'[k]] \in Parked
  <2>1. entry' = [entry EXCEPT ![KeyOf[w]] = NoWait] /\ \A v \in Waits : v # w => stage'[v] = stage[v]
    BY <1>3 DEF Resume, Goto, TypeOK
  <2>2. entry'[k] = entry[k] /\ k # KeyOf[w]
    BY <2>1 DEF TypeOK
  <2> QED
    BY <2>1, <2>2, <1>0, RepliesAssumption
<1>4. ASSUME NEW w \in Waits, NEW a \in Answers, Answer(w, a)
      PROVE  KeyOf[entry'[k]] = k /\ stage'[entry'[k]] \in Parked
  BY <1>0, <1>4 DEF Answer
<1>5. ASSUME NEW m \in replies, Receive(m)
      PROVE  KeyOf[entry'[k]] = k /\ stage'[entry'[k]] \in Parked
  <2>1. stage' = stage /\ entry'[k] = entry[k]
    BY <1>5 DEF Receive, TypeOK
  <2> QED
    BY <2>1, <1>0
<1>6. CASE UNCHANGED vars
  BY <1>0, <1>6 DEF vars
<1> QED
  BY <1>1, <1>2, <1>3, <1>4, <1>5, <1>6 DEF Next

(* A request with a key of its own keeps its entry until its future is done: the
   entry of another request is under another key. *)
LEMMA ReachableStep ==
    TypeOK /\ NoEntryOutlivesWait /\ WaitIsReachable /\ [Next]_vars => WaitIsReachable'
<1> SUFFICES ASSUME TypeOK, NoEntryOutlivesWait, WaitIsReachable, [Next]_vars,
                    NEW w \in Fresh, stage'[w] \in Parked, ~FutureDone(w)'
             PROVE  entry'[KeyOf[w]] = w
  BY DEF WaitIsReachable, Fresh
<1>0. /\ w \in Waits /\ KeyOf[w] \in Keys
      /\ \A v \in Waits : KeyOf[v] = KeyOf[w] => v = w
      /\ stage[w] \in Parked /\ ~FutureDone(w) => entry[KeyOf[w]] = w
  BY RepliesAssumption DEF Fresh, WaitIsReachable
<1>1. ASSUME NEW v \in Waits, CheckLayer(v) \/ SendCard(v) \/ Expire(v) \/ Stop(v)
      PROVE  entry'[KeyOf[w]] = w
  BY <1>0, <1>1 DEF CheckLayer, SendCard, Expire, Stop, Goto, TypeOK, Parked, FutureDone
<1>2. ASSUME NEW v \in Waits, Register(v) PROVE entry'[KeyOf[w]] = w
  <2>1. stage' = [stage EXCEPT ![v] = "sending"] /\ entry' = [entry EXCEPT ![KeyOf[v]] = v] /\ got' = got
    BY <1>2 DEF Register, Goto
  <2> QED
    BY <2>1, <1>0, RepliesAssumption DEF TypeOK, FutureDone
<1>3. ASSUME NEW v \in Waits, Resume(v) PROVE entry'[KeyOf[w]] = w
  <2>1. PICK s \in Ending(v) : stage' = [stage EXCEPT ![v] = s]
    BY <1>3 DEF Resume, Goto
  <2>2. s \in Ended
    BY <2>1 DEF Ending, Ended
  <2>3. v # w
    BY <2>1, <2>2, <1>0 DEF TypeOK, Parked, Ended
  <2>4. stage'[w] = stage[w] /\ got' = got /\ entry'[KeyOf[w]] = entry[KeyOf[w]]
    BY <2>1, <2>3, <1>0, <1>3, RepliesAssumption DEF Resume, TypeOK
  <2> QED
    BY <2>4, <1>0 DEF FutureDone
<1>4. ASSUME NEW v \in Waits, NEW a \in Answers, Answer(v, a) PROVE entry'[KeyOf[w]] = w
  BY <1>0, <1>4 DEF Answer, FutureDone
<1>5. ASSUME NEW m \in replies, Receive(m) PROVE entry'[KeyOf[w]] = w
  <2> DEFINE claimed == {v \in Claim(m) : Accepted(m)}
  <2>1. /\ entry' = IF claimed = {} THEN entry ELSE [entry EXCEPT ![m.key] = NoWait]
        /\ got' = [v \in Waits |-> IF v \in claimed /\ ~FutureDone(v) THEN {m} ELSE got[v]]
        /\ stage' = stage
    BY <1>5 DEF Receive
  <2>2. got[w] = {} /\ stage[w] \in Parked /\ ~FutureDone(w)
    BY <2>1, <1>0 DEF FutureDone, TypeOK
  <2>3. entry[KeyOf[w]] = w /\ w \notin claimed
    BY <2>1, <2>2, <1>0 DEF FutureDone
  <2>4. CASE claimed = {}
    BY <2>1, <2>3, <2>4
  <2>5. CASE claimed # {}
    <3>1. PICK v \in claimed : v \in Waits /\ entry[m.key] = v
      BY <2>5 DEF Claim
    <3>2. m.key # KeyOf[w]
      BY <3>1, <2>3
    <3> QED
      BY <3>2, <2>1, <2>3, <2>5, <1>0 DEF TypeOK
  <2> QED
    BY <2>4, <2>5
<1>6. CASE UNCHANGED vars
  BY <1>0, <1>6 DEF vars, FutureDone
<1> QED
  BY <1>1, <1>2, <1>3, <1>4, <1>5, <1>6 DEF Next

LEMMA InvInit == Init => Inv
<1> SUFFICES ASSUME Init PROVE Inv
  OBVIOUS
<1>1. TypeOK
  BY DEF Init, TypeOK, Stages
<1> QED
  BY <1>1 DEF Init, Inv, RepliesGenuine, FuturesGenuine, OnlyOwnerAnswers,
              NoEntryOutlivesWait, WaitIsReachable, Fresh, Parked

LEMMA InvStep == Inv /\ [Next]_vars => Inv'
  BY TypeStep, GenuineStep, OwnerStep, EntryStep, ReachableStep DEF Inv

LEMMA InvHolds == Spec => []Inv
  BY InvInit, InvStep, PTL DEF Spec

-----------------------------------------------------------------------------
(* Every reachable state is well typed, and a wait that ends "answered" holds a
   reply: park never returns without one. *)
THEOREM TypeCorrect == Spec => []TypeOK
<1>1. Inv => TypeOK
  BY DEF Inv
<1> QED
  BY <1>1, InvHolds, PTL

(* _claim: no reply of another session completes a request, whatever rows two
   sessions ask for. *)
THEOREM OwnersAnswer == Spec => []OnlyOwnerAnswers
<1>1. Inv => OnlyOwnerAnswers
  BY DEF Inv
<1> QED
  BY <1>1, InvHolds, PTL

(* park: no entry outlives its wait, even when two layer requests share a key
   and one pops the entry of the other. *)
THEOREM EntriesEnd == Spec => []NoEntryOutlivesWait
<1>1. Inv => NoEntryOutlivesWait
  BY DEF Inv
<1> QED
  BY <1>1, InvHolds, PTL

(* A request with an id of its own stays answerable for as long as it waits. *)
THEOREM WaitsReachable == Spec => []WaitIsReachable
<1>1. Inv => WaitIsReachable
  BY DEF Inv
<1> QED
  BY <1>1, InvHolds, PTL

\* resolve and fail never set a future that is done.
THEOREM SetOnce == Spec => FutureSetOnce
<1>1. ASSUME TypeOK, [Next]_vars, NEW w \in Waits, got'[w] # got[w]
      PROVE  ~FutureDone(w)
  <2>1. PICK m \in replies : Receive(m)
    BY <1>1 DEF Next, CheckLayer, Register, SendCard, Expire, Stop, Resume, Answer, vars
  <2> QED
    BY <1>1, <2>1 DEF Receive, TypeOK
<1>2. TypeOK /\ [Next]_vars => [\A w \in Waits : got'[w] # got[w] => ~FutureDone(w)]_vars
  BY <1>1
<1> QED
  BY <1>2, TypeCorrect, PTL DEF Spec, FutureSetOnce

-----------------------------------------------------------------------------
(* A request with a key of its own that ends answered ends with an answer the
   user gave to its card. *)
LEMMA AnswerIsItsOwn ==
    ASSUME Inv, NEW w \in Fresh, got[w] # {}
    PROVE  \E a \in said[w] : {m.answer : m \in got[w]} = {a}
<1>1. PICK m \in got[w] : Genuine(m) /\ m.key = KeyOf[w] /\ got[w] = {m}
  BY DEF Inv, FuturesGenuine, Fresh
<1>2. m.card \in Waits
  BY <1>1 DEF Inv, TypeOK, Fresh, Replies
<1>3. m.card = w
  BY <1>1, <1>2 DEF Genuine, Fresh
<1> QED
  BY <1>1, <1>3 DEF Genuine

\* A step that changes none of the three is a stutter of the question.
LEMMA Stutter ==
    ASSUME \A w \in Fresh : said'[w] = said[w] /\ Status(w)' = Status(w) /\ Value(w)' = Value(w)
    PROVE  UNCHANGED Question!vars
  BY DEF Question!vars, Fresh

LEMMA QuestionInit == Init => Question!Init
  BY DEF Init, Question!Init, Status, Value, Parked, Ended, Fresh

\* Every step is a step of the question of one request, or a stutter.
LEMMA QuestionStep == Inv /\ [Next]_vars => [Question!Next]_(Question!vars)
<1> SUFFICES ASSUME Inv, [Next]_vars PROVE [Question!Next]_(Question!vars)
  OBVIOUS
<1>0. /\ TypeOK /\ Fresh \subseteq Waits
      /\ \A v \in Fresh, w \in Waits : KeyOf[v] = KeyOf[w] => v = w
  BY DEF Inv, Fresh
<1>1. ASSUME NEW w \in Waits, CheckLayer(w) PROVE UNCHANGED Question!vars
  <2>1. w \in Fresh => entry[KeyOf[w]] = NoWait
    BY <1>0, <1>1, RepliesAssumption
       DEF Inv, NoEntryOutlivesWait, TypeOK, CheckLayer, Parked
  <2>2. \A v \in Fresh : Status(v)' = Status(v) /\ Value(v)' = Value(v)
    BY <1>0, <1>1, <2>1 DEF CheckLayer, Goto, TypeOK, Status, Value, Parked, Ended
  <2> QED
    BY <2>2, <1>1, Stutter DEF CheckLayer
<1>2. ASSUME NEW w \in Waits, SendCard(w) \/ Expire(w) \/ Stop(w) PROVE UNCHANGED Question!vars
  <2>1. \A v \in Fresh : Status(v)' = Status(v) /\ Value(v)' = Value(v)
    BY <1>0, <1>2 DEF SendCard, Expire, Stop, Goto, TypeOK, Status, Value, Parked, Ended
  <2> QED
    BY <2>1, <1>2, Stutter DEF SendCard, Expire, Stop
<1>3. ASSUME NEW w \in Waits, Register(w) PROVE [Question!Next]_(Question!vars)
  <2>1. \A v \in Fresh : said'[v] = said[v] /\ Value(v)' = Value(v) /\ (v # w => Status(v)' = Status(v))
    BY <1>0, <1>3 DEF Register, Goto, TypeOK, Status, Value
  <2>2. CASE w \in Fresh
    <3>1. Status(w) = "none" /\ Status(w)' = "asked"
      BY <1>0, <1>3 DEF Register, Goto, TypeOK, Status, Parked, Ended
    <3>2. Question!Ask(w)
      BY <2>1, <2>2, <3>1 DEF Question!Ask, Fresh
    <3> QED
      BY <2>2, <3>2 DEF Question!Next
  <2>3. CASE w \notin Fresh
    BY <2>1, <2>3, Stutter
  <2> QED
    BY <2>2, <2>3
<1>4. ASSUME NEW w \in Waits, NEW a \in Answers, Answer(w, a) PROVE [Question!Next]_(Question!vars)
  <2>1. \A v \in Fresh : Status(v)' = Status(v) /\ Value(v)' = Value(v) /\ (v # w => said'[v] = said[v])
    BY <1>0, <1>4 DEF Answer, TypeOK, Status, Value
  <2>2. CASE w \in Fresh
    <3>1. Status(w) # "none" /\ said'[w] = said[w] \cup {a}
      BY <1>0, <1>4 DEF Answer, TypeOK, Status, Parked, Ended
    <3>2. Question!Say(w, a)
      BY <2>1, <2>2, <3>1 DEF Question!Say, Fresh
    <3> QED
      BY <2>2, <3>2 DEF Question!Next
  <2>3. CASE w \notin Fresh
    BY <2>1, <2>3, Stutter
  <2> QED
    BY <2>2, <2>3
<1>5. ASSUME NEW m \in replies, Receive(m) PROVE UNCHANGED Question!vars
  <2>1. \A v \in Fresh : stage[v] = "answered" => got'[v] = got[v]
    BY <1>0, <1>5 DEF Receive, TypeOK, FutureDone
  <2>2. \A v \in Fresh : Status(v)' = Status(v) /\ Value(v)' = Value(v)
    BY <1>5, <2>1 DEF Receive, Status, Value
  <2> QED
    BY <2>2, <1>5, Stutter DEF Receive
<1>6. ASSUME NEW w \in Waits, Resume(w) PROVE [Question!Next]_(Question!vars)
  <2>0. PICK s \in Ending(w) : stage' = [stage EXCEPT ![w] = s]
    BY <1>6 DEF Resume, Goto
  <2>1. \A v \in Fresh : /\ said'[v] = said[v] /\ got'[v] = got[v]
                         /\ v # w => Status(v)' = Status(v) /\ Value(v)' = Value(v)
    BY <1>0, <1>6, <2>0 DEF Resume, TypeOK, Status, Value
  <2>2. CASE w \notin Fresh
    BY <2>1, <2>2, Stutter
  <2>3. CASE w \in Fresh
    <3>1. /\ stage[w] \in Parked /\ stage'[w] = s
          /\ s \in {"answered", "timedout", "cancelled"} /\ (s = "answered" => got[w] # {})
      BY <1>0, <2>0 DEF Ending, TypeOK, Parked
    <3>2. Status(w) = "asked" /\ Status(w)' = s
      BY <3>1 DEF Status, Parked, Ended
    <3>3. CASE s = "answered"
      <4>1. PICK a \in said[w] : {m.answer : m \in got[w]} = {a}
        BY <2>3, <3>1, <3>3, AnswerIsItsOwn
      <4>2. Value(w)' = {a}
        BY <2>1, <2>3, <3>1, <3>3, <4>1 DEF Value
      <4>3. Question!Learn(w)
        BY <2>1, <2>3, <3>2, <3>3, <4>1, <4>2 DEF Question!Learn, Fresh
      <4> QED
        BY <2>3, <4>3 DEF Question!Next
    <3>4. CASE s # "answered"
      <4>1. Value(w)' = Value(w)
        BY <3>1, <3>4 DEF Value, Parked
      <4>2. Question!GiveUp(w)
        BY <2>1, <2>3, <3>1, <3>2, <3>4, <4>1 DEF Question!GiveUp, Fresh
      <4> QED
        BY <2>3, <4>2 DEF Question!Next
    <3> QED
      BY <3>3, <3>4
  <2> QED
    BY <2>2, <2>3
<1>7. CASE UNCHANGED vars
  <2>1. \A v \in Fresh : said'[v] = said[v] /\ Status(v)' = Status(v) /\ Value(v)' = Value(v)
    BY <1>7 DEF vars, Status, Value
  <2> QED
    BY <2>1, Stutter
<1> QED
  BY <1>1, <1>2, <1>3, <1>4, <1>5, <1>6, <1>7 DEF Next

(* The safety part of the refinement: a request with an id of its own starts and
   moves as AskUser's question does, so an answer it ends with was given to its card. *)
THEOREM AsksSafely == Spec => Question!Init /\ [][Question!Next]_(Question!vars)
  BY QuestionInit, QuestionStep, InvHolds, PTL DEF Spec
=============================================================================
