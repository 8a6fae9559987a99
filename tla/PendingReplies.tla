--------------------------- MODULE PendingReplies ---------------------------
(***************************************************************************)
(* The registries of pending replies (inputs/gate/pending.py) and the      *)
(* waits parked in them: confirmation cards, draw surfaces, tool choices,  *)
(* processing requests and layer requests.  A request registers a future   *)
(* under a key, sends its card and waits; the socket handler of any        *)
(* connection of the session completes the future.                         *)
(*                                                                         *)
(* Most keys are fresh ids.  A layer request uses the cache key of the row *)
(* it asks for, so two requests can share one: the tool's thread looks for *)
(* a request in flight before the event loop registers its own.            *)
(***************************************************************************)
CONSTANTS
    Waits,       \* the requests
    Keys,        \* the ids they are registered under
    Sessions,
    Answers,     \* what a user may reply
    Invalid,     \* a reply that does not validate
    KeyOf,       \* request -> its key
    SessionOf,   \* request -> the session of its turn
    Layers,      \* layer requests, made from a worker thread
    Draws,       \* draw surfaces: an invalid reply fails the wait
    NoWait

ASSUME RepliesAssumption ==
    /\ KeyOf \in [Waits -> Keys]
    /\ SessionOf \in [Waits -> Sessions]
    /\ Layers \subseteq Waits /\ Draws \subseteq Waits
    /\ Invalid \in Answers
    /\ NoWait \notin Waits

\* A reply: the key and the answer; the connection it arrives on has a session.
\* The card it answers is history: no field of the message carries it.
Replies == [session : Sessions, key : Keys, answer : Answers, card : Waits]

Parked == {"sending", "waiting", "expired", "stopped"}
Ended == {"answered", "timedout", "cancelled", "refused"}
Stages == {"idle", "checked"} \cup Parked \cup Ended

VARIABLES
    entry,     \* key -> the registered request, or NoWait
    stage,     \* request -> where its coroutine is
    got,       \* request -> the reply its future holds, {} if none
    said,      \* request -> the answers its user has given
    replies    \* replies on the wire

vars == <<entry, stage, got, said, replies>>

TypeOK ==
    /\ entry \in [Keys -> Waits \cup {NoWait}]
    /\ stage \in [Waits -> Stages]
    /\ got \in [Waits -> SUBSET Replies]
    /\ \A w \in Waits : stage[w] = "answered" => got[w] # {}
    /\ said \in [Waits -> SUBSET Answers]
    /\ replies \in SUBSET Replies

Init ==
    /\ entry = [k \in Keys |-> NoWait]
    /\ stage = [w \in Waits |-> "idle"]
    /\ got = [w \in Waits |-> {}]
    /\ said = [w \in Waits |-> {}]
    /\ replies = {}

-----------------------------------------------------------------------------
Goto(w, s) == stage' = [stage EXCEPT ![w] = s]

\* fut.done(): a result or an exception is set, or a timeout or a cancel ended it.
FutureDone(w) == got[w] # {} \/ stage[w] \in {"expired", "stopped"}

(* ask_session_for_layer, on the worker thread: refuse while the row's key is
   registered, else hand the coroutine to the loop. *)
CheckLayer(w) ==
    /\ w \in Layers /\ stage[w] = "idle"
    /\ Goto(w, IF entry[KeyOf[w]] = NoWait THEN "checked" ELSE "refused")
    /\ UNCHANGED <<entry, got, said, replies>>

\* park, _ask, run_in_session: register the future under the key.
Register(w) ==
    /\ stage[w] = IF w \in Layers THEN "checked" ELSE "idle"
    /\ entry' = [entry EXCEPT ![KeyOf[w]] = w]
    /\ Goto(w, "sending")
    /\ UNCHANGED <<got, said, replies>>

\* await send(): it never raises, a card that finds no socket is dropped.
SendCard(w) ==
    /\ stage[w] = "sending"
    /\ Goto(w, "waiting")
    /\ UNCHANGED <<entry, got, said, replies>>

(* The user answers a card that reached the client, in time or too late, once or
   again; the reply travels on any connection of the session. *)
Answer(w, a) ==
    /\ stage[w] \in (Parked \cup Ended) \ {"sending", "refused"}
    /\ said' = [said EXCEPT ![w] = @ \cup {a}]
    /\ replies' = replies \cup
          {[session |-> SessionOf[w], key |-> KeyOf[w], answer |-> a, card |-> w]}
    /\ UNCHANGED <<entry, stage, got>>

(* _claim: the request a reply may complete; a key that is not registered and one
   of another session give none. *)
Claim(m) == {w \in Waits : entry[m.key] = w /\ SessionOf[w] = m.session}

(* Does the handler pass the reply on?  One that does not validate is dropped,
   except that a draw surface is failed with it. *)
Accepted(m) == m.answer # Invalid \/ entry[m.key] \in Draws

\* Mutant of Receive: a future that is done takes the reply as well.
SetsDoneFuture(m) ==
    /\ m \in replies
    /\ replies' = replies \ {m}
    /\ LET claimed == {w \in Claim(m) : Accepted(m)}
       IN  /\ entry' = IF claimed = {} THEN entry ELSE [entry EXCEPT ![m.key] = NoWait]
           /\ got' = [w \in Waits |-> IF w \in claimed THEN {m} ELSE got[w]]
    /\ UNCHANGED <<stage, said>>

\* Mutant of Receive: the entry is popped before the reply is validated.
PopsThenValidates(m) ==
    /\ m \in replies
    /\ replies' = replies \ {m}
    /\ entry' = IF Claim(m) = {} THEN entry ELSE [entry EXCEPT ![m.key] = NoWait]
    /\ got' = [w \in Waits |->
                 IF w \in Claim(m) /\ m.answer # Invalid /\ ~FutureDone(w) THEN {m} ELSE got[w]]
    /\ UNCHANGED <<stage, said>>

(* resolve, or fail for an invalid drawing: the entry of the owner is popped, and
   its future is set unless it is done. *)
Receive(m) ==
    /\ m \in replies
    /\ replies' = replies \ {m}
    /\ LET claimed == {w \in Claim(m) : Accepted(m)}
       IN  /\ entry' = IF claimed = {} THEN entry ELSE [entry EXCEPT ![m.key] = NoWait]
           /\ got' = [w \in Waits |-> IF w \in claimed /\ ~FutureDone(w) THEN {m} ELSE got[w]]
    /\ UNCHANGED <<stage, said>>

\* Mutant of Expire: only an answered wait has a time limit.
NoTimeLimit(w) ==
    /\ stage[w] = "waiting" /\ got[w] # {}
    /\ Goto(w, "expired")
    /\ UNCHANGED <<entry, got, said, replies>>

\* The timer of wait_for fires; the coroutine has yet to resume.
Expire(w) ==
    /\ stage[w] = "waiting"
    /\ Goto(w, "expired")
    /\ UNCHANGED <<entry, got, said, replies>>

\* The turn is cancelled.  A layer request runs on for its abandoned thread.
Stop(w) ==
    /\ w \notin Layers
    /\ stage[w] \in {"sending", "waiting"}
    /\ Goto(w, "stopped")
    /\ UNCHANGED <<entry, got, said, replies>>

\* How a wait may end: a result set before the timeout or the cancel was seen
\* wins on some Python versions and not on others.
Ending(w) ==
    CASE stage[w] = "waiting" -> IF got[w] # {} THEN {"answered"} ELSE {}
      [] stage[w] = "expired" -> {"timedout"} \cup {s \in {"answered"} : got[w] # {}}
      [] stage[w] = "stopped" -> {"cancelled"} \cup {s \in {"answered"} : got[w] # {}}
      [] OTHER -> {}

\* The coroutine resumes; its finally pops the key, whoever holds it by now.
Resume(w) ==
    /\ \E s \in Ending(w) : Goto(w, s)
    /\ entry' = [entry EXCEPT ![KeyOf[w]] = NoWait]
    /\ UNCHANGED <<got, said, replies>>

Next ==
    \/ \E w \in Waits :
          CheckLayer(w) \/ Register(w) \/ SendCard(w) \/ Expire(w) \/ Stop(w) \/ Resume(w)
          \/ \E a \in Answers : Answer(w, a)
    \/ \E m \in replies : Receive(m)

(* The loop runs its coroutines, sends return, and timers fire: every wait has a
   time limit. *)
Fairness == \A w \in Waits : WF_vars(SendCard(w) \/ Expire(w) \/ Resume(w))

Spec == Init /\ [][Next]_vars /\ Fairness

-----------------------------------------------------------------------------
\* Requests that share their key with no other.
Fresh == {w \in Waits : \A v \in Waits : KeyOf[v] = KeyOf[w] => v = w}

(* PendingReplies: a reply from another session completes nothing, even when
   that session has a request for the same row. *)
OnlyOwnerAnswers == \A w \in Waits : \A m \in got[w] : m.session = SessionOf[w]

(* park: the entry never outlives the wait, whichever way it ends; so no reply
   is taken for a request that is over. *)
NoEntryOutlivesWait ==
    \A k \in Keys : entry[k] # NoWait => KeyOf[entry[k]] = k /\ stage[entry[k]] \in Parked

(* A request with an id of its own can be answered for as long as it waits: no
   other request, reply or timeout takes its entry away. *)
WaitIsReachable ==
    \A w \in Fresh : stage[w] \in Parked /\ ~FutureDone(w) => entry[KeyOf[w]] = w

(* _claim: a future is set at most once and never after the timeout or the cancel
   that ended it, when set_result would raise in the socket's handler. *)
FutureSetOnce == [][\A w \in Waits : got'[w] # got[w] => ~FutureDone(w)]_vars

\* How far the question of a request is, and the answer it ended with.
Status(w) ==
    IF stage[w] \in Ended THEN stage[w] ELSE IF stage[w] \in Parked THEN "asked" ELSE "none"

Value(w) == IF stage[w] = "answered" THEN {m.answer : m \in got[w]} ELSE {}

\* The abstract question of every request with an id of its own.
Question == INSTANCE AskUser WITH
    Waits <- Fresh,
    said <- [w \in Fresh |-> said[w]],
    status <- [w \in Fresh |-> Status(w)],
    value <- [w \in Fresh |-> Value(w)]

(* A request with an id of its own behaves as a question to the user: it ends,
   and an answer it ends with is one the user gave to this very card. *)
AsksTheUser == Question!Spec
=============================================================================
