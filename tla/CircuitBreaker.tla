--------------------------- MODULE CircuitBreaker ---------------------------
(***************************************************************************)
(* The per-session tool circuit breaker (model/guards/circuit_breaker.py)  *)
(* as the model loop drives it (server/turn/stream.py): a turn asks        *)
(* is_tripped before it dispatches a tool, awaits the tool, and then       *)
(* records a success or a failure.  One breaker belongs to one connection, *)
(* and turns of different Cases run concurrently on it, so the check and   *)
(* the record of one call are separated by steps of the other turns.       *)
(***************************************************************************)
EXTENDS Integers

CONSTANTS
    Tools,        \* tool names the model may call
    Turns,        \* concurrent turns sharing the connection's breaker
    THRESHOLD,    \* counted failures that trip a tool (3 in the code)
    COOLDOWN_S    \* clock ticks a tripped tool stays closed to calls (60s)

\* No entry for the tool in _cooldown_until.
NoDeadline == -1

\* A turn that is not awaiting a tool.
Idle == "idle"

ASSUME BreakerAssumption ==
    /\ THRESHOLD \in Nat \ {0}
    /\ COOLDOWN_S \in Nat \ {0}
    /\ Idle \notin Tools

\* What record_failure tells apart: only the last class is counted.
FailureKinds == {"declined", "client_arg", "operator", "upstream"}

VARIABLES
    failures,     \* _consecutive_failures: tool -> counter, 0 when absent
    cooldown,     \* _cooldown_until as time left: tool -> ticks, or NoDeadline
    call,         \* turn -> the tool it is awaiting, or Idle
    streak        \* history: upstream failures of the tool since its last success, saturating

breakerVars == <<failures, cooldown, call, streak>>

BreakerTypeOK ==
    /\ failures \in [Tools -> 0..THRESHOLD]
    /\ cooldown \in [Tools -> {NoDeadline} \cup (0..COOLDOWN_S)]
    /\ call \in [Turns -> Tools \cup {Idle}]
    /\ streak \in [Tools -> 0..THRESHOLD]

BreakerInit ==
    /\ failures = [t \in Tools |-> 0]
    /\ cooldown = [t \in Tools |-> NoDeadline]
    /\ call = [c \in Turns |-> Idle]
    /\ streak = [t \in Tools |-> 0]

-----------------------------------------------------------------------------
\* Mutant of is_tripped: a breaker that never closes by itself.
NeverAutoCloses(t) == cooldown[t] # NoDeadline

\* is_tripped's answer: a deadline exists and has not elapsed.
is_tripped(t) == cooldown[t] > 0

\* is_tripped's side effect: an elapsed deadline closes the breaker and drops the counter.
Elapsed(t) == cooldown[t] = 0

FailuresSeen(t) == IF Elapsed(t) THEN 0 ELSE failures[t]

\* Mutant of Counts: a client/argument fault consumes the retry budget.
CountsClientFaults(kind) == kind \in {"client_arg", "upstream"}

\* Whether record_failure reaches the counter at all.
Counts(kind) == kind = "upstream"

(* The loop reaches a call: a tripped tool short-circuits (CircuitBreakerError,
   which is never recorded), any other is dispatched and awaited. *)
Dispatch(c, t) ==
    /\ call[c] = Idle
    /\ ~is_tripped(t)
    /\ failures' = [failures EXCEPT ![t] = FailuresSeen(t)]
    /\ cooldown' = [cooldown EXCEPT ![t] = NoDeadline]
    /\ call' = [call EXCEPT ![c] = t]
    /\ UNCHANGED streak

(* Mutant of record_failure: a late failure of an open tool restarts its clock. *)
RestartsClock(c, t, kind) ==
    /\ call[c] = t
    /\ call' = [call EXCEPT ![c] = Idle]
    /\ streak' = IF kind = "upstream" /\ streak[t] < THRESHOLD
                 THEN [streak EXCEPT ![t] = @ + 1] ELSE streak
    /\ IF Counts(kind)
       THEN /\ failures' = [failures EXCEPT ![t] = IF @ < THRESHOLD THEN @ + 1 ELSE @]
            /\ cooldown' = [cooldown EXCEPT ![t] =
                               IF failures[t] + 1 >= THRESHOLD THEN COOLDOWN_S ELSE @]
       ELSE UNCHANGED <<failures, cooldown>>

(* record_failure: declined, client-argument and operator-class faults return
   before the counter; a fault of an already open tool leaves the clock alone. *)
record_failure(c, t, kind) ==
    /\ call[c] = t
    /\ call' = [call EXCEPT ![c] = Idle]
    /\ streak' = IF kind = "upstream" /\ streak[t] < THRESHOLD
                 THEN [streak EXCEPT ![t] = @ + 1] ELSE streak
    /\ IF Counts(kind) /\ ~is_tripped(t)
       THEN LET count == FailuresSeen(t) + 1 IN
            /\ failures' = [failures EXCEPT ![t] = count]
            /\ cooldown' = [cooldown EXCEPT ![t] =
                               IF count >= THRESHOLD THEN COOLDOWN_S ELSE NoDeadline]
       ELSE UNCHANGED <<failures, cooldown>>

(* record_success: drops the counter and the deadline, whatever they were. *)
record_success(c, t) ==
    /\ call[c] = t
    /\ call' = [call EXCEPT ![c] = Idle]
    /\ streak' = [streak EXCEPT ![t] = 0]
    /\ failures' = [failures EXCEPT ![t] = 0]
    /\ cooldown' = [cooldown EXCEPT ![t] = NoDeadline]

(* A cancelled turn leaves its call without a record: CancelledError is re-raised. *)
AbandonCall(c) ==
    /\ call[c] # Idle
    /\ call' = [call EXCEPT ![c] = Idle]
    /\ UNCHANGED <<failures, cooldown, streak>>

\* The monotonic clock advances by one unit.
Tick ==
    /\ \E t \in Tools : cooldown[t] > 0
    /\ cooldown' = [t \in Tools |-> IF cooldown[t] > 0 THEN cooldown[t] - 1 ELSE cooldown[t]]
    /\ UNCHANGED <<failures, call, streak>>

BreakerNext ==
    \/ \E c \in Turns, t \in Tools :
         \/ Dispatch(c, t)
         \/ \E kind \in FailureKinds : record_failure(c, t, kind)
         \/ record_success(c, t)
    \/ \E c \in Turns : AbandonCall(c)
    \/ Tick

\* Time passes; nothing else is owed by the breaker.
BreakerSpec == BreakerInit /\ [][BreakerNext]_breakerVars /\ WF_breakerVars(Tick)

-----------------------------------------------------------------------------
(* A tool has a deadline exactly when its counter stands at the threshold:
   is_tripped, record_failure and record_success keep the two dictionaries in
   step although each touches them in a different order and at its own time. *)
CounterMatchesDeadline ==
    \A t \in Tools : failures[t] = THRESHOLD <=> cooldown[t] # NoDeadline

(* The breaker opens only on THRESHOLD upstream failures with no success in
   between: declines, argument faults and operator-class faults of any turn
   never bring a tool closer to being blocked (record_failure's early returns). *)
TripNeedsUpstreamStreak ==
    \A t \in Tools : cooldown[t] # NoDeadline => streak[t] = THRESHOLD

(* An open window only counts down.  A failure that arrives late, from a turn
   that dispatched before the trip, neither restarts nor shortens it; only a
   success of such an overlapping call ends it early. *)
WindowOnlyCountsDown ==
    [][\A t \in Tools :
          cooldown[t] > 0 /\ cooldown'[t] \notin {cooldown[t], cooldown[t] - 1}
          => \E c \in Turns : record_success(c, t)]_breakerVars

(* A tripped tool becomes callable again: the cooldown always runs out. *)
TrippedToolReopens == \A t \in Tools : is_tripped(t) ~> ~is_tripped(t)
=============================================================================
