--------------------------- MODULE ReconnectPolicy ---------------------------
(***************************************************************************)
(* One ReconnectPolicy object of app/xray/reconnect.py and the threads     *)
(* that share it.  Each method runs under the object's lock and is one     *)
(* action.  The clock is injected: a caller of on_failure reads it first   *)
(* and enters the lock later, so the time stamp may be stale when it is    *)
(* used, and stamps may be recorded in another order than they were read.  *)
(***************************************************************************)
EXTENDS Backoff

CONSTANTS Callers,      \* the threads that report to this policy
          MaxTime,      \* bound: the clock stops here
          MaxFailures   \* bound: failures recorded in a row

ASSUME CallersAssumption ==
    /\ MaxTime \in Nat
    /\ MaxFailures \in Nat

VARIABLES now,          \* the monotonic clock
          failures,     \* consecutive_failures
          backoff,      \* current_backoff
          nextRetry,    \* next_retry_at, NoTime for None
          stamp         \* the time a caller read and has not recorded yet

vars == <<now, failures, backoff, nextRetry, stamp>>

NoTime == -1

TypeOK ==
    /\ now \in Nat
    /\ failures \in Nat
    /\ backoff \in Nat
    /\ nextRetry \in Nat \cup {NoTime}
    /\ stamp \in [Callers -> Nat \cup {NoTime}]

Init ==
    /\ now = 0
    /\ failures = 0
    /\ backoff = Base
    /\ nextRetry = NoTime
    /\ stamp = [c \in Callers |-> NoTime]

\* should_attempt(t)
ShouldAttempt(t) == nextRetry = NoTime \/ t >= nextRetry

\* is_circuit_open()
CircuitOpen == CircuitOpenAt(failures)

\* The caller evaluates default_clock() for its on_failure call.
ReadClock(c) ==
    /\ stamp[c] = NoTime
    /\ stamp' = [stamp EXCEPT ![c] = now]
    /\ UNCHANGED <<now, failures, backoff, nextRetry>>

\* Mutant: the retry time is computed backwards.
OnFailureBackwards(c) ==
    /\ stamp[c] # NoTime
    /\ failures < MaxFailures
    /\ failures' = failures + 1
    /\ backoff' = BackoffAfter(failures')
    /\ nextRetry' = stamp[c] - backoff'
    /\ stamp' = [stamp EXCEPT ![c] = NoTime]
    /\ UNCHANGED now

\* on_failure(now)
OnFailure(c) ==
    /\ stamp[c] # NoTime
    /\ failures < MaxFailures
    /\ failures' = failures + 1
    /\ backoff' = BackoffAfter(failures')
    /\ nextRetry' = stamp[c] + backoff'
    /\ stamp' = [stamp EXCEPT ![c] = NoTime]
    /\ UNCHANGED now

\* on_success(), which is also all that reset_policy does to the object.
OnSuccess ==
    /\ failures' = 0
    /\ backoff' = Base
    /\ nextRetry' = NoTime
    /\ UNCHANGED <<now, stamp>>

Elapse ==
    /\ now < MaxTime
    /\ now' = now + 1
    /\ UNCHANGED <<failures, backoff, nextRetry, stamp>>

Next ==
    \/ \E c \in Callers : ReadClock(c) \/ OnFailure(c)
    \/ OnSuccess
    \/ Elapse

Spec == Init /\ [][Next]_vars

------------------------------------------------------------------------------

\* The three fields always describe the same history: no retry time without a
\* failure, no failure without one, and the backoff is the one the number of
\* failures calls for.  A torn update or a partial reset breaks it.
FieldsAgree ==
    /\ (failures = 0) <=> (nextRetry = NoTime)
    /\ backoff = IF failures = 0 THEN Base ELSE BackoffAfter(failures)

\* However many threads report, and however stale their stamps, a node is never
\* put off for longer than Cap seconds from the present: the health check comes
\* back to a node that is down ("the loop never gives up").
RetryWithinCap == nextRetry <= now + Cap

\* As long as nothing succeeds, the pace never quickens: whatever is reported,
\* by whichever thread, the backoff only grows.
PaceNeverQuickens ==
    [][failures' > 0 => (backoff' >= backoff \/ failures = 0)]_vars

==============================================================================
