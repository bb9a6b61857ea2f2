----------------------------- MODULE RequestTime -----------------------------
(***************************************************************************)
(* How long the ThinQ requests of one cycle take: call_with_retries and    *)
(* its policy (src/airchive/runtime/retry.py), around the requests a cycle *)
(* makes in order (src/airchive/runtime/cycle.py).  The two requests of    *)
(* the routine path are retried; the profiles of a cold start and the      *)
(* finalized totals are asked for once.                                    *)
(*                                                                         *)
(* Times are half seconds.  Only the requests take time here: the store    *)
(* operations between them are not bounded by the code.                    *)
(***************************************************************************)
EXTENDS Integers

CONSTANTS
    Interval,        \* poll_interval_seconds
    Timeout,         \* the timeout of one attempt (thinq/client.py)
    MaxAttempts,     \* RetryPolicy.max_attempts
    BaseDelay, RateLimitBaseDelay, MaxDelay,
    DefaultBudget,   \* the largest total_budget_seconds of from_config
    MinLease,        \* the smallest lease_seconds of from_config
    Starts,          \* where a cycle may start: cold, at the profile, or warm
    Durations        \* bound: how long an attempt may take

ASSUME IntervalAssumption == Interval \in Nat \ {0}
ASSUME TimeoutAssumption == Timeout \in Nat
ASSUME AttemptsAssumption == MaxAttempts \in Nat \ {0}
ASSUME DelaysAssumption ==
    /\ BaseDelay \in Nat
    /\ RateLimitBaseDelay \in Nat
    /\ MaxDelay \in Nat
ASSUME BudgetAssumption == DefaultBudget \in Nat
ASSUME MinLeaseAssumption == MinLease \in Nat
ASSUME StartsAssumption == Starts \subseteq {"profile", "energy"}
ASSUME DurationsAssumption == Durations \subseteq 0..Timeout

VARIABLES
    request,   \* the request of the cycle being made, or "done"
    doing,     \* "attempt" or "wait": an attempt is in flight, or a backoff
    attempt,   \* the attempt number, from 1
    spent,     \* time since this request started
    before     \* time the earlier requests of the cycle took

vars == <<request, doing, attempt, spent, before>>

Requests == {"profile", "energyProfile", "energy", "state", "total", "queueTotal"}
\* Variant: every request is retried.
RetriedAll == Requests

Retried == {"energy", "state"}

\* The budget and the lease that from_config derives from the interval.
Budget == IF 2 * DefaultBudget < Interval THEN DefaultBudget ELSE Interval \div 2
FourFifths == 2 * ((2 * Interval) \div 5)   \* whole seconds
LeaseSeconds == IF MinLease > FourFifths THEN MinLease ELSE FourFifths

\* What the requests of a cycle can take together: two retried requests, and
\* one attempt for each of the four others.
CycleBound == 2 * (Budget + Timeout) + 4 * Timeout

\* What an attempt may raise beneath the SDK boundary.
Exceptions == {"rateLimitCode", "tokenCode", "configCode", "offlineCode",
               "serverCode", "otherCode", "notJson", "timeout", "connection",
               "structure", "other"}

\* classify_exception: every one of them is a failure of one of the classes.
ClassifyException ==
    [x \in Exceptions |->
        CASE x = "rateLimitCode" -> "RATE_LIMITED"
          [] x = "tokenCode" -> "AUTH_FATAL"
          [] x = "configCode" -> "CONFIG_FATAL"
          [] x = "offlineCode" -> "DEVICE_OFFLINE"
          [] x = "serverCode" -> "TRANSIENT"
          [] x \in {"timeout", "connection"} -> "TRANSPORT"
          [] x \in {"notJson", "structure"} -> "MALFORMED"
          [] x \in {"otherCode", "other"} -> "UNKNOWN"]

\* The failures _call raises in their place.
Classes == {ClassifyException[x] : x \in Exceptions}

\* Failures worth another attempt.
RetryWithinCycle == {"TRANSIENT", "TRANSPORT", "RATE_LIMITED"}

TypeOK ==
    /\ request \in Requests \union {"done"}
    /\ doing \in {"attempt", "wait"}
    /\ attempt \in 1..MaxAttempts
    /\ spent \in 0..Budget
    /\ before \in 0..CycleBound

\* A warm start asks for no profile.
Init ==
    /\ request \in Starts
    /\ doing = "attempt"
    /\ attempt = 1
    /\ spent = 0
    /\ before = 0

\* What may follow a request: the totals are asked for only when needed.
Following(r) ==
    CASE r = "profile" -> {"energyProfile"}
      [] r = "energyProfile" -> {"energy"}
      [] r = "energy" -> {"state"}
      [] r = "state" -> {"total", "queueTotal", "done"}
      [] r = "total" -> {"queueTotal", "done"}
      [] OTHER -> {"done"}

\* After a failed profile request the cycle is over.
AfterFailure(r) ==
    IF r \in {"profile", "energyProfile"} THEN {"done"} ELSE Following(r)

Leave(next, time) ==
    /\ request' = next
    /\ doing' = "attempt"
    /\ attempt' = 1
    /\ spent' = 0
    /\ before' = before + time

Doubled(attempts) == IF attempts = 1 THEN 1 ELSE 2
CappedDelay(d) == IF d < MaxDelay THEN d ELSE MaxDelay

\* delay_for: exponential, with a jitter of half the delay either way, in half
\* seconds.  The third attempt is the last, so only two delays occur.
Delays(n, class) ==
    LET base == IF class = "RATE_LIMITED" THEN RateLimitBaseDelay ELSE BaseDelay
        delay == CappedDelay(base * Doubled(n))
    IN  (delay \div 2)..((3 * delay) \div 2)

Succeed ==
    /\ request # "done" /\ doing = "attempt"
    /\ \E d \in Durations, next \in Following(request) : Leave(next, spent + d)

\* Variant: attempts are not counted.
RetriesForever(class, elapsed, delay) ==
    \/ request \notin Retried
    \/ class \notin RetryWithinCycle
    \/ elapsed + delay > Budget

\* Variant: the delay to come is not counted.
GiveUpTooLate(class, elapsed, delay) ==
    \/ request \notin Retried
    \/ class \notin RetryWithinCycle
    \/ attempt >= MaxAttempts
    \/ elapsed > Budget

\* The request is given up: not worth a retry, out of attempts, or out of time.
MustGiveUp(class, elapsed, delay) ==
    \/ request \notin Retried
    \/ class \notin RetryWithinCycle
    \/ attempt >= MaxAttempts
    \/ elapsed + delay > Budget

GiveUp ==
    /\ request # "done" /\ doing = "attempt"
    /\ \E d \in Durations, class \in Classes, next \in AfterFailure(request) :
          /\ \E delay \in Delays(attempt, class) : MustGiveUp(class, spent + d, delay)
          /\ Leave(next, spent + d)

\* The attempt failed and its delay still fits in the budget.
BackOff ==
    /\ request # "done" /\ doing = "attempt"
    /\ \E d \in Durations, class \in Classes :
          \E delay \in Delays(attempt, class) :
              /\ ~MustGiveUp(class, spent + d, delay)
              /\ spent' = spent + d + delay
    /\ doing' = "wait"
    /\ UNCHANGED <<request, attempt, before>>

Retry ==
    /\ request # "done" /\ doing = "wait"
    /\ doing' = "attempt"
    /\ attempt' = attempt + 1
    /\ UNCHANGED <<request, spent, before>>

Next == Succeed \/ GiveUp \/ BackOff \/ Retry

Spec == Init /\ [][Next]_vars

-----------------------------------------------------------------------------

\* total_budget_seconds is the "ceiling on the total time all attempts for one
\* request may take" (retry.py:41), but it is compared before the sleep only, and
\* nothing cuts the attempt after it short.  What the ceiling is worth: a request,
\* however it fails and however long its delays, overruns it by one attempt at
\* most, and a request that is asked for once takes no more than an attempt.
OverrunIsOneAttempt ==
    [][request' # request =>
          /\ before' - before <= Budget + Timeout
          /\ request \notin Retried => before' - before <= Timeout]_vars

\* Until its last request has been answered, a cycle still holds its lease, as
\* far as its requests decide.
WithinLease == before + spent <= LeaseSeconds
=============================================================================
