------------------------------ MODULE RateLimit ------------------------------
(***************************************************************************)
(* The cooldown that sustained rate limiting imposes across cycles:        *)
(* in_cooldown of src/airchive/runtime/cycle.py, _update_rate_limit_state, *)
(* and rate_limit_cooldown_seconds of src/airchive/runtime/retry.py.       *)
(*                                                                         *)
(* Module Cycle has the same transitions inside a bounded stretch of time. *)
(* Here a whole cycle is one step (cycles are scheduled one at a time) and *)
(* time is relative, so that runs never end and liveness can be asked.     *)
(* A tick is one polling interval; the scheduler may miss a slot.          *)
(***************************************************************************)
EXTENDS Integers

CONSTANTS
    Base,       \* the first cooldown, in intervals (600 s)
    Maximum,    \* the longest cooldown (3600 s)
    MaxMissed   \* bound: slots the scheduler may miss in a row

ASSUME BaseAssumption == Base \in Nat \ {0}
ASSUME MaximumAssumption == Maximum \in Base..8 * Base
ASSUME MissedAssumption == MaxMissed \in Nat

VARIABLES
    count,      \* consecutiveRateLimits; 4 stands for every longer row
    left,       \* how far rateLimitedUntil lies ahead; 0 when it is past
    limiting,   \* whether LG limits the rate now
    due,        \* the cycle of the current slot has yet to run
    since,      \* intervals since the last flagged cycle, up to Maximum
    missed,     \* slots missed in a row
    last        \* what the last cycle did: "none", "requests" or "nothing"

vars == <<count, left, since, limiting, due, missed, last>>

\* From the fourth on every cooldown is the longest one.
Longest == 4

TypeOK ==
    /\ count \in 0..Longest
    /\ left \in 0..Maximum
    /\ since \in 0..Maximum
    /\ limiting \in BOOLEAN
    /\ due \in BOOLEAN
    /\ missed \in 0..MaxMissed
    /\ last \in {"none", "requests", "nothing"}

\* Variant: the cap is forgotten.
NeverCapped(ticks) == ticks

\* min(..., rate_limit_cooldown_max_seconds).
Capped(ticks) == IF ticks < Maximum THEN ticks ELSE Maximum

Cooldown(n) ==
    Capped(Base * (CASE n = 1 -> 1 [] n = 2 -> 2 [] n = 3 -> 4 [] OTHER -> 8))

Increment(n) == IF n < Longest THEN n + 1 ELSE Longest

Init ==
    /\ count = 0
    /\ left = 0
    /\ since = Maximum
    /\ limiting \in BOOLEAN
    /\ due = TRUE
    /\ missed = 0
    /\ last = "none"

InCooldown == left > 0

\* Variant: the cooldown follows the count before this cycle.
BackOffOneBehind ==
    /\ count' = Increment(count)
    /\ left' = IF count > 0 THEN Cooldown(count) ELSE Base
    /\ since' = 0

\* _update_rate_limit_state, for an observation flagged RATE_LIMITED.
BackOff ==
    /\ count' = Increment(count)
    /\ left' = Cooldown(Increment(count))
    /\ since' = 0

\* Variant: a cycle that got an answer leaves the count where it was.
AnswersKeepCount ==
    /\ UNCHANGED <<count, left, since>>

\* _update_rate_limit_state, for an observation that is not.
ClearCooldown ==
    /\ count' = 0
    /\ left' = IF count > 0 THEN 0 ELSE left
    /\ UNCHANGED since

\* A cycle outside the cooldown asks LG; either request may be limited.
CycleWithRequests ==
    /\ due
    /\ ~InCooldown
    /\ IF limiting THEN BackOff ELSE ClearCooldown
    /\ due' = FALSE
    /\ last' = "requests"
    /\ UNCHANGED <<limiting, missed>>

\* A cycle inside the cooldown asks nothing, and its observation carries the
\* RATE_LIMITED flag of _cooldown_failure.
CycleInCooldown ==
    /\ due
    /\ InCooldown
    /\ BackOff
    /\ due' = FALSE
    /\ last' = "nothing"
    /\ UNCHANGED <<limiting, missed>>

\* The next slot begins; the cycle of the last one ran, or was missed.
Tick ==
    /\ due => missed < MaxMissed
    /\ left' = IF left > 0 THEN left - 1 ELSE 0
    /\ since' = IF since < Maximum THEN since + 1 ELSE Maximum
    /\ missed' = IF due THEN missed + 1 ELSE 0
    /\ due' = TRUE
    /\ UNCHANGED <<count, limiting, last>>

\* Between two cycles LG may start or stop limiting.
LimitingChanges ==
    /\ limiting' = ~limiting
    /\ UNCHANGED <<count, left, since, due, missed, last>>

Cycle == CycleWithRequests \/ CycleInCooldown

Next == Cycle \/ Tick \/ LimitingChanges

\* The scheduler delivers: time passes, and a due cycle is run if it stays due.
Spec == Init /\ [][Next]_vars /\ WF_vars(Tick) /\ WF_vars(Cycle)

-----------------------------------------------------------------------------

\* Sustained limiting lowers the request rate: a cycle asks LG again only when
\* the cooldown that the current row of rate-limited cycles calls for has
\* elapsed since the last of them.
RateIsReduced ==
    [][CycleWithRequests /\ count > 0 => since >= Cooldown(count)]_vars

\* When LG stops limiting for good and some cycle of each stretch starts outside
\* the cooldown, the count returns to zero and stays there.
PausesLetItRecover ==
    <>[]~limiting /\ []<>(due /\ ~InCooldown) => <>[](count = 0)

\* "The collector SHALL resume normal cadence once requests succeed again"
\* (openspec/specs/collector-runtime/spec.md:75; docs/operations.md:595): when
\* LG stops limiting for good, cycles issue requests again.
CadenceResumes == <>[]~limiting => <>[](last = "requests")
=============================================================================
