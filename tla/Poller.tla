-------------------------------- MODULE Poller --------------------------------
(***************************************************************************)
(* The poller loop (src/airchive/runtime/poller.py): one process that runs *)
(* a cycle, waits for the next slot, and stops on a signal.  The operator  *)
(* starts it at any instant, and may start it again once it has stopped;   *)
(* it may also be killed.                                                  *)
(*                                                                         *)
(* Of the cycle itself (module Cycle has all of it) there is here the      *)
(* start, the write and the return: what the loop and the readers of the   *)
(* series can tell.  The counter advances by one unit with every tick, so  *)
(* that an interval is a length of time.                                   *)
(***************************************************************************)
EXTENDS Observation

CONSTANTS
    MaxCycle,   \* the longest cycle, in ticks
    MaxEarly,   \* how early a timer may fire: the resolution of the clock
    MaxLate     \* how late a timer may fire

ASSUME CycleAssumption == MaxCycle \in Nat
ASSUME TimerAssumption ==
    /\ MaxEarly \in Nat
    /\ MaxLate \in Nat

VARIABLES
    telemetry,  \* the observation stored for each slot, if any
    loop,       \* where the process is: "off" when there is none
    shutdown,   \* when the stop event was set, if it was
    now,        \* the `now` of the last cycle of this process, if any
    wake,       \* the start of the slot it waits for
    clock

vars == <<telemetry, loop, shutdown, now, wake, clock>>

Slots == 0..Slot(MaxTime)

\* Variant: a margin for timers that fire early.
NextSlotWithMargin(t) == (Slot(t + MaxEarly) + 1) * Interval

\* Variant: a whole interval is waited for after every cycle.
OneIntervalLater(t) == t + Interval

\* seconds_until_next_slot, as the instant it leads to.
NextSlot(t) == (Slot(t) + 1) * Interval

Loop == {"off", "top", "cycle", "tail", "wait"}

TypeOK ==
    /\ telemetry \in [Slots -> Optional(Document)]
    /\ loop \in Loop
    /\ shutdown \in Optional(Time)
    /\ now \in Optional(Time)
    /\ wake \in {s * Interval : s \in 0..(Slot(MaxTime) + 1)}
    /\ clock \in Time

Init ==
    /\ telemetry = [s \in Slots |-> NoValue]
    /\ loop = "off"
    /\ shutdown = NoValue
    /\ now = NoValue
    /\ wake = 0
    /\ clock = 0

-----------------------------------------------------------------------------
(* One cycle. *)

Stored == {s \in Slots : telemetry[s] # NoValue}

\* Variant: the oldest usable document.
OldestBaseline(slot) ==
    LET usable == {s \in Stored : s < slot /\ telemetry[s].energyOk}
    IN  IF usable = {} THEN NoValue
        ELSE LET oldest == CHOOSE s \in usable : \A u \in usable : s <= u
             IN  AsPreviousReading(oldest, telemetry[oldest])

\* find_previous_reading: the newest usable document before the slot.
Baseline(slot) ==
    LET usable == {s \in Stored : s < slot /\ telemetry[s].energyOk}
    IN  IF usable = {} THEN NoValue
        ELSE LET newest == CHOOSE s \in usable : \A u \in usable : u <= s
             IN  AsPreviousReading(newest, telemetry[newest])

\* A counter that starts from zero at midnight.
Counter(t) == t % DayLength

\* What a cycle that started at t may store: the counter or a failure, and for a
\* rollover the finalized total or none.  The state request always answers.
Observations(t) ==
    {BuildObservation(t, energy, Success(NoValue), Baseline(Slot(t)),
                      \E s \in Stored : s < Slot(t), final) :
        energy \in {Success(Counter(t)), Failed("OTHER")},
        final \in {NoValue, DayLength}}

BeginCycle ==
    /\ loop = "top"
    /\ shutdown = NoValue
    /\ loop' = "cycle"
    /\ now' = clock
    /\ UNCHANGED <<telemetry, shutdown, wake, clock>>

\* Variant: the last writer wins.
LastWritten(stored, doc) == doc

\* write_observation: created or upgraded, otherwise left as it is.
Written(stored, doc) ==
    IF stored = NoValue \/ Completeness(doc) > Completeness(stored)
    THEN doc ELSE stored

Observe ==
    /\ loop = "cycle"
    /\ shutdown = NoValue
    /\ \E doc \in Observations(now) :
           telemetry' = [telemetry EXCEPT ![Slot(now)] = Written(@, doc)]
    /\ loop' = "tail"
    /\ UNCHANGED <<shutdown, now, wake, clock>>

\* The cycle ends without a write: the stop event is set, another cycle holds
\* the lease, a request for a profile or a store operation failed.
Abandon ==
    /\ loop = "cycle"
    /\ loop' = "tail"
    /\ UNCHANGED <<telemetry, shutdown, now, wake, clock>>

-----------------------------------------------------------------------------
(* The loop. *)

\* A new process, with a stop event of its own.
Start ==
    /\ loop = "off"
    /\ loop' = "top"
    /\ UNCHANGED <<telemetry, shutdown, now, wake, clock>>

\* The process is gone, and its locals with it.
Ended ==
    /\ loop' = "off"
    /\ shutdown' = NoValue
    /\ now' = NoValue
    /\ wake' = 0

\* Variant: tested after a cycle only.
StopAfterCycle ==
    /\ loop = "tail"
    /\ shutdown # NoValue
    /\ Ended
    /\ UNCHANGED <<telemetry, clock>>

\* The two tests of the stop event: at the head of the loop, after a cycle.
Stop ==
    /\ loop \in {"top", "tail"}
    /\ shutdown # NoValue
    /\ Ended
    /\ UNCHANGED <<telemetry, clock>>

WaitForSlot ==
    /\ loop = "tail"
    /\ shutdown = NoValue
    /\ loop' = "wait"
    /\ wake' = NextSlot(clock)
    /\ UNCHANGED <<telemetry, shutdown, now, clock>>

\* Variant: the loop only sleeps.
TimeIsUp(t) == t >= wake

\* default_wait returns when the event is set or the time is up.
WaitIsOver(t) == shutdown # NoValue \/ t >= wake

WakeUp ==
    /\ loop = "wait"
    /\ WaitIsOver(clock + MaxEarly)
    /\ loop' = "top"
    /\ UNCHANGED <<telemetry, shutdown, now, wake, clock>>

\* SIGINT or SIGTERM.
Signal ==
    /\ loop # "off"
    /\ shutdown = NoValue
    /\ shutdown' = clock
    /\ UNCHANGED <<telemetry, loop, now, wake, clock>>

\* The process is killed.
Kill ==
    /\ loop # "off"
    /\ Ended
    /\ UNCHANGED <<telemetry, clock>>

\* Time passes only where the process waits for something: an answer, a timer.
MayPass ==
    CASE loop = "off" -> TRUE
      [] loop = "top" -> FALSE
      [] loop \in {"cycle", "tail"} -> clock < now + MaxCycle
      [] loop = "wait" -> ~WaitIsOver(clock - MaxLate)

Tick ==
    /\ clock < MaxTime
    /\ MayPass
    /\ clock' = clock + 1
    /\ UNCHANGED <<telemetry, loop, shutdown, now, wake>>

\* What a running process does next.
Step == BeginCycle \/ Observe \/ Abandon \/ Stop \/ WaitForSlot \/ WakeUp

Next == Start \/ Step \/ Signal \/ Kill \/ Tick

Spec == Init /\ [][Next]_vars

\* The event loop runs whatever is ready.
FairSpec == Spec /\ WF_vars(Step)

-----------------------------------------------------------------------------

\* "Runs a cycle per interval" (commands/poll.py:5) is true up to one slot: a
\* process never goes back, and skips a slot only after a cycle that could still
\* have been running when that slot began, one slot at a time.  (A process
\* started late in a slot, and a timer that fires early, make such cycles.)
SkipsAtMostOneSlot ==
    [][BeginCycle /\ now # NoValue =>
          /\ Slot(now) <= Slot(clock)
          /\ Slot(clock) <= Slot(now) + 2
          /\ Slot(clock) = Slot(now) + 2 => Slot(now + MaxCycle) > Slot(now)]_vars

\* A stop is prompt: after the signal no wait is sat out and no cycle begins, so
\* that the process is gone once the cycle in progress has ended.
StopIsPrompt ==
    loop # "off" /\ shutdown # NoValue => clock <= shutdown + MaxCycle

\* A process that was signalled exits "without requiring forced termination"
\* (openspec/specs/collector-runtime/spec.md:128).
SignalStops == shutdown # NoValue ~> loop = "off"

Promise == INSTANCE Series WITH series <- [s \in Slots |-> AsEntry(telemetry[s])]

\* Whenever it is started, stopped or killed, and however early its timers fire, a
\* poller implements the abstract series: a second cycle of a slot improves its
\* observation or leaves it ("first writer wins", operations.md:467).
PollerImplementsSeries == Promise!SeriesSpec
=============================================================================
