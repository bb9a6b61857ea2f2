----------------------------- MODULE Observation -----------------------------
(***************************************************************************)
(* One observation of the air conditioner: how a cumulative daily counter  *)
(* reading is turned into the consumption of an interval, how the result   *)
(* is classified, and what the stored document holds.  Pure operators, no  *)
(* state: src/airchive/observation/{model,delta,build}.py.                 *)
(*                                                                         *)
(* Times are ticks of one integer clock.  A slot is Interval ticks, a day  *)
(* of LG's counter is DayLength ticks, and a document is identified by its *)
(* slot (storage/ids.py derives the sample id from the slot and sorts the  *)
(* same way).  A counter reading is an integer number of device units.     *)
(***************************************************************************)
EXTENDS Integers

CONSTANTS
    Interval,    \* nominal cadence, in ticks (poll_interval_seconds)
    DayLength,   \* length of a counter day, in ticks
    MaxTime,     \* bound: the last instant of the clock
    NoValue      \* the absence of a value (Python's None)

ASSUME IntervalAssumption == Interval \in Nat \ {0}
ASSUME DayLengthAssumption == DayLength \in Nat \ {0}
ASSUME MaxTimeAssumption == MaxTime \in Nat
ASSUME NoValueAssumption == NoValue \notin Int

Time == 0..MaxTime
Reading == Nat                       \* a daily counter never goes below zero
Optional(S) == S \union {NoValue}

\* The slot a time falls in: floor_to_slot, the document key of the cycle.
Slot(t) == t \div Interval

\* The local date LG labels the counter with at time t.
Day(t) == t \div DayLength

IntervalStatus == {"NORMAL", "NEW_BASELINE", "MISSING_PREVIOUS_SAMPLE",
    "COARSE_INTERVAL", "DAY_ROLLOVER_RESOLVED", "DAY_ROLLOVER_UNRESOLVED",
    "ANOMALOUS_DECREASE", "MULTI_DAY_GAP", "ENERGY_UNAVAILABLE"}

QualityFlag == {"RATE_LIMITED", "DEVICE_OFFLINE", "UNCHANGED_COUNTER",
    "PARTIAL_OBSERVATION", "RECONCILED", "IMPLAUSIBLE_FINAL_TOTAL"}

\* The classes of ThinQ failure an observation tells apart; OTHER stands for
\* the transient, transport, malformed and fatal ones.
FailureClass == {"RATE_LIMITED", "DEVICE_OFFLINE", "OTHER"}

-----------------------------------------------------------------------------
(* The outcome of one of the two requests of a cycle. *)

Success(v) == [ok |-> TRUE, value |-> v, failure |-> NoValue]
Failed(class) == [ok |-> FALSE, value |-> NoValue, failure |-> class]

RequestResult ==
    [ok : BOOLEAN, value : Optional(Reading), failure : Optional(FailureClass)]

\* An energy request that succeeded carries a reading; a state one never does.
EnergyResult == {r \in RequestResult : r.ok <=> r.value # NoValue}
StateResult == {r \in RequestResult : r.value = NoValue}

\* The baseline an interval is computed against.
PreviousReading == [slot : Nat, at : Time, value : Reading]

\* Variant: the state outranks the energy.
StateFirst(doc) ==
    (IF doc.energyOk THEN 1 ELSE 0) + (IF doc.stateOk THEN 2 ELSE 0)

\* Energy outranks state: without energy a document is no baseline.
Completeness(doc) ==
    (IF doc.energyOk THEN 2 ELSE 0) + (IF doc.stateOk THEN 1 ELSE 0)

-----------------------------------------------------------------------------
(* observation/delta.py *)

Outcome(value, seconds, status, flags, final) ==
    [value |-> value, seconds |-> seconds, status |-> status,
     flags |-> flags, final |-> final]

\* More than one and a half nominal intervals.
IsCoarse(seconds) == 2 * seconds > 3 * Interval

SameDay(current, previous, seconds) ==
    IF current < previous
    THEN Outcome(NoValue, seconds, "ANOMALOUS_DECREASE", {}, NoValue)
    ELSE Outcome(current - previous, seconds,
                 IF IsCoarse(seconds) THEN "COARSE_INTERVAL" ELSE "NORMAL",
                 IF current = previous THEN {"UNCHANGED_COUNTER"} ELSE {},
                 NoValue)

\* (finalPrevious - previousDaily) + currentDaily
Reconstruct(final, previous, current) == (final - previous) + current

DayRollover(current, previous, seconds, final) ==
    IF final = NoValue
    THEN Outcome(NoValue, seconds, "DAY_ROLLOVER_UNRESOLVED", {}, NoValue)
    ELSE IF final < previous
    THEN Outcome(NoValue, seconds, "DAY_ROLLOVER_UNRESOLVED",
                 {"IMPLAUSIBLE_FINAL_TOTAL"}, final)
    ELSE Outcome(Reconstruct(final, previous, current), seconds,
                 "DAY_ROLLOVER_RESOLVED", {}, final)

DayGap(at, previous) == Day(at) - Day(previous.at)

\* current, previous and final may be NoValue; hasPrior says whether any
\* document precedes this one, usable as a baseline or not.
ComputeInterval(current, at, previous, hasPrior, final) ==
    IF current = NoValue
    THEN Outcome(NoValue, NoValue, "ENERGY_UNAVAILABLE", {}, NoValue)
    ELSE IF previous = NoValue
    THEN Outcome(NoValue, NoValue,
                 IF hasPrior THEN "MISSING_PREVIOUS_SAMPLE" ELSE "NEW_BASELINE",
                 {}, NoValue)
    ELSE LET seconds == at - previous.at
             gap == DayGap(at, previous)
         IN CASE gap < 0 -> Outcome(NoValue, seconds, "MISSING_PREVIOUS_SAMPLE",
                                    {}, NoValue)
              [] gap = 0 -> SameDay(current, previous.value, seconds)
              [] gap = 1 -> DayRollover(current, previous.value, seconds, final)
              [] gap > 1 -> Outcome(NoValue, seconds, "MULTI_DAY_GAP", {}, NoValue)

-----------------------------------------------------------------------------
(* observation/build.py *)

\* Conditions true of the cycle whatever the interval arithmetic says.
ConditionFlags(energy, state) ==
    LET classes == {energy.failure, state.failure}
    IN  (classes \intersect {"RATE_LIMITED", "DEVICE_OFFLINE"})
        \union (IF energy.ok # state.ok THEN {"PARTIAL_OBSERVATION"} ELSE {})

\* The document a cycle that started at `at` stores.
BuildObservation(at, energy, state, previous, hasPrior, final) ==
    LET outcome == ComputeInterval(energy.value, at, previous, hasPrior, final)
    IN  [at |-> at, energyOk |-> energy.ok, stateOk |-> state.ok,
         value |-> energy.value, previous |-> previous,
         interval |-> outcome.value, seconds |-> outcome.seconds,
         final |-> outcome.final, status |-> outcome.status,
         flags |-> outcome.flags \union ConditionFlags(energy, state)]

Document ==
    [at : Time, energyOk : BOOLEAN, stateOk : BOOLEAN, value : Optional(Reading),
     previous : Optional(PreviousReading), interval : Optional(Int),
     seconds : Optional(Int), final : Optional(Reading),
     status : IntervalStatus, flags : SUBSET QualityFlag]

ASSUME NoDocumentAssumption == NoValue \notin PreviousReading \union Document

\* Variant: any earlier document serves as a baseline.
AnyDocumentAsReading(slot, doc) ==
    [slot |-> slot, at |-> doc.at, value |-> doc.value]

\* The document as a baseline, or NoValue when it carries no usable energy.
AsPreviousReading(slot, doc) ==
    IF doc.energyOk /\ doc.value # NoValue
    THEN [slot |-> slot, at |-> doc.at, value |-> doc.value]
    ELSE NoValue

\* The rollover of the document waits for its total.
Waits(doc) ==
    /\ doc.status = "DAY_ROLLOVER_UNRESOLVED"
    /\ "IMPLAUSIBLE_FINAL_TOTAL" \notin doc.flags

\* The document as the abstract series (module Series) sees it.
AsEntry(doc) ==
    IF doc = NoValue THEN NoValue
    ELSE [level |-> Completeness(doc), waits |-> Waits(doc)]

ASSUME NoEntryAssumption == NoValue \notin [level : Nat, waits : BOOLEAN]
=============================================================================
