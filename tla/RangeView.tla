------------------------------ MODULE RangeView ------------------------------
(***************************************************************************)
(* What the dashboard's pages compute of the observations of a window:     *)
(* totals, coverage, clock-aligned buckets and their states                *)
(* (src/airchive/dashboard/presentation.py), over the series that a poller *)
(* has left.  Local time runs at a constant distance from UTC, and local   *)
(* midnight is where Day changes.                                          *)
(***************************************************************************)
EXTENDS Poller, FiniteSetsExt

CONSTANT Widths   \* the widths of buckets, in ticks

ASSUME WidthsAssumption == Widths \subseteq Nat \ {0}

\* The documents observed in since <= t < until: load_range's answer when the
\* cache holds all of the window.
ObservedIn(since, until) ==
    {telemetry[s] : s \in {u \in Stored : since <= telemetry[u].at
                                          /\ telemetry[u].at < until}}

HasNumber(docs) == {doc \in docs : doc.interval # NoValue}
TotalOf(docs) == MapThenSumSet(LAMBDA doc : doc.interval, HasNumber(docs))

AnomalousStatus == {"ANOMALOUS_DECREASE", "DAY_ROLLOVER_UNRESOLVED",
    "MULTI_DAY_GAP", "MISSING_PREVIOUS_SAMPLE", "ENERGY_UNAVAILABLE"}
AnomalousFlag == {"DEVICE_OFFLINE", "RATE_LIMITED", "PARTIAL_OBSERVATION",
    "IMPLAUSIBLE_FINAL_TOTAL"}

IsAnomalous(doc) ==
    doc.status \in AnomalousStatus \/ doc.flags \intersect AnomalousFlag # {}

-----------------------------------------------------------------------------
(* summarize_range *)

\* Variant: rounded down.
WholeSlots(since, until) == (until - since) \div Interval

\* The length of the window over the cadence, rounded up.
ExpectedSlots(since, until) == (until - since + Interval - 1) \div Interval

SummarizeRange(docs, since, until) ==
    LET expected == ExpectedSlots(since, until)
    IN  [total |-> TotalOf(docs),
         complete |-> /\ Cardinality(docs) >= expected
                      /\ Cardinality(HasNumber(docs)) >= expected]

-----------------------------------------------------------------------------
(* bucket_series and bucket_rows *)

\* Python's round: halves go to the even number.
Round(n, d) ==
    LET down == n \div d
        twice == 2 * (n % d)
    IN  IF twice > d \/ (twice = d /\ down % 2 = 1) THEN down + 1 ELSE down

AtLeastOne(n) == IF n < 1 THEN 1 ELSE n
ExpectedSamples(width) == AtLeastOne(Round(width, Interval))

\* The start of the bucket t falls in, counted from the midnight before since.
BucketOf(t, since, width) ==
    LET anchor == Day(since) * DayLength
    IN  anchor + ((t - anchor) \div width) * width

\* Variant: a bucket that ends after the window is left out.
WholeBucketStarts(since, until, width) ==
    {b \in BucketOf(since, since, width)..(until - 1) :
        (b - BucketOf(since, since, width)) % width = 0 /\ b + width <= until}

\* The loop over the starts, from that of since on, while before until.
BucketStarts(since, until, width) ==
    {b \in BucketOf(since, since, width)..(until - 1) :
        (b - BucketOf(since, since, width)) % width = 0}

\* Variant: the number of samples is not compared.
StateWithoutCount(docs, width) ==
    IF HasNumber(docs) = {} THEN "No stored value"
    ELSE IF \E doc \in docs : IsAnomalous(doc) THEN "Partial coverage"
    ELSE "Complete"

BucketState(docs, width) ==
    IF HasNumber(docs) = {} THEN "No stored value"
    ELSE IF \/ Cardinality(HasNumber(docs)) < ExpectedSamples(width)
            \/ \E doc \in docs : IsAnomalous(doc)
    THEN "Partial coverage"
    ELSE "Complete"

BucketSeries(docs, since, until, width) ==
    [b \in BucketStarts(since, until, width) |->
        LET own == {doc \in docs : BucketOf(doc.at, since, width) = b}
        IN  [total |-> TotalOf(own), state |-> BucketState(own, width)]]

-----------------------------------------------------------------------------
(* What the pages promise of every window up to now. *)

\* The windows up to now.  They are read of every series when its poller has just
\* been killed, which makes no difference to what they show.
IsWindow(since, until) == loop = "off" /\ since < until

\* A slot that lies within from <= t < to and has no number.
IsAbsent(s, from, to) ==
    /\ from <= s * Interval
    /\ (s + 1) * Interval <= to
    /\ s \notin Stored \/ telemetry[s].interval = NoValue

\* "It SHALL sum only stored non-null interval values"
\* (local-telemetry-dashboard/spec.md:81): the bars of a window add up to the
\* total shown beside them, whatever the width: no sample is dropped at an edge
\* of the window or counted in two bars.
BarsAddUp ==
    \A since, until \in 0..clock : IsWindow(since, until) =>
        LET docs == ObservedIn(since, until)
        IN  \A width \in Widths :
                LET bars == BucketSeries(docs, since, until, width)
                IN  MapThenSumSet(LAMBDA b : bars[b].total, DOMAIN bars)
                      = SummarizeRange(docs, since, until).total

\* "A slot holding fewer samples than its width implies SHALL be marked as
\* partially covered" (local-telemetry-dashboard/spec.md:88): a bar marked
\* Complete has a number for every slot in it, wherever in their slots the
\* samples lie.  True of the widths that the slots and the day divide evenly.
CompleteBarIsWhole ==
    \A since, until \in 0..clock : IsWindow(since, until) =>
        LET docs == ObservedIn(since, until)
        IN  \A width \in {v \in Widths : v % Interval = 0 /\ DayLength % v = 0} :
                LET bars == BucketSeries(docs, since, until, width)
                IN  \A b \in DOMAIN bars, s \in Slots :
                        bars[b].state = "Complete" => ~IsAbsent(s, b, b + width)

\* The page says that a range is incomplete "whenever expected intervals are
\* absent" (local-telemetry-dashboard/spec.md:82) up to one: the samples of the
\* two slots cut by the edges may make up for one absent in between, and for none
\* when an edge lies on a slot's boundary.
CompleteRangeHidesAtMostOne ==
    \A since, until \in 0..clock : IsWindow(since, until) =>
        LET docs == ObservedIn(since, until)
            absent == {s \in Slots : IsAbsent(s, since, until)}
        IN  SummarizeRange(docs, since, until).complete =>
                /\ Cardinality(absent) <= 1
                /\ since % Interval = 0 \/ until % Interval = 0 => absent = {}

\* A total is never more than what was consumed from the oldest baseline of the
\* window to its newest sample, and all of it unless a reading in the window has no
\* number: restarts, skipped slots, second cycles of a slot and failures make no
\* unit count twice, and lose none.
TotalIsConsumed ==
    \A since, until \in 0..clock : IsWindow(since, until) =>
        LET docs == HasNumber(ObservedIn(since, until))
            readings == {doc \in ObservedIn(since, until) : doc.energyOk}
            consumed == Max({doc.at : doc \in docs})
                          - Min({doc.previous.at : doc \in docs})
        IN  docs # {} =>
                /\ TotalOf(docs) <= consumed
                /\ readings \subseteq docs => TotalOf(docs) = consumed
=============================================================================
