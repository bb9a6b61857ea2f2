# Verification of the Airchive telemetry poller

Airchive polls one LG air conditioner through LG's ThinQ API, writes one
observation per time slot to Firestore, and shows the series in a local
Streamlit dashboard that keeps a SQLite cache. This directory holds TLA+ modules
translated from that code, the TLC configurations that check them on small
instances, and proofs, checked by TLAPS, of what holds for every value of the
constants. Paths without a prefix are relative to `src/src/airchive/`.

1. [The system](#1-the-system)
2. [The modules and the code](#2-the-modules-and-the-code)
3. [The runs](#3-the-runs)
4. [Findings](#4-findings)
5. [The proofs](#5-the-proofs)
6. [What is not modelled](#6-what-is-not-modelled)
7. [Plan](#7-plan)

## 1. The system

| component | state it keeps | operations | what makes it correct |
|---|---|---|---|
| polling cycle, `runtime/cycle.py` | the locals of `run_cycle`; nothing survives it | one cycle: lease, two requests, baseline, write, back-off, queue, outcome | cycles do not double up; a slot's record is never degraded; a number is stored only when it can be computed; the process always comes back |
| telemetry store, `storage/store.py` | Firestore documents: `telemetry/*`, `metadata`, `dailyTotals`, `runtime/collector` (health and lease), `runtime/reconciliation` (queue) | transactions, one per method | the first writer wins between equals; only the holder releases; queued entries are settled or expire |
| observation arithmetic, `observation/delta.py`, `build.py`, `model.py` | none | `compute_interval`, `reconstruct_previous_day_total`, `build_observation`, `completeness` | an interval is the energy consumed since the baseline, across one midnight at most; every derived number follows from the raw ones beside it |
| ThinQ boundary, `thinq/*.py` | none | one request each for state, energy and profiles; parsing; classification of failures | another day's counter never becomes this day's; every failure has a class |
| request retries, `runtime/retry.py` | none | `call_with_retries`, `delay_for`, `rate_limit_cooldown_seconds` | a request ends within its budget and one attempt; a cycle's requests end before its lease |
| rate-limit cooldown, `runtime/cycle.py` 400-425 with the health document | `consecutiveRateLimits`, `rateLimitedUntil` | `in_cooldown`, `_update_rate_limit_state` | fewer requests while LG limits, the normal cadence after it relents |
| dashboard synchronization, `dashboard/service.py`, `cache.py`, `repository.py` | SQLite: rows, covered ranges, watermark | `load_range`, `ensure_range`, `refresh`, `clear_cache`, `open_recovering` | a covered range never hides a document or a change |
| poller loop, `runtime/poller.py` | a stop event | wait for the next slot, run a cycle, stop on a signal | a cycle for each slot, but for one after a cycle that ran late; a stop is prompt |
| dashboard pages, `dashboard/presentation.py`, `app.py` | none | `summarize_range`, `bucket_series`, `bucket_rows` over a window | the bars add up to the total; what is called complete is; nothing counts twice |
| commands, `commands/poll.py`, `serve.py` | none | `poll --once`, `POST /poll` | success is reported only of a stored slot, or of a cycle skipped for a lease in force |
| charts, layout, inspection and diagnostic commands, configuration, logging, redaction | none that is shared | rendering, listing, parsing | not a question of order or of concurrency |

**How they interact.** A scheduler (Cloud Scheduler with `POST /poll`, the
`poll` loop, or an operator with `poll --once`) starts an execution of
`run_cycle`. Executions share nothing but the store, and each store method is
one transaction, so an execution is a sequence of transactions with requests in
between. The lease in `runtime/collector` is what keeps executions apart. The
dashboard reads the same store with queries (by `observedAt`, `persistedAt` and
`reconciledAt`) and never writes to it. Its browser sessions are threads of one
process that share one service, one cache object and one SQLite connection.

**What is hard.**

* *Interleaving.* The deployed service has concurrency 1, but a request timeout
  (120 s) does not end the process, the scheduler may deliver twice, and an
  operator may poll by hand. Executions overlap at every transaction boundary.
* *Stale state.* `now`, the health, the baseline, the queue and the document to
  reconcile are each read once and used several transactions later.
* *Crashes.* Between any two transactions; nothing is replayed, the next slot's
  cycle is a new one.
* *Failures of one step of several.* The store, either request, a total.
* *Time.* Leases, cooldowns, the 24-hour window, a counter that resets at local
  midnight, changes stamped with a time earlier than the one they appear at.
* *Threads on one connection.* `with self._connection` commits or rolls back
  whatever any session has written.
* *Edges.* Samples lie anywhere in their slots, windows begin and end anywhere,
  and what counts slots, what fills buckets and what looks for gaps are formulas
  of their own.

`PROJECT.json` lists each of these at its line with the properties that would
catch it, or the reason that none does.

## 2. The modules and the code

```
Observation --> EnergyPayload --> Cycle --> CycleProperties --> MCCycle
 |   |                                       |      |
 |   |                          Series ------+      +--> CycleProofs --> SeriesProofs
 |   |                     (INSTANCE ... WITH)      |                      +--> OrderlyProofs
 |   +--> ObservationProofs ------------------------+
 |                   +------------+
 +--> Poller --> RangeView --> PollerProofs      (Poller: INSTANCE Series WITH ...)
                     +--> MCRangeView

RateLimit --> RateLimitProofs     RequestTime --> RequestTimeProofs

DashboardSync --> MCDashboardSync
      +--> DashboardProofs
```

### Observation, EnergyPayload

`Observation` is the arithmetic of one document: `DayGap`, `ComputeInterval`,
`Reconstruct`, `BuildObservation`, `Completeness` and `AsPreviousReading`. Time
is an integer of ticks, a slot is `Interval` ticks and a day `DayLength` ticks.
Readings are integers: the code computes with exact decimals, and no property
depends on their scale. Of the flags of a document those are kept that some step
reads or some property names.

`EnergyPayload` is `extract_energy_reading`: of a list of records it takes the
one of the day asked for; undated records count only when no record has a date,
and then the last of them. `Payload` in `Cycle` builds the answers; the shapes
are a single object, dated records among others, undated records, records of
another day only, a record whose number cannot be read, and no record.

### Cycle

An execution `e` is a process with a program counter `pc[e]` and the locals
`cycle[e]` of `run_cycle`, `_run_cycle_body` and `_reconcile_pending`. Each
action is one store transaction, in the order of the code. A request changes
nothing but the locals, so it belongs to the step beside it.

| code | actions |
|---|---|
| `run_cycle`: `now`, `acquire_lease`, skip | `Start`, `AcquireLease`, `SkipForLease` |
| `record_attempt`, `get_health`, `in_cooldown` | `ReadHealth` |
| the two requests, the profiles of a cold start | `CooldownRequests`, `Requests`, `ProfileFails` |
| `find_previous_reading` and its day gap | `FindPrevious` |
| `_finalized_total` of the rollover path | `ReadCachedTotal`, `RequestTotal` |
| `write_observation`; shutdown before it | `WriteObservation`, `Abandon` |
| `_update_rate_limit_state` | `UpdateRateLimitState` |
| `enqueue_reconciliation` | `EnqueueReconciliation` |
| `_reconcile_pending`, per entry | `ReadPending`, `ExpireItem`, `TakeItem`, `LeaveItem`, `FindTotal`, `AskTotal`, `LoadObservation`, `ApplyReconciliation`, `MarkImplausible`, `DequeueReconciliation`, `QueueDone` |
| `record_success`, `record_failure` | `RecordOutcome` |
| any exception, `record_failure`, `finally: release_lease` | `Raise`, `RecordError`, `ReleaseLease`, `StoreFails` |
| `poll --once` and `POST /poll` | `ExitZero`, `Response`, in the step that returns |
| the process is killed; time passes | `Crash`, `Tick` |

Decisions a reader may want to check:

* `record_attempt`, and the health fields `lastAttemptAt`, `lastSuccessAt` and
  `lastError*`, are left out, because no step reads them. `consecutiveFailures`
  is the Boolean `failing`.
* `put_metadata` is two writes of which only `current` is read, so a crash
  between them leaves what a crash before them leaves.
* A store call that is applied but reported as failed is an applied call
  followed by a failure at the next one; `Raise` covers both.
* `result.wrote` lives in the result object and survives a later exception.
  A cycle that fails after its write thus exits 0, and a duplicate that leaves
  the slot as it is exits 1. `SuccessMeansStored` fits both. A cycle skipped for a
  lease exits 0 without writing, and if the holder of that lease then fails the slot
  is never stored: that is the exception the property makes.
* An execution id is reused when it returns: the code makes a fresh token each
  time, and a fresh token could only find fewer leases to be its own.
* Malformed queue entries are dropped by the code and not modelled: no step
  writes one.
* Two constants switch assumptions about time on and off. `MayOutlive` is whether
  an execution may still run when its lease has run out, and `MayLag` is whether a
  slot may be over before the execution that started in it has asked for the lease.
  `run_cycle` calls `acquire_lease` at once after `now` (`runtime/cycle.py:222-232`),
  with nothing but the store client's transaction in between; but that transaction
  is retried on contention and its time is not bounded by the code. Both are
  therefore TRUE where a property does not need them, and the properties that do
  are named in section 3.

### Series

The abstract specification of the collector: a slot receives an observation, or a
strictly more complete one in place of the one it has (`Record`), and an
observation that waits for a total of the day before stops waiting, once
(`Settle`). `CycleProperties` instantiates it with the refinement mapping
`AsEntry` (in `Observation`): a document's level is its `Completeness`, and it waits while its status
is `DAY_ROLLOVER_UNRESOLVED` without `IMPLAUSIBLE_FINAL_TOTAL`. `ImplementsSeries`
is checked of executions that overlap and outlive their leases, and proved. It
says that nothing ever begins to wait again, and that only an upgrade changes a
level, whatever an execution had read before. `Poller`, whose series the pages are
read from, implements it under the same mapping (`PollerImplementsSeries`), so that both
models of a cycle keep one promise; it never reconciles, so that of the stale read before
`apply_reconciliation` only the refinement by `Cycle` says anything.

### Poller

`run_loop` as one process: `loop` is where it is, `shutdown` the instant at which
its stop event was set, `wake` the start of the slot it waits for.

| code | actions |
|---|---|
| `_run` builds the stop event and calls `run_loop` | `Start` |
| `while not shutdown.is_set()` and `run_cycle(now=clock())` | `BeginCycle` |
| the cycle: its write, or its end without one | `Observe`, `Abandon` |
| the two tests of the event | `Stop` |
| `seconds_until_next_slot(clock())`, `wait_for(shutdown.wait(), ...)` | `WaitForSlot`, `WakeUp` |
| SIGINT, SIGTERM | `Signal` |
| the process is killed; time passes | `Kill`, `Tick` |

Of the cycle there is what the loop and the readers of the series can tell:
when it starts, what it writes, when it returns. The write uses
`BuildObservation`, the baseline and the precedence of the code; the state request
always answers, and a rollover either has its total or none. Reconciliation is
left to `Cycle`. Time stands still where the process only computes, and passes
while it waits for an answer or for the timer. `asyncio.wait_for` may return up to
`MaxEarly` before the time (the resolution of the clock) and the process may be
woken up to `MaxLate` after it.

### RangeView

What `presentation.py` computes of the documents of a window, over any series that
`Poller` can leave: `SummarizeRange`, `BucketStarts`, `BucketOf`, `BucketState`,
`BucketSeries`. A window is any pair of instants up to now: `app.py` asks for a
range that ends now and for days, weeks and months cut off at now, and a model with
all of them need not say which. Local midnight is where `Day` changes, and local
time is a constant distance from UTC. The cadence that the pages use
(`refresh_seconds` of the dashboard) is taken to be the interval of the poller, as
both are by default.

### RateLimit

The same cooldown transitions as in `Cycle`, but a whole cycle is one step and
`rateLimitedUntil` is kept as the distance `left`, so that behaviours never end
and liveness can be asked. `count` stops at 4, from which on the cooldown is the
longest one. A tick is one polling interval.

### RequestTime

`call_with_retries` around the requests of one cycle, in half seconds (jitter is
half a delay either way). The profiles and the finalized totals are asked for
once, as in the code. `ClassifyException` is `classify_exception`, and
`Budget` and `LeaseSeconds` are what `from_config` derives from the interval, the
lease in whole seconds. `spent` is the time of the request at hand before its attempt
in flight, which is what the budget is compared with; `before` is the time that the
requests before it took, last attempts included.

### DashboardSync

Each browser session `u` runs `load_range` in steps of one query or one SQLite
statement. `rows` is what the shared connection sees, `saved` what is committed:
a commit saves the rows of everyone, and a rollback undoes those of everyone.
The collector appears as `Persist` and `Reconcile`: documents change, each change
carries the start of the cycle that makes it, and shows up to `CommitDelay`
later. A projection of a document is the version it was made of.

* The pages of one query are one step. Health and reconciliation documents,
  which are read and stored whole, are folded into the step beside them.
* The difference between the clocks of collector and dashboard is part of
  `CommitDelay`.
* `ClearCache` closes the connection under sessions that are in a transaction.
  `store_range` looks `self._connection` up for each statement; its second
  statement therefore goes to the new file (`OrphanCoverage`, `orphanStamp`).
* A window ends now or, as in the device view of an earlier day, in the past
  (`Endings`). `MissingRanges` is the loop of `missing_ranges` over the rows of
  `covered_ranges`, which the sessions have left in any order and overlap.
* A load begins at its own `now`. In the code the second load of a rendering (the
  device view's) is given the `now` of the first, which is a little older; that
  difference is part of `LoadTime`.

## 3. The runs

| run | instance | checks |
|---|---|---|
| `cycle_orderly` | two executions that take the lease within their slot and end or are killed within it, every payload shape, shutdown, three slots of two instants, two days, an honest counter | `TypeOK`, `MutualExclusion`, `IntervalsTile`, `IntervalsAreTrue`, `QueueNamesTheDay`, `DerivedFromRaw`, `NumberStays` |
| `cycle_queue` | one execution, the store fails at any step, totals come late, a midnight in every slot, fairness | `QueueIsBounded`, `CycleReturns`, `SuccessMeansStored` |
| `cycle_overlap` | two executions that outlive their leases, a counter that answers anything, one rate-limited cycle | `NoRequestInCooldown`, `NumberOnlyWhenResolved`, `BaselinePrecedes`, `RawOnlyImproves`, `OnlyTheHolderReleases`, `ImplementsSeries` |
| `rate_limit` | endless cycles, LG limits and relents, slots are missed | `TypeOK`, `RateIsReduced`, `PausesLetItRecover` |
| `request_time` | the default interval, all failures, all jitters in half seconds | `TypeOK`, `OverrunIsOneAttempt`, `WithinLease` |
| `cache_sync` | two sessions, windows that end now or in the past, failures, process crashes, resets, a document that changes | `TypeOK`, `NothingIsMissed`, `GapsAreExact`, `RefreshCatchesUp` |
| `poller` | one process after another, started at any instant, timers early and late, signals and kills, failed readings, a midnight; every window over every series, four bucket widths; fairness | `TypeOK`, `StopIsPrompt`, `SkipsAtMostOneSlot`, `SignalStops`, `BarsAddUp`, `CompleteBarIsWhole`, `CompleteRangeHidesAtMostOne`, `TotalIsConsumed`, `PollerImplementsSeries` |
| `rollover_not_queued`, `midnight_in_slot`, `cooldown_forever`, `cache_misses`, `coverage_alone` | see [Findings](#4-findings) | one property each, which TLC violates |

The comment above each property, in `CycleProperties` or at the end of its
module, says what it means and which code it is about. The ones that hold under
an assumption:

* **`MutualExclusion`** needs `MayOutlive = FALSE`. The code cannot promise more:
  a lease is only a time. `WithinLease` of `RequestTime` is what supports the
  assumption, as far as the requests decide it: the store operations between them
  have no bound in the code.
* **`IntervalsTile`** and **`QueueNamesTheDay`** need `MayLag = FALSE` as well. The
  lease keeps executions apart, but not in the order of their slots: `now` is taken
  before `acquire_lease` is called, and `storage/store.py:404-416` compares and
  leases with the caller's `now`. An execution that asks so late that its slot is
  over may be given the lease after a later slot has been written, and then writes
  a document that the later one should have had as its baseline.
* **`DerivedFromRaw`**, **`IntervalsAreTrue`** and **`NumberStays`** need both, and
  that no midnight falls inside a slot (`WholeSlots` in the proofs; in the run the
  interval divides the day). Without `MayOutlive = FALSE`: `_reconcile_pending`
  computes the interval from a document that it reads outside the transaction that
  patches it (`runtime/cycle.py:476` and 510), and `apply_reconciliation` does not
  compare, so that an upgrade in between leaves a number that does not follow from the
  raw values beside it. Without `MayLag = FALSE`: an execution that is late writes
  its slot again with another baseline, while the slot is still queued for the total
  of the first one's day; with `Interval = 1`, `DayLength = 2`, `LeaseLength = 2`,
  `MaxTime = 3` TLC finds this after some seven million states (no run is kept of
  it). With a midnight inside a slot: the run `midnight_in_slot`.
  `NumberOnlyWhenResolved` and `ImplementsSeries` hold in all of these cases.
* **`IntervalsAreTrue`** speaks of an honest counter. For two readings of one
  day it is what a counter means; across midnight it rests on the day of the
  finalized total, on the reconstruction and on the queue.
* **`NumberStays`** speaks of an honest counter too. An upgrade replaces the whole
  document, and the number of a reconciled rollover is found again because the
  total it used was cached before (`storage/store.py:264`). The number may grow then,
  because the counter has gone on since the first observation of the slot; where the
  raw part stays as it is, the number does too.
* **`SuccessMeansStored`** excepts a cycle that was skipped for a lease in force: it is
  answered 200, and its slot is stored only if the holder of the lease is in the same
  slot and gets as far as its write.
* **`QueueIsBounded`** needs `MayOutlive = FALSE`: the loop decides by the list that it
  read, and another execution could queue a slot behind its back.
* **`OverrunIsOneAttempt`** is as far as the ceiling of `retry.py:41` is one: nothing
  cuts the attempt short that starts just within the budget.
* **`SkipsAtMostOneSlot`** is as far as "a cycle per interval"
  (`commands/poll.py:5`) is true. A process started late in a slot, or woken early
  and so still in the old one, makes a cycle that may run over the boundary; the
  wait is counted from the end of that cycle, so the slot that began meanwhile has
  no cycle. The property needs a cycle and a delay of the timer shorter than an
  interval.
* **`CompleteBarIsWhole`** is about widths that the interval and the day divide.
  With others the expected number of samples is rounded (`presentation.py:202`), and
  a bar can be called complete with a slot missing. All widths of `bucket_options`
  divide the day, and the interval divides them at the default of 300 s.
* **`CompleteRangeHidesAtMostOne`**: a range that is not aligned to slots meets one
  slot more than its length over the cadence, so `complete`
  (`presentation.py:123`) can be true although one slot in between has no number.
  The specification asks for the warning whenever an expected interval is absent;
  TLC shows that one is the most that it hides, and none if either edge lies on a
  slot boundary.
* **`NothingIsMissed`** leaves out the ranges that `coverage_alone` is about
  (`orphaned`), and the run makes two named assumptions. `MayFailFirst = FALSE`: no
  load fails before the first watermark (what happens otherwise is
  `cache_misses`). `MayUndo = FALSE`: a statement fails only while no other
  session is in a transaction, because its rollback would undo the other's rows.
  It also needs `CommitDelay + LoadTime <= Overlap`, which the run makes tight;
  with `LoadTime = 2` TLC finds a violation. In the code the overlap is 10
  minutes.

### Bounds, and why they are enough

* **Time in `Cycle`** ends at `MaxTime` 1 to 4. `cycle_orderly` has two instants in a
  slot and two slots in a day: two executions that meet in one slot at different
  times, a same-day interval, a rollover, a slot tried twice, a cycle that ends in a
  later slot or past midnight, and a lookup past an unusable document. With
  `DayLength = 1` (`cycle_queue`) every slot is a new day, which gives rollovers in a
  row, day gaps of two and three, and entries that meet the end of their window.
* **Failures and faults.** `cycle_orderly` has failures of every request, every shape
  of an answer, crashes and shutdowns; `cycle_queue` has failures of the store; and in
  `cycle_overlap` one cycle of the behaviour may be rate limited. What the runs do not
  combine, the proofs do: they hold for any `Failures`, `Shapes` and `Faults`.
* **Executions**: two. The lease and the write rule compare a newcomer with what
  is stored, and a third execution finds nothing that a second could not have
  left; the lease theorems hold of any number.
* **`Lookback = 2`** stands for the code's 12; with the four slots of `cycle_queue` a
  usable document can fall out of reach.
* **`Uses`** is one unit in every tick in `cycle_orderly`, so that the energy consumed is
  the time passed, and none or one in `cycle_queue`. **`MaxReading = 1`** and
  these tell equal from different readings and a total below a reading from one at it. `MaxRateLimits = 9` is never
  reached; where it is 1, no cycle starts after a rate-limited one.
* **`poller`** has slots of three ticks and days of two slots, up to tick 9: four slots,
  two of them after a midnight, and cycles of up to two ticks. That is enough for a
  cycle that crosses a boundary, a second cycle in a slot, a skipped slot, a restart
  in each of these, a rollover with and without its total, and windows of every
  alignment. The `Widths` are one that divides the day but no slot (2), a slot (3), one
  that fits neither the slots nor the day (4), and a day (6). The windows are read in
  the states where no process runs; a process can be killed at any time, so every
  series is read.
* **`Beginnings = {0}`, `Endings = {2}`** in `cache_sync`: a window of the past next
  to ones that end at 1, 2 and 3, so that rows nest, abut and overlap at their ends.
  `GapsAreExact` compares the rows with every window there is, also those that no
  session asks for.
* **`Slots` of `DashboardSync`**: one document that changes twice. Neither the
  queries nor the rows relate two documents; two would only multiply states.
* **`RateLimit`** has the ratio of the code, 600 s to 3600 s, in intervals of
  300 s (`Base = 2`, `Maximum = 12`). It is finite with no further bound than
  `MaxMissed`.
* **`Durations`** in `RequestTime`: the shortest, the longest and a middle value of
  an attempt. Every jitter of a delay that is a whole number of half seconds is
  enumerated.
* **Symmetry** of executions and of sessions is used with safety properties only;
  the configurations that check liveness have none.
* `CHECK_DEADLOCK FALSE` is set where the model stops at the end of its time, or,
  in `RequestTime`, at the end of a cycle.

### Fairness

`FairSpec` of `Cycle` is weak fairness of `Step(e)`, for each execution: asyncio
runs a started `run_cycle` to its end, every request has a timeout and the client
library's store calls return or raise. There is none for `Start`, for crashes or
for time. `RateLimit` has weak fairness of `Tick` and of `Cycle`: time passes, and
the scheduler runs a cycle that stays due. LG's limiting is never assumed fair;
`PausesLetItRecover` and `CadenceResumes` have it as a premise. `FairSpec` of
`Poller` is weak fairness of `Step`: the event loop runs what is ready, and
`run_cycle` returns. `Start`, `Signal`, `Kill` and `Tick` have none, so
`SignalStops` says that a signalled process ends without the help of any of them.

## 4. Findings

Each has a run whose only property TLC violates.

1. **The cooldown may never end** (`cooldown_forever`, `runtime/cycle.py:413`). The
   observation of a cycle inside the cooldown carries `RATE_LIMITED`, from
   `_cooldown_failure`, although nothing was asked, and
   `_update_rate_limit_state` counts it and sets `rateLimitedUntil` anew. The
   first cooldown is 600 s, longer than the 300 s interval: while the scheduler
   delivers every slot no request is ever made again. `docs/operations.md:595` and
   `openspec/specs/collector-runtime/spec.md:75` say that the normal cadence
   resumes. `PausesLetItRecover` is what does hold: the count returns to zero if,
   again and again, some cycle starts outside the cooldown.
2. **A rollover may be left out of the queue** (`rollover_not_queued`,
   `runtime/cycle.py:366`). The document is written before the queue entry, in two
   transactions. After a crash between them no cycle of a later slot retries the
   rollover; only a replay of the very slot would queue it.
   `docs/operations.md:379-380` says that the sample is queued.
3. **Midnight inside a slot** (`midnight_in_slot`, `runtime/cycle.py:370`), found by
   the attempt to prove `DerivedFromRaw`. A cycle queues its slot whenever what it
   built is an unresolved rollover, also when `write_observation` left the stored
   document as it was; and `apply_reconciliation` patches whatever document the slot
   holds. Where the cadence does not divide the local day (hourly polling at
   UTC+5:30), a slot that is delivered once before midnight and once after has its
   right number replaced by one that is made of the total of its own day. At the
   default of 300 s no midnight lies inside a slot.
4. **A change before the first successful refresh may be missed** (`cache_misses`,
   `dashboard/service.py:71`). Without a watermark a refresh looks back from its
   own start by the overlap, however long ago its ranges were covered.
5. **Coverage without rows** (`coverage_alone`, `dashboard/cache.py:256`). A reset
   by another session between the two statements of `store_range` removes the
   rows, and the coverage goes to the new file, where the recording of the failure
   commits it.

Some smaller disagreements have no run. `runtime/retry.py:41` calls `total_budget_seconds`
the "ceiling on the total time all attempts for one request may take"; it is compared
before the sleep, and the attempt after the sleep may take a full timeout. Asked whether
a request ends within its budget, TLC answers with one that takes 45.5 s of its
45 s, in the instance of `request_time`; `OverrunIsOneAttempt` is what holds, 60 s.
"Retries must not push a cycle past its own interval" (`runtime/cycle.py:67`;
`openspec/specs/collector-runtime/spec.md:62` asks for the same) is true from 180 s on,
which is `CycleBound` with the default budget. Below, two requests that use up their
budgets and last attempts, and the profiles and totals beside them, may take longer than
the interval: at 60 s, which the configuration accepts, TLC finds a warm cycle of 62.5 s.
Below 225 s they may take longer than the lease. The default is 300 s. `docs/operations.md:564` describes
`lastSuccessAt` otherwise than `runtime/cycle.py:385` sets it, a field no step
reads. The date of a single energy object is not compared with the day asked
for (`thinq/payloads.py:208`), against the comment at lines 238-241; the model
answers with single objects of the right day only. "Every derived number is
recomputable" (`observation/model.py:18-19`), "a cycle per interval"
(`commands/poll.py:5`) and the warning of an incomplete range are true up to what
[section 3](#3-the-runs) says of `DerivedFromRaw`, `SkipsAtMostOneSlot` and
`CompleteRangeHidesAtMostOne`.

## 5. The proofs

`tlapm` proves every theorem of the eight proof modules for every value of the
constants that satisfies the named `ASSUME`s (which say of the constants what
kind of value they are, and of `NoValue` that it is none of the others), and the
hypothesis in the second column. *Leased* is `MayOutlive = FALSE`, *prompt* is
`MayLag = FALSE`, *whole slots* that no two instants of a slot lie on different
days; why the code may assume them, and what happens when they fail, is in sections
[2](#2-the-modules-and-the-code) and [3](#3-the-runs). Each is needed: TLC violates
`MutualExclusion` and `QueueIsBounded` with `MayOutlive = TRUE`, `IntervalsTile` in the
instance of `cycle_orderly` with `MayLag = TRUE`, and `DerivedFromRaw` in
`midnight_in_slot`.

| theorem | hypothesis | property | argument |
|---|---|---|---|
| `CycleProofs!TypeCorrect` | | `TypeOK` | `TypeInv` |
| `CycleProofs!LeaseExcludes` | leased | `MutualExclusion` | `LeaseInv` |
| `CycleProofs!HolderReleases` | | `OnlyTheHolderReleases` | the step alone, from `TypeInv` |
| `SeriesProofs!RawImproves` | | `RawOnlyImproves` | the step alone, from `TypeInv` |
| `SeriesProofs!BaselineIsEarlier` | | `BaselinePrecedes` | `SeriesInv` |
| `SeriesProofs!NumbersAreEarned` | | `NumberOnlyWhenResolved` | `SeriesInv` |
| `SeriesProofs!CooldownIsQuiet` | | `NoRequestInCooldown` | `SeriesInv` |
| `SeriesProofs!SuccessIsStored` | | `SuccessMeansStored` | `WroteInv` |
| `SeriesProofs!CyclesImplementSeries` | | `ImplementsSeries` | `FoundedInv` |
| `OrderlyProofs!IntervalsAlwaysTile` | leased, prompt | `IntervalsTile` | `OrderInv` |
| `OrderlyProofs!QueueIsRight` | leased, prompt | `QueueNamesTheDay` | `OrderInv` |
| `OrderlyProofs!QueueStaysBounded` | leased | `QueueIsBounded` | `LoopInv` |
| `OrderlyProofs!NumbersFollowFromRaw` | leased, prompt, whole slots | `DerivedFromRaw` | `DerivedInv` |
| `OrderlyProofs!IntervalsAreConsumption` | leased, prompt, whole slots | `IntervalsAreTrue` | `HonestInv` |
| `OrderlyProofs!NumbersStay` | leased, prompt, whole slots | `NumberStays` | `HonestInv` |
| `PollerProofs!TypeCorrect` | | `TypeOK` | `PollerInv` |
| `PollerProofs!CompleteBars` | | `CompleteBarIsWhole` | `PollerInv`, counting |
| `PollerProofs!CompleteRanges` | | `CompleteRangeHidesAtMostOne` | `PollerInv`, counting |
| `PollerProofs!BarsAreTheTotal` | | `BarsAddUp` | `PollerInv`, sums of parts |
| `PollerProofs!TotalsAreConsumption` | | `TotalIsConsumed` | `SeriesInv`, sums of a chain |
| `PollerProofs!PollersImplementSeries` | | `PollerImplementsSeries` | `PollerInv` |
| `PollerProofs!StopsPromptly` | | `StopIsPrompt` | `LoopInv` |
| `PollerProofs!SkipsFew` | `MaxCycle <= Interval`, `MaxLate < Interval` | `SkipsAtMostOneSlot` | `LoopInv` |
| `RequestTimeProofs!TypeCorrect` | | `TypeOK` | `TimeInv` |
| `RequestTimeProofs!OverrunsAreBounded` | | `OverrunIsOneAttempt` | `TimeInv` |
| `RequestTimeProofs!LeaseCoversRequests` | `CycleBound <= LeaseSeconds` | `WithinLease` | `TimeInv` |
| `RequestTimeProofs!LeaseCoversFrom225Seconds` | the timeout and budgets of the code, `Interval >= 450` | `WithinLease` | the one above |
| `RateLimitProofs!TypeCorrect` | | `TypeOK` | `CooldownInv` |
| `RateLimitProofs!AsksRarely` | | `RateIsReduced` | `CooldownInv` |
| `DashboardProofs!TypeCorrect` | | `TypeOK` | `TypeInv` |
| `DashboardProofs!GapsMissNothing` | | `GapsAreExact` | `GapInv`, `MissingIsExact` |
| `DashboardProofs!CoverageHidesNothing` | `MissesNothing` | `NothingIsMissed` | `SyncInv` |
| `DashboardProofs!RefreshesCatchUp` | `MissesNothing` | `RefreshCatchesUp` | `SyncInv` |

`ObservationProofs` holds the lemmas about one document that both the cycle's and the
poller's proofs need: what `BuildObservation` makes is a `Document`, and a set of slots
has a newest one.

**`TypeInv`** is `TypeOK` and `PlaceInv`. Types alone are not inductive: `PlaceInv`
says which locals are set at which place of the program, for instance that an
item and its total are there when the execution reaches "apply", and that
`previous` is there when it asks for a day's total.

**`LeaseInv`** says that an execution inside the lease has a lease that has not
run out on the clock (`clock < cycle[e].now + LeaseLength`), that the stored
holder is that execution, and that the stored end is that of its `now`. Two
executions inside would be the same holder. A newcomer compares with its own,
possibly stale, `now`, which is at most the clock, and so finds the lease held.
That is where `MayOutlive = FALSE`, the guard of `Tick`, is needed.

**`SeriesInv`** joins what is known of the documents (`Documented`: a document is
stored in its own slot, its baseline is earlier, its number and its status agree)
with what is known of the locals (`LocalInv`: the baseline an execution has looked
up lies before its `now`, the interval it is about to patch in is a natural
number, and whoever cools down has requested nothing). The second half is needed
because a document is built, and patched, from locals that are several
transactions old, while the store has moved on. Nothing in it mentions the lease,
so these theorems hold of executions that outlive theirs as well.

**`FoundedInv`** adds to `SeriesInv` what the mapping needs: a document which waits
has an energy reading, so that its level is at least 2. With it every action maps
to `Record`, to `Settle` or to a stutter. A write is a `Record` or nothing; a patch or
a mark of a document that waits is a `Settle`; a patch of one that was settled, or
upgraded and settled, since it was read changes neither its level nor its waiting.
The queries, the queue and the lease do not touch the documents and stutter. Like
`SeriesInv` it does not mention the lease.

**`WroteInv`** says that an execution with `wrote` set has its slot stored. It needs
that nothing stored is ever lost, and that the slot of an execution does not change
while it runs.

**`OrderInv`** is what the lease buys. While an execution is leased, no slot after its
own is stored (`Latest`), and the baseline that it has looked up is still the one a
lookup would find (`Grounded`); a slot in which it has built an unresolved rollover is
stored with energy by the time it is queued (`Written`). Of the store it says that
each document's baseline is the one a lookup would find again (`WellBased`), from
which `IntervalsTile` follows, and that the day a queued slot waits for is that of its
baseline (`Settleable`). Its induction needs `LeaseInv`, since all of this fails if
two executions are leased at once, and `OnTime`, that nobody asks for the lease of a slot
that is over: that is where `MayLag = FALSE` is needed.

**`LoopInv`** of `OrderlyProofs` relates the list that `_reconcile_pending` read to the
queue as it is: what remains of the list is still queued as it was read, and what is
queued and not in the list is within its window.

**`DerivedInv`** carries the arithmetic. A number is a difference of one day, or the
reconstruction with the total that is cached for the day of the baseline
(`WellDerived`); and the total an execution holds, and the interval it is about to
patch in, are those of the cache and of the document as it is now (`TotalIsCached`).
The last needs `OrderInv`, `LoopInv` and whole slots: with a midnight inside a slot the
queued document may be one that is not a rollover.

**`HonestInv`** adds, for an honest counter, that a cached total is that of a day which
is over (`TotalsAreFinal`), that a stored value is not above the counter of its day now
(`ValuesArePast`), and that what an execution was answered is not below what its own slot
or any earlier one of the day has (`EnergyIsPast`). The number of a slot written again
can then not turn out negative or below the one before it, and the total that made it is
still cached (`NumberIsFoundAgain`). A patch of a slot whose raw part stays makes the same
number again (`NumberIsMadeAgain`).

**`CooldownInv`** of `RateLimit`: while cycles are rate limited in a row, the time since
the last one and the time left add up to the cooldown that the row calls for, at
least. A missed slot adds to the one what it takes from the other.

**`SyncInv`** relates three versions of each document of a range that is covered, or
about to be: in the store, in the rows of the connection, and in the rows that a rollback
would return to. Each of the two cached ones is the stored one, or the document will be
found (`WillBeFound`): its stamp is within the overlap of the watermark, or, when there
is none yet, of a load in progress (`CoverInv`). That this survives the watermark
being set is what a session has found so far (`FoundInv`, `RefreshInv`): at each place of
a refresh a document is cached as it is stored, or found, or is yet to be found by the query to
come. `ClockInv` ties the ages of loads and watermarks to the clock. `MissesNothing` is
`MayFailFirst = FALSE`, `MayUndo = FALSE` and `CommitDelay + LoadTime <= Overlap`, and
none of the three can be dropped: in the instance of `cache_sync` TLC finds both
properties violated with `MayFailFirst = TRUE` and with `MayUndo = TRUE`, and
`NothingIsMissed` with `LoadTime = 2`. The proof is for any number of
sessions, slots and windows.

**`MissingIsExact`** is about `missing_ranges` for any rows. Its loop is a function that
is recursive over the instants and goes from the end of one row to the end of the next;
`LoopIsDefined` shows that such a function exists and has sequences of gaps as values, by
induction on the distance to the end of the window. Then, by the same induction, what
it returns from a cursor on covers exactly the instants from there to the end of the
window that no row holds, each gap not empty and apart from the next (`GapIsExact`,
`ConsIsExact`). `GapInv` says that the rows are ranges, that the gaps a session has
still to load are a sequence of them, and that it is not empty where the first of them is
stored; with the types that `SyncInv` rests on it makes `TypeInv` of `DashboardProofs`.

**`PollerInv`** is `LoopInv`, the types, and that a document is stored in the slot it was
observed in (`Sampled`). The two theorems about the pages count with it: the documents
shown with a number map one to one to slots, all inside the bar or the window, so that
they are at most as many as its slots less the absent ones. A bar of a width that the
slots and the day divide has exactly the expected number of slots, since its edges
are boundaries of slots; a window has one more at most, and none more if one of its
edges is a boundary.

**Sums.** `TotalOf` and the sum of the bars are folds (`MapThenSumSet`): the value at a set
of a function that a `CHOOSE` picks among those which satisfy a recursive equation.
`FoldExists` shows that there is such a function for every finite set, by induction on
cardinalities, and `FoldIsUnique` that its value at a set is the same whichever function
and larger set it comes from. So a sum can be taken in any order (`SumOfSome`) and part by
part (`SumOfUnion`, `SumOfParts`). `BarsAreTheTotal` is then that every sample of the
window lies in exactly one bar that is shown (`BucketIsShown`). The inductions are
stated of *sets*, of numbers or of subsets of a finite set (`Induction`, `Shrinking`),
since a lemma cannot take a predicate here.

**`SeriesInv`** of `PollerProofs` is `PollerInv` and `ChainInv`: a stored number is exactly
the time since its baseline (`Consumes`, from `CounterAdvances`: a counter that starts at
zero at midnight and its day determine the time), and its baseline is the newest usable
document before it, still (`Chained`). It is inductive because only the newest slot is
ever written. From it the numbers of a window follow each other (`NumbersFollow`), and
their sum, taken from the last one backwards, is at most the time they span
(`SumIsConsumed`). If every reading in the window has a number, each baseline inside the
window is itself a number of the window, and the sum is no less (`SumIsAll`).

**`LoopInv`** of `PollerProofs` relates the clock to the locals of the process: inside a cycle the clock
is at most `MaxCycle` past `now`; in a wait `wake` is the start of the slot after the
one in which the cycle ended, and the clock is at most `MaxLate` past it; and once
the stop event is set no time passes in a wait or at the head of the loop, and in a
cycle at most what is left of it. `StopIsPrompt` follows at once. For
`SkipsAtMostOneSlot` the clock at the next cycle is less than an interval past `wake`,
and so at most in the slot that `wake` begins; when the timer is early it is before that.

**`TimeInv`** bounds `before` by what the requests before the current one may have
taken, and `spent` by the budget if the request is retried and by nothing at all if it is
not. `TypeOK` and the lease follow, and so does `OverrunIsOneAttempt`. With the policy of the code `CycleBound` is 180 s for
every interval of 90 s or more, and the lease is four fifths of the interval: it covers the bound
from 225 s on, and TLC violates `WithinLease` at 224 s.

**What the proofs found.** That `DerivedFromRaw`, `IntervalsAreTrue` and `NumberStays`
hold under leases alone, which TLC had confirmed of executions that meet in one slot, is
false: the step in which an execution takes the lease did not preserve
`OrderInv`. That is why `Cycle` has `MayLag`. And without whole slots a queued document could not be shown to be a rollover, which
is the third finding of [section 4](#4-findings).

**Only model-checked:** the liveness properties `CycleReturns`, `PausesLetItRecover` and
`SignalStops`, because the prover has no fairness and no `ENABLED`. Every invariant and
every action property of a passing run is a theorem, and so is every refinement.

None of the modules has a `RECURSIVE` operator.

## 6. What is not modelled

* Exact decimals, units, quantization, field names and the parsers of the
  profiles: the readings are integers.
* The overview of the dashboard (`build_overview`). Its age compares the newest
  cached sample with 1.5 intervals, but a rendering within `refresh_seconds` of the
  last refresh does not refresh, so the age of a healthy collector's sample can
  approach two intervals and the page then says that it is stale. No document says
  what the banner promises.
* Daylight saving time: local time is a constant distance from UTC in `RangeView`.
  The code adds and subtracts local clock times, so on the day of a change an hourly
  bucket receives the samples of two hours, or of none.
* The choice of a period in the device view; the windows it leads to are covered.
* The state of the air conditioner (`observation/state.py`) beyond whether the
  request answered; nothing depends on its content.
* Inspection listings, discovery, counter validation, rendering, charts, themes,
  configuration, logging, redaction: no shared state, or pure formatting.
* The raw-payload cache of the dashboard and the paging of its queries.
* `mark_implausible_final_total` as the dashboard sees it: it stamps no field the
  dashboard queries, so the flag never reaches a cached row.
* The listings of `commands/views.py`; the one of anomalies reads at most
  `max(20 * limit, 500)` of the newest documents and filters them.
* `validate-counter`, which watches a live counter for a day; its verdict rests on a
  single increase within a day, and it writes nothing.

## 7. Plan

Order so far: `Observation`, `Cycle` and its safety, the lease and series proofs,
`RateLimit`, `RequestTime`, `DashboardSync`; then `Series` and the refinement,
`Poller` and its proofs, `RangeView`, the gaps of `DashboardSync`; then the proofs
of what the lease buys (`OrderlyProofs`), of the dashboard's synchronization and of
what its pages call complete; then those of the gaps, of the sums that the pages show, and
that a poller implements `Series`. What is left:

1. **Collector and dashboard together**: `DashboardSync` over the documents of
   `Cycle`, so that `CommitDelay` becomes a consequence, `mark_implausible` included.
2. **Single energy objects of another day** (`thinq/payloads.py:208`) and the number
   of requests for totals per cycle (`docs/operations.md:381`) as runs.
