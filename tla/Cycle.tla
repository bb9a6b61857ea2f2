-------------------------------- MODULE Cycle --------------------------------
(***************************************************************************)
(* The polling cycle (src/airchive/runtime/cycle.py) against the Firestore *)
(* store it shares with every other cycle (src/airchive/storage/store.py). *)
(*                                                                         *)
(* An execution of run_cycle is a process: it keeps its locals in          *)
(* cycle[e] and takes one step per store transaction, in the order of the  *)
(* code; the ThinQ requests between two store operations only produce an   *)
(* answer, so they belong to the step they precede or follow.  Executions  *)
(* overlap freely, as the scheduler, a second delivery or an operator's    *)
(* `airchive poll --once` may cause: only the lease keeps them apart.      *)
(***************************************************************************)
EXTENDS EnergyPayload, FiniteSets

CONSTANTS
    Executions,       \* execution ids; an id is the lease holder token
    LeaseLength,      \* lease_seconds, in ticks
    Window,           \* the reconciliation window of 24 hours, in ticks
    Lookback,         \* PREVIOUS_LOOKUP_LIMIT
    CooldownBase, CooldownMax,  \* rate_limit_cooldown_seconds, in ticks
    Failures,         \* the failure classes ThinQ answers with
    Shapes,           \* the shapes of LG's energy answers
    Faults,           \* what may go wrong around a cycle
    MayOutlive,       \* whether an execution may still run when its lease ends
    MayLag,           \* whether a slot may be over before its cycle has the lease
    Honest,           \* whether the counter reports what was consumed
    MaxReading,       \* bound: readings of a counter that is not honest
    Uses,             \* bound: the units that may be consumed in one tick
    MaxRateLimits     \* bound: rate-limited cycles in a row

ASSUME ExecutionsAssumption == NoValue \notin Executions
ASSUME LeaseAssumption == LeaseLength \in Nat \ {0}
ASSUME WindowAssumption == Window \in Nat \ {0}
ASSUME LookbackAssumption == Lookback \in Nat \ {0}
ASSUME CooldownAssumption ==
    /\ CooldownBase \in Nat
    /\ CooldownMax \in Nat
ASSUME FailuresAssumption == Failures \subseteq FailureClass
ASSUME ShapesAssumption ==
    Shapes \subseteq {"single", "dated", "undated", "otherDay", "unreadable", "empty"}
ASSUME FaultsAssumption == Faults \subseteq {"crash", "store", "shutdown"}
ASSUME ModesAssumption ==
    /\ MayOutlive \in BOOLEAN
    /\ MayLag \in BOOLEAN
    /\ Honest \in BOOLEAN
ASSUME BoundsAssumption ==
    /\ MaxReading \in Nat
    /\ Uses \subseteq Nat
    /\ MaxRateLimits \in Nat

VARIABLES
    telemetry,    \* the observation stored for each slot, if any
    dailyTotals,  \* the cached finalized total of each day, if any
    pending,      \* runtime/reconciliation: queued slots
    metadata,     \* whether metadata/current holds a version
    health,       \* runtime/collector
    pc, cycle,    \* where each execution is, and its locals
    clock,        \* the current time
    used          \* the units consumed on each day: LG's own counter

store == <<telemetry, dailyTotals, pending, metadata, health>>
world == <<clock, used>>
vars == <<store, pc, cycle, world>>

Slots == 0..Slot(MaxTime)
Days == 0..Day(MaxTime)

QueueEntry == [day : Days, at : Time]
Item == [slot : Slots, day : Days, at : Time]

ASSUME NoItemAssumption == NoValue \notin QueueEntry \union Item

Health == [failing : BOOLEAN,                     \* consecutiveFailures > 0
           rateLimits : Nat,                      \* consecutiveRateLimits
           rateLimitedUntil : Optional(Nat),
           leaseUntil : Optional(Nat),
           leaseHolder : Optional(Executions)]

\* The locals of run_cycle, _run_cycle_body and _reconcile_pending.
Frame == [now : Time,
          cooldown : BOOLEAN, rateLimits : Nat,   \* the health it read
          energy : EnergyResult, state : StateResult,
          previous : Optional(PreviousReading), hasPrior : BOOLEAN,
          final : Optional(Reading),
          todo : SUBSET Item,                     \* pending, as it was read
          item : Optional(Item), total : Optional(Reading),
          interval : Optional(Int),
          asked : BOOLEAN,                        \* api_calls of the queue
          requested : BOOLEAN,                    \* any request was made
          wrote : BOOLEAN]                        \* result.wrote

NewFrame(t) ==
    [now |-> t, cooldown |-> FALSE, rateLimits |-> 0,
     energy |-> Failed("OTHER"), state |-> Failed("OTHER"),
     previous |-> NoValue, hasPrior |-> FALSE, final |-> NoValue,
     todo |-> {}, item |-> NoValue, total |-> NoValue, interval |-> NoValue,
     asked |-> FALSE, requested |-> FALSE, wrote |-> FALSE]

Body == {"attempt", "request", "lookup", "total", "history", "write", "backoff",
         "enqueue", "pending", "next", "ask", "query", "load", "apply", "mark",
         "drop", "outcome"}
Leased == Body \union {"error", "release"}   \* acquire_lease returned True
Running == Leased \union {"acquire"}
PC == Running \union {"idle"}

TypeOK ==
    /\ telemetry \in [Slots -> Optional(Document)]
    /\ dailyTotals \in [Days -> Optional(Reading)]
    /\ pending \in [Slots -> Optional(QueueEntry)]
    /\ metadata \in BOOLEAN
    /\ health \in Health
    /\ pc \in [Executions -> PC]
    /\ cycle \in [Executions -> Frame]
    /\ clock \in Time
    /\ used \in [Days -> Nat]

Init ==
    /\ telemetry = [s \in Slots |-> NoValue]
    /\ dailyTotals = [d \in Days |-> NoValue]
    /\ pending = [s \in Slots |-> NoValue]
    /\ metadata = FALSE
    /\ health = [failing |-> FALSE, rateLimits |-> 0, rateLimitedUntil |-> NoValue,
                 leaseUntil |-> NoValue, leaseHolder |-> NoValue]
    /\ pc = [e \in Executions |-> "idle"]
    /\ cycle = [e \in Executions |-> NewFrame(0)]
    /\ clock = 0
    /\ used = [d \in Days |-> 0]

At(e, label) == pc[e] = label
GoTo(e, label) == pc' = [pc EXCEPT ![e] = label]

Locals(e, frame) == cycle' = [cycle EXCEPT ![e] = frame]

\* run_cycle returns: the next start of e is a new invocation with a new token.
Return(e) ==
    /\ GoTo(e, "idle")
    /\ Locals(e, NewFrame(0))

MySlot(e) == Slot(cycle[e].now)

-----------------------------------------------------------------------------
(* Starting, and the lease. *)

\* run_cycle takes its `now` before it asks for the lease.
Start(e) ==
    /\ At(e, "idle")
    /\ health.rateLimits < MaxRateLimits
    /\ GoTo(e, "acquire")
    /\ Locals(e, NewFrame(clock))
    /\ UNCHANGED <<store, world>>

\* Variant: the comparison is off by one tick.
HeldAtOffByOne(t) == health.leaseUntil # NoValue /\ health.leaseUntil > t + 1

HeldAt(t) == health.leaseUntil # NoValue /\ health.leaseUntil > t

AcquireLease(e) ==
    /\ At(e, "acquire")
    /\ ~HeldAt(cycle[e].now)
    /\ health' = [health EXCEPT !.leaseUntil = cycle[e].now + LeaseLength,
                                !.leaseHolder = e]
    /\ GoTo(e, "attempt")
    /\ UNCHANGED <<telemetry, dailyTotals, pending, metadata, cycle, world>>

SkipForLease(e) ==
    /\ At(e, "acquire")
    /\ HeldAt(cycle[e].now)
    /\ Return(e)
    /\ UNCHANGED <<store, world>>

\* Variant: the lease is given up without looking at its holder.
ReleaseAnyLease(e) ==
    /\ At(e, "release")
    /\ health' = [health EXCEPT !.leaseUntil = NoValue]
    /\ Return(e)
    /\ UNCHANGED <<telemetry, dailyTotals, pending, metadata, world>>

\* A cycle only ever gives up a lease that is still its own.
ReleaseLease(e) ==
    /\ At(e, "release")
    /\ health' = IF health.leaseHolder = e
                 THEN [health EXCEPT !.leaseUntil = NoValue]
                 ELSE health
    /\ Return(e)
    /\ UNCHANGED <<telemetry, dailyTotals, pending, metadata, world>>

-----------------------------------------------------------------------------
(* The two requests, and the baseline. *)

\* record_attempt stamps fields no step reads; get_health is what matters.
ReadHealth(e) ==
    /\ At(e, "attempt")
    /\ Locals(e, [cycle[e] EXCEPT
           !.cooldown = /\ health.rateLimitedUntil # NoValue
                        /\ health.rateLimitedUntil > cycle[e].now,
           !.rateLimits = health.rateLimits])
    /\ GoTo(e, "request")
    /\ UNCHANGED <<store, world>>

\* What LG's counter of day d may stand at.
CounterAnswers(d) == IF Honest THEN {used[d]} ELSE 0..MaxReading

Record(day, value) == [day |-> day, value |-> value]

\* The answer to a request for the counter of day d, which stands at v.  Other
\* records, of another day, may come with it and carry another number.
Payload(shape, d, v) ==
    [single |-> shape = "single",
     records |-> CASE shape = "single" -> <<Record(d, v)>>
                   [] shape = "dated" -> <<Record(d, v), Record(d + 1, v + 1)>>
                   [] shape = "undated" -> <<Record(NoValue, v + 1), Record(NoValue, v)>>
                   [] shape = "otherDay" -> <<Record(d + 1, v + 1)>>
                   [] shape = "unreadable" -> <<Record(d, NoValue)>>
                   [] shape = "empty" -> <<>>]

Readings(d) ==
    {ExtractEnergyReading(Payload(shape, d, v), d) :
        shape \in Shapes, v \in CounterAnswers(d)}

\* An answer without a number is MALFORMED, never zero.
EnergyAnswers(d) ==
    {IF v = NoValue THEN Failed("OTHER") ELSE Success(v) : v \in Readings(d)}
    \union {Failed(c) : c \in Failures}

StateAnswers == {Success(NoValue)} \union {Failed(c) : c \in Failures}

\* A day's finalized total; none when the request fails.
TotalAnswers(d) == Readings(d) \union {NoValue}

\* _cooldown_failure: the flag of a rate limit, though nothing was asked.
CooldownFailure == Failed("RATE_LIMITED")

CooldownRequests(e) ==
    /\ At(e, "request")
    /\ cycle[e].cooldown
    /\ Locals(e, [cycle[e] EXCEPT !.energy = CooldownFailure,
                                  !.state = CooldownFailure])
    /\ GoTo(e, "lookup")
    /\ UNCHANGED <<store, world>>

\* The profiles are stored under their version, then current points at it; only
\* current is ever read.
PutMetadata == metadata' = TRUE

\* Warm metadata costs no request; cold, two profiles are requested first.  The
\* day asked for is the local date at the start, even past midnight.
Requests(e) ==
    /\ At(e, "request")
    /\ ~cycle[e].cooldown
    /\ IF metadata THEN UNCHANGED metadata ELSE PutMetadata
    /\ \E energy \in EnergyAnswers(Day(cycle[e].now)), state \in StateAnswers :
           Locals(e, [cycle[e] EXCEPT !.energy = energy, !.state = state,
                                      !.requested = TRUE])
    /\ GoTo(e, "lookup")
    /\ UNCHANGED <<telemetry, dailyTotals, pending, health, world>>

\* A profile cannot be fetched: nothing catches it before run_cycle does, so
\* the cycle ends without an observation.
ProfileFails(e) ==
    /\ At(e, "request")
    /\ ~cycle[e].cooldown
    /\ ~metadata
    /\ Failures # {}
    /\ Locals(e, [cycle[e] EXCEPT !.requested = TRUE])
    /\ GoTo(e, "error")
    /\ UNCHANGED <<store, world>>

\* Variant: the query has no cursor, only the slot itself is left out.
AnyOther(slot) == {s \in Slots : s # slot /\ telemetry[s] # NoValue}

Earlier(slot) == {s \in Slots : s < slot /\ telemetry[s] # NoValue}

\* The last Lookback documents before a slot.
Recent(slot) ==
    {s \in Earlier(slot) :
        Cardinality({u \in Earlier(slot) : u >= s}) <= Lookback}

Usable(slot) == {s \in Recent(slot) : AsPreviousReading(s, telemetry[s]) # NoValue}

\* Variant: the query is ordered ascending.
FindOldestReading(slot) ==
    IF Usable(slot) = {} THEN NoValue
    ELSE LET oldest == CHOOSE s \in Usable(slot) : \A u \in Usable(slot) : s <= u
         IN  AsPreviousReading(oldest, telemetry[oldest])

FindPreviousReading(slot) ==
    IF Usable(slot) = {} THEN NoValue
    ELSE LET newest == CHOOSE s \in Usable(slot) : \A u \in Usable(slot) : u <= s
         IN  AsPreviousReading(newest, telemetry[newest])

FindPrevious(e) ==
    /\ At(e, "lookup")
    /\ LET previous == FindPreviousReading(MySlot(e))
       IN  /\ Locals(e, [cycle[e] EXCEPT !.previous = previous,
                                         !.hasPrior = Earlier(MySlot(e)) # {}])
           /\ GoTo(e, IF /\ previous # NoValue
                         /\ DayGap(cycle[e].now, previous) = 1
                         /\ cycle[e].energy.ok
                      THEN "total" ELSE "write")
    /\ UNCHANGED <<store, world>>

PreviousDay(e) == Day(cycle[e].previous.at)

ReadCachedTotal(e) ==
    /\ At(e, "total")
    /\ Locals(e, [cycle[e] EXCEPT !.final = dailyTotals[PreviousDay(e)]])
    /\ GoTo(e, IF dailyTotals[PreviousDay(e)] # NoValue THEN "write" ELSE "history")
    /\ UNCHANGED <<store, world>>

\* Variant: the total is used, but not kept for another try of the slot.
ForgetTotal(d, total) == dailyTotals' = dailyTotals

\* put_daily_total, when the answer carries a number.
CacheTotal(d, total) ==
    dailyTotals' = IF total = NoValue THEN dailyTotals
                   ELSE [dailyTotals EXCEPT ![d] = total]

RequestTotal(e) ==
    /\ At(e, "history")
    /\ \E total \in TotalAnswers(PreviousDay(e)) :
           /\ CacheTotal(PreviousDay(e), total)
           /\ Locals(e, [cycle[e] EXCEPT !.final = total, !.requested = TRUE])
    /\ GoTo(e, "write")
    /\ UNCHANGED <<telemetry, pending, metadata, health, world>>

-----------------------------------------------------------------------------
(* Writing the slot. *)

\* The observation of this cycle: a function of its locals.
Built(e) ==
    LET c == cycle[e]
    IN  BuildObservation(c.now, c.energy, c.state, c.previous, c.hasPrior, c.final)

\* Variant: the last writer wins between equals.
SupersedesEqual(doc, stored) ==
    stored = NoValue \/ Completeness(doc) >= Completeness(stored)

\* Created, or upgraded: the first writer wins between equals.
Supersedes(doc, stored) ==
    stored = NoValue \/ Completeness(doc) > Completeness(stored)

WriteObservation(e) ==
    /\ At(e, "write")
    /\ LET writes == Supersedes(Built(e), telemetry[MySlot(e)])
       IN  /\ telemetry' = IF writes THEN [telemetry EXCEPT ![MySlot(e)] = Built(e)]
                           ELSE telemetry
           /\ Locals(e, [cycle[e] EXCEPT !.wrote = writes])
    /\ GoTo(e, "backoff")
    /\ UNCHANGED <<dailyTotals, pending, metadata, health, world>>

\* Shutdown was requested: the cycle ends before it writes.
Abandon(e) ==
    /\ "shutdown" \in Faults
    /\ At(e, "write")
    /\ GoTo(e, "release")
    /\ UNCHANGED <<store, cycle, world>>

Capped(ticks) == IF ticks < CooldownMax THEN ticks ELSE CooldownMax

\* base * 2^(count - 1), capped; the cap is below 8 * base (3600 s and 600 s).
Cooldown(count) ==
    Capped(CooldownBase * (CASE count = 1 -> 1
                             [] count = 2 -> 2
                             [] count = 3 -> 4
                             [] OTHER -> 8))

NeedsReconciliation(e) ==
    Built(e).status = "DAY_ROLLOVER_UNRESOLVED" /\ cycle[e].previous # NoValue

\* _update_rate_limit_state counts from the health read at the start.
UpdateRateLimitState(e) ==
    /\ At(e, "backoff")
    /\ LET count == cycle[e].rateLimits + 1
       IN  health' =
             IF "RATE_LIMITED" \in Built(e).flags
             THEN [health EXCEPT !.rateLimits = count,
                       !.rateLimitedUntil = cycle[e].now + Cooldown(count)]
             ELSE IF cycle[e].rateLimits > 0
             THEN [health EXCEPT !.rateLimits = 0, !.rateLimitedUntil = NoValue]
             ELSE health
    /\ GoTo(e, IF NeedsReconciliation(e) THEN "enqueue" ELSE "pending")
    /\ UNCHANGED <<telemetry, dailyTotals, pending, metadata, cycle, world>>

\* Variant: the queue entry names the day of the sample, not of its baseline.
EnqueueOwnDay(e) ==
    /\ At(e, "enqueue")
    /\ pending' = IF pending[MySlot(e)] # NoValue THEN pending
                  ELSE [pending EXCEPT ![MySlot(e)] =
                           [day |-> Day(cycle[e].now), at |-> cycle[e].now]]
    /\ GoTo(e, "pending")
    /\ UNCHANGED <<telemetry, dailyTotals, metadata, health, cycle, world>>

\* setdefault: a slot already queued keeps its entry.
EnqueueReconciliation(e) ==
    /\ At(e, "enqueue")
    /\ pending' = IF pending[MySlot(e)] # NoValue THEN pending
                  ELSE [pending EXCEPT ![MySlot(e)] =
                           [day |-> PreviousDay(e), at |-> cycle[e].now]]
    /\ GoTo(e, "pending")
    /\ UNCHANGED <<telemetry, dailyTotals, metadata, health, cycle, world>>

-----------------------------------------------------------------------------
(* _reconcile_pending: the queue as it was read, in the order of its keys. *)

Queued == {s \in Slots : pending[s] # NoValue}

ReadPending(e) ==
    /\ At(e, "pending")
    /\ Locals(e, [cycle[e] EXCEPT !.todo =
           {[slot |-> s, day |-> pending[s].day, at |-> pending[s].at] : s \in Queued}])
    /\ GoTo(e, "next")
    /\ UNCHANGED <<store, world>>

IsNext(e, i) ==
    /\ At(e, "next")
    /\ i \in cycle[e].todo
    /\ \A j \in cycle[e].todo : i.slot <= j.slot

\* Variant: an entry as old as the window is kept for one more cycle.
ExpiredLate(e, i) == cycle[e].now - i.at > Window

Expired(e, i) == cycle[e].now - i.at >= Window

\* Variant: the loop does not advance.
HandledAgain(c, i) == [c EXCEPT !.item = NoValue, !.total = NoValue,
                                !.interval = NoValue]

\* The item is handled, one way or another.
Handled(c, i) == [c EXCEPT !.todo = @ \ {i}, !.item = NoValue, !.total = NoValue,
                           !.interval = NoValue]

ExpireItem(e) ==
    \E i \in cycle[e].todo :
        /\ IsNext(e, i)
        /\ Expired(e, i)
        /\ Locals(e, [cycle[e] EXCEPT !.item = i])
        /\ GoTo(e, "drop")
        /\ UNCHANGED <<store, world>>

\* Variant: allow_fetch forgets the cooldown.
MayAskInCooldown(e) ==
    /\ cycle[e].final = NoValue
    /\ ~cycle[e].asked

\* allow_fetch, and no request made for the queue yet.
MayAsk(e) ==
    /\ cycle[e].final = NoValue
    /\ ~cycle[e].cooldown
    /\ ~cycle[e].asked

TakeItem(e) ==
    \E i \in cycle[e].todo :
        /\ IsNext(e, i)
        /\ ~Expired(e, i)
        /\ dailyTotals[i.day] # NoValue \/ MayAsk(e)
        /\ Locals(e, [cycle[e] EXCEPT !.item = i, !.total = dailyTotals[i.day]])
        /\ GoTo(e, IF dailyTotals[i.day] # NoValue THEN "load" ELSE "ask")
        /\ UNCHANGED <<store, world>>

\* No total yet, and none may be asked for: the sample waits for a later cycle.
LeaveItem(e) ==
    \E i \in cycle[e].todo :
        /\ IsNext(e, i)
        /\ ~Expired(e, i)
        /\ dailyTotals[i.day] = NoValue
        /\ ~MayAsk(e)
        /\ Locals(e, Handled(cycle[e], i))
        /\ UNCHANGED <<store, pc, world>>

\* _finalized_total looks once more, before it asks.
FindTotal(e) ==
    /\ At(e, "ask")
    /\ LET total == dailyTotals[cycle[e].item.day]
       IN  /\ Locals(e, [cycle[e] EXCEPT !.total = total])
           /\ GoTo(e, IF total # NoValue THEN "load" ELSE "query")
    /\ UNCHANGED <<store, world>>

AskTotal(e) ==
    /\ At(e, "query")
    /\ \E total \in TotalAnswers(cycle[e].item.day) :
           /\ CacheTotal(cycle[e].item.day, total)
           /\ LET c == [cycle[e] EXCEPT !.asked = TRUE, !.requested = TRUE,
                                        !.total = total]
              IN  Locals(e, IF total = NoValue THEN Handled(c, c.item) ELSE c)
           /\ GoTo(e, IF total = NoValue THEN "next" ELSE "load")
    /\ UNCHANGED <<telemetry, pending, metadata, health, world>>

\* Variant: any finalized total is accepted.
NeverImplausible(stored, total) == FALSE

\* Below a value already observed that day.
IsImplausible(stored, total) == total < stored.previous.value

\* Variant: the two readings of the document are swapped.
SwappedInterval(stored, total) ==
    Reconstruct(total, stored.value, stored.previous.value)

ReconciledInterval(stored, total) ==
    Reconstruct(total, stored.previous.value, stored.value)

\* The interval is computed here, from a read outside the patching transaction.
LoadObservation(e) ==
    /\ At(e, "load")
    /\ LET stored == telemetry[cycle[e].item.slot]
           total == cycle[e].total
           usable == /\ stored # NoValue
                     /\ stored.value # NoValue
                     /\ stored.previous # NoValue
       IN  IF ~usable
           THEN GoTo(e, "drop") /\ UNCHANGED cycle
           ELSE IF IsImplausible(stored, total)
           THEN GoTo(e, "mark") /\ UNCHANGED cycle
           ELSE /\ GoTo(e, "apply")
                /\ Locals(e, [cycle[e] EXCEPT !.interval =
                       ReconciledInterval(stored, total)])
    /\ UNCHANGED <<store, world>>

Patched(doc, interval, total) ==
    [doc EXCEPT !.status = "DAY_ROLLOVER_RESOLVED",
                !.flags = @ \union {"RECONCILED"},
                !.interval = interval, !.final = total]

MarkedImplausible(doc, total) ==
    [doc EXCEPT !.flags = @ \union {"IMPLAUSIBLE_FINAL_TOTAL"}, !.final = total]

\* Update a stored document, if there still is one.
UpdateDocument(slot, doc) ==
    telemetry' = IF telemetry[slot] = NoValue THEN telemetry
                 ELSE [telemetry EXCEPT ![slot] = doc]

ApplyReconciliation(e) ==
    /\ At(e, "apply")
    /\ LET s == cycle[e].item.slot
       IN  UpdateDocument(s, Patched(telemetry[s], cycle[e].interval, cycle[e].total))
    /\ GoTo(e, "drop")
    /\ UNCHANGED <<dailyTotals, pending, metadata, health, cycle, world>>

MarkImplausible(e) ==
    /\ At(e, "mark")
    /\ LET s == cycle[e].item.slot
       IN  UpdateDocument(s, MarkedImplausible(telemetry[s], cycle[e].total))
    /\ GoTo(e, "drop")
    /\ UNCHANGED <<dailyTotals, pending, metadata, health, cycle, world>>

DequeueReconciliation(e) ==
    /\ At(e, "drop")
    /\ pending' = [pending EXCEPT ![cycle[e].item.slot] = NoValue]
    /\ Locals(e, Handled(cycle[e], cycle[e].item))
    /\ GoTo(e, "next")
    /\ UNCHANGED <<telemetry, dailyTotals, metadata, health, world>>

QueueDone(e) ==
    /\ At(e, "next")
    /\ cycle[e].todo = {}
    /\ GoTo(e, "outcome")
    /\ UNCHANGED <<store, cycle, world>>

-----------------------------------------------------------------------------
(* Ending: the outcome in health, failures, crashes. *)

\* record_success when either request answered, record_failure otherwise.
RecordOutcome(e) ==
    /\ At(e, "outcome")
    /\ health' = [health EXCEPT
           !.failing = ~(cycle[e].energy.ok \/ cycle[e].state.ok)]
    /\ GoTo(e, "release")
    /\ UNCHANGED <<telemetry, dailyTotals, pending, metadata, cycle, world>>

\* Any other exception of the body: a store operation fails, the property is
\* not supported by the device.
Raise(e) ==
    /\ "store" \in Faults
    /\ pc[e] \in Body
    /\ GoTo(e, "error")
    /\ UNCHANGED <<store, cycle, world>>

RecordError(e) ==
    /\ At(e, "error")
    /\ health' = [health EXCEPT !.failing = TRUE]
    /\ GoTo(e, "release")
    /\ UNCHANGED <<telemetry, dailyTotals, pending, metadata, cycle, world>>

\* The store fails outside the body: the cycle goes on without the operation,
\* and a lease that is not released stays until it expires.
StoreFails(e) ==
    /\ "store" \in Faults
    /\ \/ At(e, "acquire") /\ Return(e)
       \/ At(e, "error") /\ GoTo(e, "release") /\ UNCHANGED cycle
       \/ At(e, "release") /\ Return(e)
    /\ UNCHANGED <<store, world>>

\* Variant: whatever ends a leased cycle, it is done.
ExitZeroOnceLeased(e) == At(e, "release") \/ SkipForLease(e)

\* poll --once exits with 0 when its cycle wrote, or was skipped for the lease.
ExitZero(e) == cycle[e].wrote \/ SkipForLease(e)

\* POST /poll: the status of the answer, in the step in which e returns.
Response(e) == IF ExitZero(e) THEN 200 ELSE 500

\* The process is killed: request timeout, instance shutdown, power.
Crash(e) ==
    /\ "crash" \in Faults
    /\ pc[e] \in Running
    /\ Return(e)
    /\ UNCHANGED <<store, world>>

WithinLease ==
    \A e \in Executions :
        pc[e] \in Running => clock + 1 < cycle[e].now + LeaseLength

\* acquire_lease follows `now` within its slot: nobody takes the lease for a slot
\* that is over.
NoneLags == \A e \in Executions : At(e, "acquire") => Slot(clock + 1) = MySlot(e)

\* Time passes and the air conditioner consumes.
Tick ==
    /\ clock < MaxTime
    /\ MayOutlive \/ WithinLease
    /\ MayLag \/ NoneLags
    /\ clock' = clock + 1
    /\ \E n \in Uses : used' = [used EXCEPT ![Day(clock)] = @ + n]
    /\ UNCHANGED <<store, pc, cycle>>

\* What a started cycle does next; Raise, StoreFails and Crash are not its doing.
Step(e) ==
    \/ AcquireLease(e) \/ SkipForLease(e) \/ ReadHealth(e)
    \/ CooldownRequests(e) \/ Requests(e) \/ ProfileFails(e) \/ FindPrevious(e)
    \/ ReadCachedTotal(e) \/ RequestTotal(e)
    \/ WriteObservation(e) \/ UpdateRateLimitState(e) \/ EnqueueReconciliation(e)
    \/ ReadPending(e) \/ ExpireItem(e) \/ TakeItem(e) \/ LeaveItem(e)
    \/ FindTotal(e) \/ AskTotal(e)
    \/ LoadObservation(e) \/ ApplyReconciliation(e) \/ MarkImplausible(e)
    \/ DequeueReconciliation(e) \/ QueueDone(e)
    \/ RecordOutcome(e) \/ RecordError(e) \/ ReleaseLease(e)

Next ==
    \/ \E e \in Executions :
           Start(e) \/ Step(e) \/ Abandon(e) \/ Raise(e) \/ StoreFails(e) \/ Crash(e)
    \/ Tick

Spec == Init /\ [][Next]_vars

\* A started cycle is scheduled until it returns: asyncio runs it to its end.
FairSpec == Spec /\ \A e \in Executions : WF_vars(Step(e))
=============================================================================
