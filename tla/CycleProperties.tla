--------------------------- MODULE CycleProperties ---------------------------
(***************************************************************************)
(* What the polling cycle and its store promise: the state invariants, the *)
(* steps that may never happen, and what must eventually happen.  The      *)
(* README says under which assumption each of them is checked.             *)
(***************************************************************************)
EXTENDS Cycle

Reconstructed == {"NORMAL", "COARSE_INTERVAL", "DAY_ROLLOVER_RESOLVED"}

-----------------------------------------------------------------------------
(* The lease. *)

\* At most one execution is past acquire_lease, whichever order starts,
\* acquisitions, crashes and releases come in (design D14: no two cycles double
\* up).  The code can promise it only of executions that end within their lease.
MutualExclusion ==
    \A e, f \in Executions : pc[e] \in Leased /\ pc[f] \in Leased => e = f

\* Whoever outlives its lease leaves the lease of its successor alone: a lease
\* in force is given up only by the release of the execution that holds it.
OnlyTheHolderReleases ==
    [][\A e \in Executions :
          /\ health.leaseHolder = e
          /\ health.leaseUntil # NoValue
          /\ health'.leaseUntil = NoValue
          => pc[e] = "release"]_vars

-----------------------------------------------------------------------------
(* The stored series. *)

Raw(doc) == <<doc.at, doc.energyOk, doc.stateOk, doc.value, doc.previous>>

\* A stored observation is never lost, and what the API answered is replaced
\* only by a strictly more complete observation of the same slot: neither a
\* replay, nor an execution that comes late, nor reconciliation touches it.
RawOnlyImproves ==
    [][\A s \in Slots : telemetry[s] # NoValue =>
          /\ telemetry'[s] # NoValue
          /\ \/ Raw(telemetry'[s]) = Raw(telemetry[s])
             \/ Completeness(telemetry'[s]) > Completeness(telemetry[s])]_vars

Promise == INSTANCE Series WITH series <- [s \in Slots |-> AsEntry(telemetry[s])]

\* Cycles, however many, however late and in whatever order they write, upgrade,
\* reconcile and mark, implement the abstract series: in particular what was
\* settled by one execution is not made to wait again by another that read it
\* before.
ImplementsSeries == Promise!SeriesSpec

\* The baseline of a document lies strictly before it, in slot and in time, so
\* that an interval never spans a negative duration and the branch of
\* compute_interval for a baseline of a later day is never taken.
BaselinePrecedes ==
    \A s \in Slots :
        telemetry[s] # NoValue /\ telemetry[s].previous # NoValue =>
            /\ Slot(telemetry[s].at) = s
            /\ telemetry[s].previous.slot < s
            /\ telemetry[s].previous.at < telemetry[s].at
            /\ Slot(telemetry[s].previous.at) = telemetry[s].previous.slot

\* A number is stored exactly when the status says one could be computed, it is
\* never negative, and a resolved rollover carries the total it used: no
\* interleaving of a late write with a reconciliation fabricates one.
NumberOnlyWhenResolved ==
    \A s \in Slots : telemetry[s] # NoValue =>
        LET doc == telemetry[s] IN
        /\ (doc.interval # NoValue) <=> (doc.status \in Reconstructed)
        /\ doc.interval # NoValue => doc.interval >= 0
        /\ doc.status = "DAY_ROLLOVER_RESOLVED" => doc.final # NoValue

\* The interval of a document is what its own raw values give: "every derived
\* number is recomputable from them" (observation/model.py:18-19).
Recomputable(doc) ==
    doc.interval # NoValue =>
        /\ doc.value # NoValue
        /\ doc.previous # NoValue
        /\ doc.interval =
             IF Day(doc.at) = Day(doc.previous.at)
             THEN doc.value - doc.previous.value
             ELSE Reconstruct(doc.final, doc.previous.value, doc.value)

DerivedFromRaw ==
    \A s \in Slots : telemetry[s] # NoValue => Recomputable(telemetry[s])

\* The usable documents from slot p (excluded) up to slot s (excluded).
UsableBetween(p, s) ==
    {u \in Slots : /\ p < u /\ u < s
                   /\ telemetry[u] # NoValue
                   /\ telemetry[u].energyOk}

\* Intervals tile: the baseline a document was computed against is still stored
\* as it was, and is still the newest usable one, so that no unit of energy is
\* counted in two intervals or in none, across crashes, duplicate deliveries of
\* a slot and failed requests.
IntervalsTile ==
    \A s \in Slots :
        telemetry[s] # NoValue /\ telemetry[s].previous # NoValue =>
            LET base == telemetry[s].previous IN
            /\ telemetry[base.slot] # NoValue
            /\ AsPreviousReading(base.slot, telemetry[base.slot]) = base
            /\ UsableBetween(base.slot, s) = {}

\* What was really consumed between two readings of an honest counter.
Consumed(doc) ==
    IF Day(doc.at) = Day(doc.previous.at)
    THEN doc.value - doc.previous.value
    ELSE (used[Day(doc.previous.at)] - doc.previous.value) + doc.value

\* A number that was stored stays: reconciling its slot again makes the same one,
\* and when a better observation takes the place of the first, the total that made
\* the first one's number is found again, and an honest counter has not gone back,
\* so that the slot has a number still, and none below the one it had.
NumberStays ==
    [][Honest =>
          \A s \in Slots :
              telemetry[s] # NoValue /\ telemetry[s].interval # NoValue =>
                  /\ telemetry'[s].interval # NoValue
                  /\ telemetry'[s].interval >= telemetry[s].interval
                  /\ Raw(telemetry'[s]) = Raw(telemetry[s]) =>
                        telemetry'[s].interval = telemetry[s].interval]_vars

\* With an honest counter every stored interval is the energy consumed since
\* its baseline, the reconciled ones included.
IntervalsAreTrue ==
    Honest =>
        \A s \in Slots :
            telemetry[s] # NoValue /\ telemetry[s].interval # NoValue =>
                telemetry[s].interval = Consumed(telemetry[s])

-----------------------------------------------------------------------------
(* The reconciliation queue. *)

Idle == \A e \in Executions : pc[e] = "idle"

\* A queued slot is one the queue can settle: it is stored, and the day whose
\* total it waits for is the day of its baseline.
QueueNamesTheDay ==
    \A s \in Queued :
        /\ telemetry[s] # NoValue
        /\ telemetry[s].energyOk
        /\ telemetry[s].previous # NoValue
        /\ Day(telemetry[s].previous.at) = pending[s].day

\* A cycle that completes leaves no entry older than the window behind, however
\* many are queued and however many totals are missing.
QueueIsBounded ==
    [][\A e \in Executions : pc[e] = "outcome" /\ pc'[e] = "release" =>
          \A s \in Queued : cycle[e].now - pending[s].at < Window]_vars

\* Between cycles every rollover that is still unresolved, plausible and within
\* its window is queued (docs/operations.md:379-380).
Awaiting(s) ==
    /\ telemetry[s] # NoValue
    /\ Waits(telemetry[s])
    /\ clock - telemetry[s].at < Window

UnresolvedIsQueued ==
    Idle => \A s \in Slots : Awaiting(s) => pending[s] # NoValue

\* A cycle that starts inside the cooldown issues no request at all, not for a
\* profile and not for a queued rollover whose total is missing
\* (docs/operations.md:591-594).
NoRequestInCooldown ==
    \A e \in Executions :
        cycle[e].cooldown => ~cycle[e].requested /\ ~cycle[e].energy.ok

\* The scheduler is told 200 only of a slot that is stored, or of a cycle that was
\* skipped for a lease in force, whatever went wrong in between.  A skipped slot may
\* never be stored: the execution that holds the lease may fail, be killed, or have
\* come for another slot.  (A cycle that fails after its write answers 200, one that
\* leaves a stored slot as it is answers 500.)
SuccessMeansStored ==
    [][\A e \in Executions :
          /\ ReleaseLease(e) \/ SkipForLease(e) \/ StoreFails(e)
          /\ pc'[e] = "idle"
          /\ Response(e) = 200
          =>
              \/ telemetry[MySlot(e)] # NoValue
              \/ pc[e] = "acquire" /\ HeldAt(cycle[e].now)]_vars

-----------------------------------------------------------------------------

\* Every started cycle returns: the loop over the queue ends, and no failure
\* leaves the cycle stuck (run_cycle: "Never raises").
CycleReturns == \A e \in Executions : pc[e] # "idle" ~> pc[e] = "idle"
=============================================================================
