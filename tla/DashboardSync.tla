---------------------------- MODULE DashboardSync ----------------------------
(***************************************************************************)
(* The dashboard's local cache and how it follows the store: load_range,   *)
(* ensure_range and refresh (src/airchive/dashboard/service.py) over the   *)
(* SQLite cache (cache.py) and the read-only queries (repository.py).      *)
(*                                                                         *)
(* Browser sessions share one service and one cache (app.py:74) and run    *)
(* load_range concurrently; each takes one step per query and per SQLite   *)
(* statement.  They share one connection, and with it one transaction: a   *)
(* commit commits, and a rollback undoes, what all of them have written.   *)
(* The collector is here only what the queries can see of it: documents    *)
(* that change, each change stamped with the start of the cycle that made  *)
(* it, and committed up to CommitDelay later.                              *)
(*                                                                         *)
(* A range is a pair <<since, until>>: the instants since <= t < until.     *)
(***************************************************************************)
EXTENDS Integers, FiniteSets, Sequences

CONSTANTS
    Sessions,      \* browser sessions
    Interval,      \* polling interval, in ticks
    Overlap,       \* DEFAULT_OVERLAP, in ticks
    RefreshEvery,  \* refresh_seconds, in ticks
    CommitDelay,   \* how long after its cycle's start a change may reach the store
    LoadTime,      \* how long a load_range may run
    MayFailFirst,  \* whether a load may fail while there is no watermark
    MayUndo,       \* whether a statement may fail, and be rolled back, while
                   \* another session is inside a transaction
    Beginnings,    \* bound: the instants a window may begin at
    Endings,       \* bound: the instants a window of the past may end at
    MaxTime,       \* bound: the last instant of the clock
    MaxVersion,    \* bound: how often a document changes
    NoValue        \* the absence of a value (SQL NULL, a missing document)

ASSUME IntervalAssumption == Interval \in Nat \ {0}
ASSUME OverlapAssumption == Overlap \in Nat
ASSUME RefreshAssumption == RefreshEvery \in Nat
ASSUME DelayAssumption == CommitDelay \in Nat
ASSUME LoadAssumption == LoadTime \in Nat
ASSUME ModesAssumption ==
    /\ MayFailFirst \in BOOLEAN
    /\ MayUndo \in BOOLEAN
ASSUME BoundsAssumption ==
    /\ Beginnings \subseteq Nat
    /\ Endings \subseteq Nat
    /\ MaxTime \in Nat
    /\ MaxVersion \in Nat
ASSUME NoValueAssumption == NoValue \notin Int

VARIABLES
    telemetry,                  \* the documents of the store, by slot
    rows,                       \* the version the cache holds of each document
    saved,                      \* the rows that are committed
    covered,                    \* the rows of covered_ranges
    watermark, lastSuccess,     \* sync_state
    orphaned,                   \* history: the ranges covered after a reset by a
                                \* session whose rows that reset removed
    pc, load,                   \* where each session is, and its locals
    clock

cache == <<rows, saved, covered, watermark, lastSuccess>>
vars == <<telemetry, cache, orphaned, pc, load, clock>>

Time == 0..MaxTime
Optional(S) == S \union {NoValue}
Slot(t) == t \div Interval
Slots == 0..Slot(MaxTime)

\* What the queries and the projection tell apart.
Document == [version : 1..MaxVersion, observedAt : Time, persistedAt : Time,
             reconciledAt : Optional(Time)]

ASSUME NoDocumentAssumption == NoValue \notin Document

Ranges == {range \in Time \X Time : range[1] < range[2]}
Instants(range) == range[1]..(range[2] - 1)

\* The instants that the rows of covered_ranges hold.
Coverage(ranges) == UNION {Instants(range) : range \in ranges}

\* The projections of documents: the version they were made of, 0 for none.
Rows == [Slots -> 0..MaxVersion]
NoRows == [s \in Slots |-> 0]

\* The locals of load_range, ensure_range and refresh.
Load == [now : Time, missing : Seq(Ranges), since : Int, found : Rows]

NoLoad == [now |-> 0, missing |-> <<>>, since |-> 0, found |-> NoRows]

\* "cover" and "stamp" are inside a transaction; in the two "orphan" ones the
\* connection that transaction was begun on has been closed by a reset.
PC == {"idle", "gaps", "store", "cover", "persisted", "reconciled",
       "apply", "stamp", "orphanCover", "orphanStamp"}

TypeOK ==
    /\ telemetry \in [Slots -> Optional(Document)]
    /\ rows \in Rows
    /\ saved \in Rows
    /\ covered \subseteq Ranges
    /\ orphaned \subseteq covered
    /\ watermark \in Optional(Time)
    /\ lastSuccess \in Optional(Time)
    /\ pc \in [Sessions -> PC]
    /\ load \in [Sessions -> Load]
    /\ clock \in Time

Init ==
    /\ telemetry = [s \in Slots |-> NoValue]
    /\ rows = NoRows
    /\ saved = NoRows
    /\ covered = {}
    /\ orphaned = {}
    /\ watermark = NoValue
    /\ lastSuccess = NoValue
    /\ pc = [u \in Sessions |-> "idle"]
    /\ load = [u \in Sessions |-> NoLoad]
    /\ clock = 0

At(u, label) == pc[u] = label
GoTo(u, label) == pc' = [pc EXCEPT ![u] = label]
Locals(u, l) == load' = [load EXCEPT ![u] = l]

Return(u) ==
    /\ GoTo(u, "idle")
    /\ Locals(u, NoLoad)

InTransaction(u) == pc[u] \in {"cover", "stamp"}

\* The end of a `with self._connection`, whoever wrote.
Commit == saved' = rows

-----------------------------------------------------------------------------
(* The collector, as the queries see it. *)

\* The starts of the cycles that may commit something now.
Stamps == {t \in Time : t <= clock /\ clock - t <= CommitDelay}

Version(s) == IF telemetry[s] = NoValue THEN 0 ELSE telemetry[s].version

\* write_observation created or upgraded the document: all of it is replaced.
Persist(t) ==
    /\ Version(Slot(t)) < MaxVersion
    /\ telemetry' = [telemetry EXCEPT ![Slot(t)] =
           [version |-> Version(Slot(t)) + 1, observedAt |-> t, persistedAt |-> t,
            reconciledAt |-> NoValue]]
    /\ UNCHANGED <<cache, orphaned, pc, load, clock>>

\* apply_reconciliation patched it.
Reconcile(s, t) ==
    /\ telemetry[s] # NoValue
    /\ Version(s) < MaxVersion
    /\ telemetry' = [telemetry EXCEPT ![s].version = @ + 1, ![s].reconciledAt = t]
    /\ UNCHANGED <<cache, orphaned, pc, load, clock>>

-----------------------------------------------------------------------------
(* ensure_range: the gaps of the window, one after the other. *)

\* Variant: a row that begins before the window is not found.
BeginsInside(range, since, until) == range[1] >= since /\ range[1] < until

Touches(range, since, until) == range[2] > since /\ range[1] < until

\* The rows that the loop has not stepped over yet, and the one that is next.
Later(cursor, since, until) ==
    {range \in covered : Touches(range, since, until) /\ range[2] > cursor}

Earliest(ranges) == CHOOSE range \in ranges : \A r \in ranges : range[1] <= r[1]

Gap(from, to) == IF from < to THEN <<<<from, to>>>> ELSE <<>>

\* missing_ranges: what of since <= t < until no row of covered_ranges holds.  From
\* the end of one row to the beginning of the next in order that ends later.
MissingRanges(since, until) ==
    LET GapsFrom[cursor \in Time] ==
            LET later == Later(cursor, since, until)
            IN  IF cursor >= until \/ later = {} THEN Gap(cursor, until)
                ELSE Gap(cursor, Earliest(later)[1]) \o GapsFrom[Earliest(later)[2]]
    IN GapsFrom[since]

\* The windows a rendering asks for: a range that ends now, and in the device
\* view a day, week or month, cut off at now.
Windows(now) == {range \in Beginnings \X (Endings \union {now}) :
                    range[1] < range[2] /\ range[2] <= now}

LoadRange(u, window) ==
    /\ At(u, "idle")
    /\ Locals(u, [NoLoad EXCEPT !.now = clock,
                                !.missing = MissingRanges(window[1], window[2])])
    /\ GoTo(u, "gaps")
    /\ UNCHANGED <<telemetry, cache, orphaned, clock>>

\* Documents with their observedAt in the range.
InRange(range) ==
    [s \in Slots |-> IF telemetry[s] # NoValue /\ telemetry[s].observedAt \in Instants(range)
                     THEN Version(s) ELSE 0]

FetchGap(u) ==
    /\ At(u, "gaps")
    /\ load[u].missing # <<>>
    /\ Locals(u, [load[u] EXCEPT !.found = InRange(Head(load[u].missing))])
    /\ GoTo(u, "store")
    /\ UNCHANGED <<telemetry, cache, orphaned, clock>>

Upsert(found) == rows' = [s \in Slots |-> IF found[s] > 0 THEN found[s] ELSE rows[s]]

\* store_range: first the rows, in a transaction.
StoreRows(u) ==
    /\ At(u, "store")
    /\ Upsert(load[u].found)
    /\ GoTo(u, "cover")
    /\ UNCHANGED <<telemetry, saved, covered, watermark, lastSuccess, orphaned, load, clock>>

\* Then the coverage, and the commit.
StoreCoverage(u) ==
    /\ At(u, "cover")
    /\ covered' = covered \union {Head(load[u].missing)}
    /\ Commit
    /\ Locals(u, [load[u] EXCEPT !.missing = Tail(@), !.found = NoRows])
    /\ GoTo(u, "gaps")
    /\ UNCHANGED <<telemetry, rows, watermark, lastSuccess, orphaned, clock>>

\* self._connection is the new one, so the coverage goes there; the commit of
\* the closed one raises, and record_sync_failure commits on the new one.
OrphanCoverage(u) ==
    /\ At(u, "orphanCover")
    /\ covered' = covered \union {Head(load[u].missing)}
    /\ orphaned' = orphaned \union {Head(load[u].missing)}
    /\ Commit
    /\ Return(u)
    /\ UNCHANGED <<telemetry, rows, watermark, lastSuccess, clock>>

-----------------------------------------------------------------------------
(* refresh: what changed since the watermark. *)

RangeReady(u) == At(u, "gaps") /\ load[u].missing = <<>>

IsRecent(u) == lastSuccess # NoValue /\ load[u].now - lastSuccess < RefreshEvery

\* Not forced, and the last refresh is recent.
SkipRefresh(u) ==
    /\ RangeReady(u)
    /\ IsRecent(u)
    /\ Return(u)
    /\ UNCHANGED <<telemetry, cache, orphaned, clock>>

\* Variant: the changes since the watermark itself are asked for.
SinceWatermark(now) == IF watermark # NoValue THEN watermark ELSE now

\* (state.watermark or sync_started_at) - overlap
Since(now) == (IF watermark # NoValue THEN watermark ELSE now) - Overlap

\* Forced, or due.
StartRefresh(u) ==
    /\ RangeReady(u)
    /\ Locals(u, [load[u] EXCEPT !.since = Since(load[u].now)])
    /\ GoTo(u, "persisted")
    /\ UNCHANGED <<telemetry, cache, orphaned, clock>>

QueryPersisted(u) ==
    /\ At(u, "persisted")
    /\ Locals(u, [load[u] EXCEPT !.found =
           [s \in Slots |-> IF /\ telemetry[s] # NoValue
                               /\ telemetry[s].persistedAt >= load[u].since
                            THEN Version(s) ELSE 0]])
    /\ GoTo(u, "reconciled")
    /\ UNCHANGED <<telemetry, cache, orphaned, clock>>

\* Variant: only the first query's documents are kept.
PersistedOnly(s, u) == FALSE

IsReconciled(s, u) ==
    /\ telemetry[s] # NoValue
    /\ telemetry[s].reconciledAt # NoValue
    /\ telemetry[s].reconciledAt >= load[u].since

\* The second query's documents replace the first one's.
QueryReconciled(u) ==
    /\ At(u, "reconciled")
    /\ Locals(u, [load[u] EXCEPT !.found =
           [s \in Slots |-> IF IsReconciled(s, u) THEN Version(s) ELSE @[s]], !.since = 0])
    /\ GoTo(u, "apply")
    /\ UNCHANGED <<telemetry, cache, orphaned, clock>>

\* Variant: the overlap is taken off when the watermark is stored, too.
WatermarkLessOverlap(u) == load[u].now - Overlap

\* Variant: the watermark is taken when the synchronization ends.
WatermarkAtEnd(u) == clock

NewWatermark(u) == load[u].now

\* apply_incremental_sync: first the rows, in a transaction.
SyncRows(u) ==
    /\ At(u, "apply")
    /\ Upsert(load[u].found)
    /\ Locals(u, [load[u] EXCEPT !.found = NoRows])
    /\ GoTo(u, "stamp")
    /\ UNCHANGED <<telemetry, saved, covered, watermark, lastSuccess, orphaned, clock>>

\* Then the watermark, and the commit.  The watermark is the start of this
\* load, even when another one has moved it further.  After a reset it goes to
\* the new connection, as in OrphanCoverage.
SyncState(u) ==
    /\ At(u, "stamp") \/ At(u, "orphanStamp")
    /\ watermark' = NewWatermark(u)
    /\ lastSuccess' = load[u].now
    /\ Commit
    /\ Return(u)
    /\ UNCHANGED <<telemetry, rows, covered, orphaned, clock>>

-----------------------------------------------------------------------------
(* Failures, the reset, time. *)

OthersInTransaction(u) == \E v \in Sessions \ {u} : InTransaction(v)

\* A query or a statement raises.  Inside a transaction it is rolled back, for
\* every session; record_sync_failure then keeps the watermark, and commits.
Fail(u) ==
    /\ pc[u] # "idle"
    /\ watermark # NoValue \/ MayFailFirst
    /\ InTransaction(u) /\ OthersInTransaction(u) => MayUndo
    /\ rows' = IF InTransaction(u) THEN saved ELSE rows
    /\ saved' = rows'
    /\ Return(u)
    /\ UNCHANGED <<telemetry, covered, watermark, lastSuccess, orphaned, clock>>

\* The dashboard's process ends; what SQLite committed stays.
Crash ==
    /\ watermark # NoValue \/ MayFailFirst
    /\ \E u \in Sessions : pc[u] # "idle"
    /\ pc' = [u \in Sessions |-> "idle"]
    /\ load' = [u \in Sessions |-> NoLoad]
    /\ rows' = saved
    /\ UNCHANGED <<telemetry, saved, covered, watermark, lastSuccess, orphaned, clock>>

\* A new file takes the place of the cache.
Emptied ==
    /\ rows' = NoRows
    /\ saved' = NoRows
    /\ covered' = {}
    /\ orphaned' = {}
    /\ watermark' = NoValue
    /\ lastSuccess' = NoValue

\* The dashboard's process starts on a damaged file, or one of another schema:
\* the file is moved away.
OpenRecovering ==
    /\ \A u \in Sessions : At(u, "idle")
    /\ Emptied
    /\ UNCHANGED <<telemetry, pc, load, clock>>

\* clear_cache in one session, whatever the others are doing: the connection is
\* closed, the file removed, and a new one opened.
ClearCache(u) ==
    /\ At(u, "idle")
    /\ Emptied
    /\ pc' = [v \in Sessions |-> CASE pc[v] = "cover" -> "orphanCover"
                                   [] pc[v] = "stamp" -> "orphanStamp"
                                   [] OTHER -> pc[v]]
    /\ UNCHANGED <<telemetry, load, clock>>

Tick ==
    /\ clock < MaxTime
    /\ \A u \in Sessions : pc[u] # "idle" => clock < load[u].now + LoadTime
    /\ clock' = clock + 1
    /\ UNCHANGED <<telemetry, cache, orphaned, pc, load>>

Next ==
    \/ \E t \in Stamps : Persist(t)
    \/ \E t \in Stamps, s \in Slots : Reconcile(s, t)
    \/ \E u \in Sessions : \E window \in Windows(clock) : LoadRange(u, window)
    \/ \E u \in Sessions :
           \/ FetchGap(u) \/ StoreRows(u) \/ StoreCoverage(u) \/ OrphanCoverage(u)
           \/ SkipRefresh(u) \/ StartRefresh(u)
           \/ QueryPersisted(u) \/ QueryReconciled(u) \/ SyncRows(u) \/ SyncState(u)
           \/ Fail(u) \/ ClearCache(u)
    \/ Crash
    \/ OpenRecovering
    \/ Tick

Spec == Init /\ [][Next]_vars

-----------------------------------------------------------------------------

\* When a document last changed, as far as the queries can tell.
Stamp(doc) ==
    IF doc.reconciledAt # NoValue /\ doc.reconciledAt > doc.persistedAt
    THEN doc.reconciledAt ELSE doc.persistedAt

\* Covered by a session that had stored its rows.
IsCovered(s) ==
    telemetry[s] # NoValue /\ telemetry[s].observedAt \in Coverage(covered \ orphaned)

\* Loading asks the store "for only the uncovered interval or intervals"
\* (local-telemetry-dashboard/spec.md:133): whatever rows the sessions have left,
\* overlapping, nested or adjacent, missing_ranges (cache.py:265-294) returns, in
\* order, disjoint ranges of exactly the instants of the window that no row holds.
GapsAreExact ==
    (\A u \in Sessions : At(u, "idle")) =>
        \A window \in Ranges :
            LET gaps == MissingRanges(window[1], window[2])
                found == {gaps[i] : i \in 1..Len(gaps)}
            IN /\ Coverage(found) = Instants(window) \ Coverage(covered)
               /\ \A i \in 1..Len(gaps) : gaps[i][1] < gaps[i][2]
               /\ \A i \in 1..(Len(gaps) - 1) : gaps[i][2] < gaps[i + 1][1]

\* Once there is a watermark, a document of a covered range is either cached as
\* it is stored or will be found by the next refresh, whichever sessions load
\* what, at whatever pace, however often they fail and the cache is cleared:
\* coverage never hides a change (service.py:60-97), but for the ranges that a
\* session covers after another one's reset has taken its rows.
NothingIsMissed ==
    watermark # NoValue =>
        \A s \in Slots : IsCovered(s) =>
            \/ rows[s] = Version(s)
            \/ Stamp(telemetry[s]) >= watermark - Overlap

\* When an upgrade or a reconciliation changes a stored observation, "the next
\* refresh SHALL upsert that observation into the local cache"
\* (local-telemetry-dashboard/spec.md:138): a refresh that has its results leaves
\* no covered document stale that had to be committed before it started.
RefreshCatchesUp ==
    [][\A u \in Sessions : SyncRows(u) =>
          \A s \in Slots :
              IsCovered(s) /\ Stamp(telemetry[s]) + CommitDelay < load[u].now =>
                  rows'[s] = Version(s)]_vars

\* Loading a range "SHALL persist the normalized results and completed coverage
\* marker atomically" (local-telemetry-dashboard/spec.md:129): whenever a session
\* marks a range as covered, every document it found there is in the cache.
CoverageHasItsRows ==
    [][\A u \in Sessions : StoreCoverage(u) \/ OrphanCoverage(u) =>
          \A s \in Slots : load[u].found[s] > 0 => rows'[s] > 0]_vars
=============================================================================
