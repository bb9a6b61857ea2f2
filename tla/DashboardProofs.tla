--------------------------- MODULE DashboardProofs ---------------------------
(***************************************************************************)
(* Three results about the dashboard's cache, for any sessions that load   *)
(* any windows at any pace.  Coverage never hides a change, and a refresh  *)
(* catches up: NothingIsMissed and RefreshCatchesUp, under the two         *)
(* assumptions that MissesNothing names and as long as a change and a load *)
(* together take no longer than the overlap; which gaps missing_ranges     *)
(* returns makes no difference to them.  And, without any assumption, the  *)
(* gaps it returns are exact, whatever rows the sessions have left.        *)
(***************************************************************************)
EXTENDS DashboardSync, WellFoundedInduction, TLAPS

\* Types, but for the gaps: these follow below.
Framed(frame) ==
    /\ frame = [now |-> frame.now, missing |-> frame.missing,
                since |-> frame.since, found |-> frame.found]
    /\ frame.now \in Time
    /\ frame.since \in Int
    /\ frame.found \in Rows

FrameInv ==
    /\ telemetry \in [Slots -> Optional(Document)]
    /\ rows \in Rows
    /\ saved \in Rows
    /\ watermark \in Optional(Time)
    /\ lastSuccess = NoValue <=> watermark = NoValue
    /\ pc \in [Sessions -> PC]
    /\ load = [u \in Sessions |-> load[u]]
    /\ \A u \in Sessions : Framed(load[u])
    /\ clock \in Time

\* A load began no more than LoadTime ago, a watermark lies in the past, and a
\* refresh looks back by the overlap at least.
ClockInv ==
    /\ watermark # NoValue => watermark <= clock
    /\ \A u \in Sessions : pc[u] # "idle" =>
           load[u].now <= clock /\ clock <= load[u].now + LoadTime
    /\ \A u \in Sessions : pc[u] \in {"persisted", "reconciled"} =>
           load[u].since <= clock - Overlap

\* A session that will set the watermark, if nothing fails.
Loading(u) == pc[u] \notin {"idle", "orphanCover"}

\* Documents of a range that is covered, or whose rows are stored and which is
\* covered next.
Watched(s) ==
    \/ IsCovered(s)
    \/ /\ telemetry[s] # NoValue
       /\ \E u \in Sessions : /\ At(u, "cover")
                              /\ telemetry[s].observedAt \in Instants(Head(load[u].missing))

\* A document that changed while u was loading, or shortly before.
Recent(u, s) == Stamp(telemetry[s]) >= load[u].now - CommitDelay

\* What a session found is stale only if the document has changed meanwhile.
\* "store" has all the documents of its gap.
FoundBy(u, s) ==
    telemetry[s] # NoValue =>
        /\ pc[u] \in {"store", "reconciled", "apply"} /\ load[u].found[s] > 0 =>
               load[u].found[s] = Version(s) \/ Recent(u, s)
        /\ pc[u] = "store" /\ telemetry[s].observedAt \in Instants(Head(load[u].missing)) =>
               load[u].found[s] = Version(s) \/ Recent(u, s)
        /\ pc[u] \in {"reconciled", "apply"} /\ Stamp(telemetry[s]) >= clock - Overlap =>
               \/ load[u].found[s] = Version(s)
               \/ Recent(u, s)
               \/ pc[u] = "reconciled" /\ IsReconciled(s, u)

FoundInv == \A u \in Sessions, s \in Slots : FoundBy(u, s)

\* The next refresh will find the document: it looks back from the watermark, or
\* from the start of the load that sets the first one.
WillBeFound(s) ==
    IF watermark # NoValue
    THEN Stamp(telemetry[s]) >= watermark - Overlap
    ELSE \E u \in Sessions : Loading(u) /\ Recent(u, s)

\* Neither the rows of the connection nor those a rollback returns to hide a change.
CoverInv ==
    /\ watermark = NoValue /\ covered \ orphaned # {} => \E u \in Sessions : Loading(u)
    /\ \A s \in Slots : Watched(s) => rows[s] = Version(s) \/ WillBeFound(s)
    /\ \A s \in Slots : IsCovered(s) => saved[s] = Version(s) \/ WillBeFound(s)

\* The refresh of u is about to find the document, or has found it.
IsSought(u, s) ==
    CASE pc[u] = "persisted" -> Recent(u, s) \/ Stamp(telemetry[s]) >= load[u].since
      [] pc[u] = "reconciled" ->
             Recent(u, s) \/ load[u].found[s] = Version(s) \/ IsReconciled(s, u)
      [] pc[u] = "apply" -> Recent(u, s) \/ load[u].found[s] = Version(s)
      [] OTHER -> Stamp(telemetry[s]) >= load[u].now - Overlap

Refreshing == {"persisted", "reconciled", "apply", "stamp", "orphanStamp"}

\* What the watermark u will set hides of the rows, u has found.
RefreshedBy(u, s) ==
    pc[u] \in Refreshing =>
        /\ Watched(s) => rows[s] = Version(s) \/ IsSought(u, s)
        /\ IsCovered(s) /\ pc[u] # "stamp" => saved[s] = Version(s) \/ IsSought(u, s)

RefreshInv == \A u \in Sessions, s \in Slots : RefreshedBy(u, s)

SyncInv == FrameInv /\ ClockInv /\ FoundInv /\ CoverInv /\ RefreshInv

-----------------------------------------------------------------------------
(* Documents and the locals of a session. *)

\* Every instant of the clock lies in a slot of the series.
LEMMA InstantIsIndexed ==
    ASSUME NEW t \in Time
    PROVE  Slot(t) \in Slots
  <1>1. \A a \in Nat, c \in Nat, b \in Nat \ {0} :
            /\ a \div b \in Nat
            /\ a <= c => a \div b <= c \div b
    OBVIOUS
  <1>2. t \in Nat /\ MaxTime \in Nat /\ t <= MaxTime
    BY BoundsAssumption DEF Time
  <1> QED
    BY <1>1, <1>2, IntervalAssumption DEF Slots, Slot

\* A stamp is an instant.
LEMMA StampTyped == \A doc \in Document : Stamp(doc) \in Int
  BY DEF Document, Stamp, Time, Optional

\* A document's version is positive, and its stamp an instant.
LEMMA DocumentTyped ==
    ASSUME FrameInv, NEW s \in Slots
    PROVE  /\ Version(s) \in 0..MaxVersion
           /\ telemetry[s] # NoValue =>
                  /\ telemetry[s] \in Document
                  /\ Version(s) > 0
                  /\ Stamp(telemetry[s]) \in Int
  <1>1. telemetry[s] # NoValue => telemetry[s] \in Document
    BY DEF FrameInv, Optional
  <1>2. \A doc \in Document : doc.version \in 1..MaxVersion /\ Stamp(doc) \in Int
    BY StampTyped DEF Document
  <1>3. 0 \in 0..MaxVersion /\ 1..MaxVersion \subseteq 0..MaxVersion
    BY BoundsAssumption
  <1> QED
    BY <1>1, <1>2, <1>3, BoundsAssumption DEF Version

\* The step of u, taken apart.
SessionStep(u) ==
    \/ \E window \in Windows(clock) : LoadRange(u, window)
    \/ FetchGap(u) \/ StoreRows(u) \/ StoreCoverage(u) \/ OrphanCoverage(u)
    \/ SkipRefresh(u) \/ StartRefresh(u)
    \/ QueryPersisted(u) \/ QueryReconciled(u) \/ SyncRows(u) \/ SyncState(u)
    \/ Fail(u)

CollectorStep == (\E t \in Stamps : Persist(t)) \/ (\E t \in Stamps, s \in Slots : Reconcile(s, t))

\* A step of one session leaves the place and the locals of the others.
LEMMA StepOfOne ==
    ASSUME FrameInv, NEW u \in Sessions, NEW label, NEW frame,
           GoTo(u, label), Locals(u, frame)
    PROVE  /\ pc'[u] = label
           /\ load'[u] = frame
           /\ \A v \in Sessions \ {u} : pc'[v] = pc[v] /\ load'[v] = load[v]
           /\ label \in PC => pc' \in [Sessions -> PC]
           /\ Framed(frame) =>
                  /\ load' = [v \in Sessions |-> load'[v]]
                  /\ \A v \in Sessions : Framed(load'[v])
  <1>1. pc \in [Sessions -> PC] /\ pc' = [pc EXCEPT ![u] = label]
    BY DEF FrameInv, GoTo
  <1>2. /\ load = [v \in Sessions |-> load[v]]
        /\ load' = [load EXCEPT ![u] = frame]
        /\ \A v \in Sessions : Framed(load[v])
    BY DEF FrameInv, Locals
  <1>3. load'[u] = frame /\ \A v \in Sessions \ {u} : load'[v] = load[v]
    BY <1>2
  <1>4. load' = [v \in Sessions |-> load'[v]]
    BY <1>2
  <1> QED
    BY <1>1, <1>2, <1>3, <1>4

\* The locals at the start of a load, once a gap is covered, and once a refresh
\* has all its results.
Begun(m) == [NoLoad EXCEPT !.now = clock, !.missing = m]
NextGap(frame) == [frame EXCEPT !.missing = Tail(@), !.found = NoRows]
Complete(frame, f) == [frame EXCEPT !.found = f, !.since = 0]

LEMMA BegunFramed ==
    ASSUME NEW m, clock \in Time
    PROVE  Framed(Begun(m)) /\ Begun(m).now = clock
  <1> DEFINE first == [NoLoad EXCEPT !.now = clock]
  <1>1. first = [now |-> clock, missing |-> <<>>, since |-> 0, found |-> NoRows]
    BY DEF NoLoad
  <1>2. [first EXCEPT !.missing = m] =
            [now |-> clock, missing |-> m, since |-> 0, found |-> NoRows]
    <2> HIDE DEF first
    <2> QED BY <1>1
  <1>3. Begun(m) = [now |-> clock, missing |-> m, since |-> 0, found |-> NoRows]
    BY <1>2 DEF Begun
  <1>4. NoRows \in Rows
    BY BoundsAssumption DEF NoRows, Rows
  <1> QED
    BY <1>3, <1>4 DEF Framed

LEMMA NextGapFramed ==
    ASSUME NEW frame, Framed(frame)
    PROVE  Framed(NextGap(frame)) /\ NextGap(frame).now = frame.now
  <1> DEFINE now == frame.now
             missing == frame.missing
             since == frame.since
             found == frame.found
             rest == Tail(missing)
             first == [frame EXCEPT !.missing = rest]
  <1>1. /\ frame = [now |-> now, missing |-> missing, since |-> since, found |-> found]
        /\ now \in Time /\ since \in Int /\ NoRows \in Rows
    BY BoundsAssumption DEF Framed, NoRows, Rows
  <1>2. NextGap(frame) = [first EXCEPT !.found = NoRows]
    BY DEF NextGap
  <1> HIDE DEF now, missing, since, found, rest
  <1>3. first = [now |-> now, missing |-> rest, since |-> since, found |-> found]
    BY <1>1
  <1> HIDE DEF first
  <1>4. [first EXCEPT !.found = NoRows] =
            [now |-> now, missing |-> rest, since |-> since, found |-> NoRows]
    BY <1>3
  <1>5. Framed(NextGap(frame)) /\ NextGap(frame).now = now
    BY <1>1, <1>2, <1>4 DEF Framed
  <1> QED
    BY <1>5 DEF now

LEMMA CompleteFramed ==
    ASSUME NEW frame, Framed(frame), NEW f \in Rows
    PROVE  /\ Framed(Complete(frame, f))
           /\ Complete(frame, f).now = frame.now
           /\ Complete(frame, f).found = f
  <1> DEFINE now == frame.now
             missing == frame.missing
             since == frame.since
             found == frame.found
             first == [frame EXCEPT !.found = f]
  <1>1. /\ frame = [now |-> now, missing |-> missing, since |-> since, found |-> found]
        /\ now \in Time
    BY DEF Framed
  <1>2. Complete(frame, f) = [first EXCEPT !.since = 0]
    BY DEF Complete
  <1> HIDE DEF now, missing, since, found
  <1>3. first = [now |-> now, missing |-> missing, since |-> since, found |-> f]
    BY <1>1
  <1> HIDE DEF first
  <1>4. [first EXCEPT !.since = 0] =
            [now |-> now, missing |-> missing, since |-> 0, found |-> f]
    BY <1>3
  <1>5. /\ Framed(Complete(frame, f))
        /\ Complete(frame, f).now = now
        /\ Complete(frame, f).found = f
    BY <1>1, <1>2, <1>4 DEF Framed
  <1> QED
    BY <1>5 DEF now

\* The locals before a load and after it.
LEMMA NoLoadFramed == Framed(NoLoad)
  BY BoundsAssumption DEF NoLoad, Framed, NoRows, Rows, Time

\* A step of the collector changes documents, each stamped recently.
LEMMA ChangesAreRecent ==
    ASSUME FrameInv, CollectorStep
    PROVE  /\ telemetry' \in [Slots -> Optional(Document)]
           /\ UNCHANGED <<cache, orphaned, pc, load, clock>>
           /\ \A s \in Slots :
                  \/ telemetry'[s] = telemetry[s]
                  \/ telemetry'[s] # NoValue /\ Stamp(telemetry'[s]) >= clock - CommitDelay
  <1>1. CASE \E t \in Stamps : Persist(t)
    <2>1. PICK t \in Stamps : Persist(t)
      BY <1>1
    <2> DEFINE doc == [version |-> Version(Slot(t)) + 1, observedAt |-> t, persistedAt |-> t,
                       reconciledAt |-> NoValue]
    <2>2. /\ t \in Time /\ t >= clock - CommitDelay
          /\ Slot(t) \in Slots
      BY InstantIsIndexed, DelayAssumption DEF Stamps, FrameInv, Time
    <2>3. Version(Slot(t)) + 1 \in 1..MaxVersion
      BY <2>1, <2>2, DocumentTyped, BoundsAssumption DEF Persist
    <2>4. doc \in Document /\ Stamp(doc) = t
      BY <2>2, <2>3 DEF Document, Optional, Stamp
    <2>5. /\ telemetry' = [telemetry EXCEPT ![Slot(t)] = doc]
          /\ UNCHANGED <<cache, orphaned, pc, load, clock>>
      BY <2>1 DEF Persist
    <2> HIDE DEF doc
    <2> QED
      BY <2>2, <2>4, <2>5, NoDocumentAssumption DEF FrameInv, Optional
  <1>2. CASE \E t \in Stamps, s \in Slots : Reconcile(s, t)
    <2>1. PICK t \in Stamps, s \in Slots : Reconcile(s, t)
      BY <1>2
    <2> DEFINE doc == [telemetry[s] EXCEPT !.version = @ + 1, !.reconciledAt = t]
    <2>2. t \in Time /\ t >= clock - CommitDelay
      BY DelayAssumption DEF Stamps, FrameInv, Time
    <2>3. telemetry[s] \in Document /\ telemetry[s].version < MaxVersion
      BY <2>1, DocumentTyped DEF Reconcile, Version
    <2>4. doc \in Document /\ doc.reconciledAt = t /\ doc.persistedAt \in Time
      <3>1. \A v \in 1..MaxVersion, d \in Document :
                LET changed == [d EXCEPT !.version = v, !.reconciledAt = t]
                IN /\ changed \in Document
                   /\ changed.reconciledAt = t
                   /\ changed.persistedAt \in Time
        BY <2>2 DEF Document, Optional
      <3>2. telemetry[s].version + 1 \in 1..MaxVersion
        BY <2>3, BoundsAssumption DEF Document
      <3> QED
        BY <2>3, <3>1, <3>2
    <2>5. /\ telemetry' = [telemetry EXCEPT ![s] = doc]
          /\ UNCHANGED <<cache, orphaned, pc, load, clock>>
      BY <2>1, <2>3 DEF Reconcile, FrameInv, Document
    <2> HIDE DEF doc
    <2>6. Stamp(doc) >= t
      BY <2>2, <2>4, NoValueAssumption DEF Stamp, Time
    <2>7. Stamp(doc) \in Int
      BY <2>4 DEF Document, Optional, Stamp, Time
    <2> QED
      BY <2>2, <2>4, <2>5, <2>6, <2>7, NoDocumentAssumption, DelayAssumption DEF FrameInv, Optional, Time
  <1> QED
    BY <1>1, <1>2 DEF CollectorStep

\* Every step is one of the collector, of one session, of a reset, of the
\* process or of the clock.
LEMMA Steps ==
    Next => \/ CollectorStep
            \/ \E u \in Sessions : SessionStep(u) \/ ClearCache(u)
            \/ Crash \/ OpenRecovering \/ Tick
  BY DEF Next, CollectorStep, SessionStep

-----------------------------------------------------------------------------
(* Types. *)

\* The dashboard's first start.
LEMMA SyncInit == Init => SyncInv
  <1> SUFFICES ASSUME Init
               PROVE  SyncInv
    OBVIOUS
  <1>1. FrameInv
    BY NoLoadFramed, BoundsAssumption
       DEF Init, FrameInv, NoRows, Rows, Optional, PC, Time
  <1>2. \A s \in Slots : telemetry[s] = NoValue /\ ~IsCovered(s)
    BY DEF Init, IsCovered
  <1>3. \A u \in Sessions : pc[u] = "idle"
    BY DEF Init
  <1> QED
    BY <1>1, <1>2, <1>3 DEF Init, SyncInv, ClockInv, FoundInv, FoundBy, CoverInv, RefreshInv,
       RefreshedBy, Refreshing, Watched, At

\* The rows that an upsert leaves.
LEMMA UpsertTyped ==
    ASSUME FrameInv, NEW found \in Rows, Upsert(found)
    PROVE  /\ rows' \in Rows
           /\ \A s \in Slots : rows'[s] = IF found[s] > 0 THEN found[s] ELSE rows[s]
  BY DEF FrameInv, Rows, Upsert

\* A step of one session keeps the types, and its load its place in time.
LEMMA SessionFrames ==
    ASSUME FrameInv, ClockInv, NEW u \in Sessions, SessionStep(u)
    PROVE  FrameInv' /\ ClockInv'
  <1> USE DEF PC
  <1> DEFINE Keeps(label, frame) ==
                 /\ GoTo(u, label) /\ label \in PC
                 /\ Locals(u, frame) /\ Framed(frame)
             Timed(label, frame) ==
                 /\ label # "idle" => frame.now <= clock /\ clock <= frame.now + LoadTime
                 /\ label \in {"persisted", "reconciled"} => frame.since <= clock - Overlap
  <1>1. ASSUME NEW label, NEW frame, Keeps(label, frame), Timed(label, frame),
               rows' \in Rows, saved' \in Rows, watermark' \in Optional(Time),
               lastSuccess' = NoValue <=> watermark' = NoValue,
               watermark' # NoValue => watermark' <= clock,
               UNCHANGED <<telemetry, clock>>
        PROVE  FrameInv' /\ ClockInv'
    <2>1. /\ pc'[u] = label /\ load'[u] = frame
          /\ \A v \in Sessions \ {u} : pc'[v] = pc[v] /\ load'[v] = load[v]
          /\ pc' \in [Sessions -> PC]
          /\ load' = [v \in Sessions |-> load'[v]]
          /\ \A v \in Sessions : Framed(load'[v])
      BY <1>1, StepOfOne
    <2>2. FrameInv'
      BY <1>1, <2>1 DEF FrameInv, Framed
    <2>3. ClockInv'
      BY <1>1, <2>1 DEF ClockInv
    <2> QED
      BY <2>2, <2>3
  <1>2. Framed(load[u]) /\ rows \in Rows /\ saved \in Rows /\ clock \in Time
    BY DEF FrameInv
  <1>3. \A found \in Rows : Framed([load[u] EXCEPT !.found = found])
    BY <1>2 DEF Framed
  <1> USE <1>2, DelayAssumption, LoadAssumption, OverlapAssumption, NoValueAssumption DEF Time
  <1>5. \A P \in SUBSET Slots : [s \in Slots |-> IF s \in P THEN Version(s) ELSE 0] \in Rows
    BY DocumentTyped, BoundsAssumption DEF Rows
  <1>6. NoRows \in Rows
    BY BoundsAssumption DEF NoRows, Rows
  <1>7. Framed(NoLoad)
    BY NoLoadFramed
  <1>8. CASE \E window \in Windows(clock) : LoadRange(u, window)
    <2>1. PICK window \in Windows(clock) : LoadRange(u, window)
      BY <1>8
    <2> DEFINE frame == Begun(MissingRanges(window[1], window[2]))
    <2>2. Framed(frame) /\ frame.now = clock
      BY BegunFramed
    <2>3. /\ GoTo(u, "gaps") /\ Locals(u, frame)
          /\ UNCHANGED <<telemetry, rows, saved, watermark, lastSuccess, clock>>
      BY <2>1 DEF LoadRange, cache, Begun
    <2> HIDE DEF frame
    <2> QED
      BY <1>1, <2>2, <2>3 DEF FrameInv, ClockInv
  <1>9. CASE FetchGap(u)
    <2> DEFINE found == InRange(Head(load[u].missing))
    <2>1. found \in Rows
      BY DocumentTyped, BoundsAssumption DEF InRange, Rows
    <2>2. /\ GoTo(u, "store") /\ Locals(u, [load[u] EXCEPT !.found = found])
          /\ pc[u] = "gaps"
          /\ UNCHANGED <<telemetry, rows, saved, watermark, lastSuccess, clock>>
      BY <1>9 DEF FetchGap, At, cache
    <2> HIDE DEF found
    <2>3. [load[u] EXCEPT !.found = found].now = load[u].now
      BY DEF Framed
    <2> QED
      BY <1>1, <1>3, <2>1, <2>2, <2>3 DEF FrameInv, ClockInv
  <1>10. CASE StoreRows(u)
    <2>1. /\ pc[u] = "store" /\ GoTo(u, "cover") /\ load' = load
          /\ Upsert(load[u].found)
          /\ UNCHANGED <<telemetry, saved, watermark, lastSuccess, clock>>
      BY <1>10 DEF StoreRows, At
    <2>2. rows' \in Rows
      BY <2>1, UpsertTyped DEF Framed
    <2>3. Locals(u, load[u])
      BY <2>1 DEF Locals, FrameInv
    <2> QED
      BY <1>1, <2>1, <2>2, <2>3 DEF FrameInv, ClockInv
  <1>11. CASE StoreCoverage(u)
    <2>1. /\ pc[u] = "cover" /\ GoTo(u, "gaps") /\ Locals(u, NextGap(load[u]))
          /\ saved' = rows
          /\ UNCHANGED <<telemetry, rows, watermark, lastSuccess, clock>>
      BY <1>11 DEF StoreCoverage, At, Commit, NextGap
    <2>2. Framed(NextGap(load[u])) /\ NextGap(load[u]).now = load[u].now
      BY <1>2, NextGapFramed
    <2> QED
      BY <1>1, <2>1, <2>2 DEF FrameInv, ClockInv
  <1>12. CASE OrphanCoverage(u)
    <2>1. /\ GoTo(u, "idle") /\ Locals(u, NoLoad)
          /\ saved' = rows
          /\ UNCHANGED <<telemetry, rows, watermark, lastSuccess, clock>>
      BY <1>12 DEF OrphanCoverage, Return, Commit
    <2> QED
      BY <1>1, <1>7, <2>1 DEF FrameInv, ClockInv
  <1>13. CASE SkipRefresh(u)
    <2>1. /\ GoTo(u, "idle") /\ Locals(u, NoLoad)
          /\ UNCHANGED <<telemetry, rows, saved, watermark, lastSuccess, clock>>
      BY <1>13 DEF SkipRefresh, Return, cache
    <2> QED
      BY <1>1, <1>7, <2>1 DEF FrameInv, ClockInv
  <1>14. CASE StartRefresh(u)
    <2> DEFINE since == Since(load[u].now)
               frame == [load[u] EXCEPT !.since = since]
    <2>1. /\ pc[u] = "gaps" /\ GoTo(u, "persisted") /\ Locals(u, frame)
          /\ UNCHANGED <<telemetry, rows, saved, watermark, lastSuccess, clock>>
      BY <1>14 DEF StartRefresh, RangeReady, At, cache
    <2>2. load[u].now \in Time /\ load[u].now <= clock /\ clock <= load[u].now + LoadTime
      BY <2>1 DEF ClockInv, Framed
    <2>3. since \in Int /\ since <= clock - Overlap
      BY <2>2 DEF Since, FrameInv, ClockInv, Optional
    <2> HIDE DEF since
    <2>4. Framed(frame) /\ frame.now = load[u].now /\ frame.since = since
      BY <2>3 DEF Framed
    <2> HIDE DEF frame
    <2> QED
      BY <1>1, <2>1, <2>2, <2>3, <2>4 DEF FrameInv, ClockInv
  <1>15. CASE QueryPersisted(u)
    <2> DEFINE found == [s \in Slots |-> IF /\ telemetry[s] # NoValue
                                            /\ telemetry[s].persistedAt >= load[u].since
                                         THEN Version(s) ELSE 0]
               frame == [load[u] EXCEPT !.found = found]
    <2>1. /\ pc[u] = "persisted" /\ GoTo(u, "reconciled") /\ Locals(u, frame)
          /\ UNCHANGED <<telemetry, rows, saved, watermark, lastSuccess, clock>>
      BY <1>15 DEF QueryPersisted, At, cache
    <2>2. found \in Rows
      BY DocumentTyped, BoundsAssumption DEF Rows
    <2> HIDE DEF found
    <2>3. Framed(frame) /\ frame.now = load[u].now /\ frame.since = load[u].since
      BY <1>3, <2>2 DEF Framed
    <2> HIDE DEF frame
    <2> QED
      BY <1>1, <2>1, <2>3 DEF FrameInv, ClockInv
  <1>16. CASE QueryReconciled(u)
    <2> DEFINE found == [s \in Slots |-> IF IsReconciled(s, u) THEN Version(s)
                                        ELSE load[u].found[s]]
    <2>1. /\ pc[u] = "reconciled" /\ GoTo(u, "apply")
          /\ Locals(u, Complete(load[u], found))
          /\ UNCHANGED <<telemetry, rows, saved, watermark, lastSuccess, clock>>
      BY <1>16 DEF QueryReconciled, At, cache, Complete
    <2>2. found \in Rows
      BY DocumentTyped, BoundsAssumption DEF Rows, Framed
    <2> HIDE DEF found
    <2>3. /\ Framed(Complete(load[u], found))
          /\ Complete(load[u], found).now = load[u].now
      BY <1>2, <2>2, CompleteFramed
    <2> QED
      BY <1>1, <2>1, <2>3 DEF FrameInv, ClockInv
  <1>17. CASE SyncRows(u)
    <2> DEFINE frame == [load[u] EXCEPT !.found = NoRows]
    <2>1. /\ pc[u] = "apply" /\ GoTo(u, "stamp") /\ Locals(u, frame)
          /\ Upsert(load[u].found)
          /\ UNCHANGED <<telemetry, saved, watermark, lastSuccess, clock>>
      BY <1>17 DEF SyncRows, At
    <2>2. rows' \in Rows
      BY <2>1, UpsertTyped DEF Framed
    <2>3. Framed(frame) /\ frame.now = load[u].now
      BY <1>3, <1>6 DEF Framed
    <2> HIDE DEF frame
    <2> QED
      BY <1>1, <2>1, <2>2, <2>3 DEF FrameInv, ClockInv
  <1>18. CASE SyncState(u)
    <2>1. /\ pc[u] # "idle" /\ GoTo(u, "idle") /\ Locals(u, NoLoad)
          /\ watermark' = load[u].now /\ lastSuccess' = load[u].now
          /\ saved' = rows
          /\ UNCHANGED <<telemetry, rows, clock>>
      BY <1>18 DEF SyncState, Return, Commit, NewWatermark, At
    <2>2. load[u].now \in Time /\ load[u].now <= clock
      BY <2>1 DEF ClockInv, Framed
    <2> QED
      BY <1>1, <1>7, <2>1, <2>2 DEF Optional
  <1>19. CASE Fail(u)
    <2>1. /\ GoTo(u, "idle") /\ Locals(u, NoLoad)
          /\ rows' \in {rows, saved} /\ saved' = rows'
          /\ UNCHANGED <<telemetry, watermark, lastSuccess, clock>>
      BY <1>19 DEF Fail, Return
    <2> QED
      BY <1>1, <1>7, <2>1 DEF FrameInv, ClockInv
  <1> QED
    BY <1>8, <1>9, <1>10, <1>11, <1>12, <1>13, <1>14, <1>15, <1>16, <1>17, <1>18, <1>19
       DEF SessionStep

-----------------------------------------------------------------------------
(* What a late change means, and what a step leaves of the invariant. *)

\* A load is at most LoadTime old, so what changed since it began, or was about
\* to be committed then, is within the overlap.
LEMMA RecentIsLate ==
    ASSUME FrameInv, ClockInv, CommitDelay + LoadTime <= Overlap,
           NEW u \in Sessions, pc[u] # "idle",
           NEW s \in Slots, telemetry[s] # NoValue, Recent(u, s)
    PROVE  Stamp(telemetry[s]) >= clock - Overlap
  <1>1. Stamp(telemetry[s]) \in Int
    BY DocumentTyped
  <1>2. load[u].now \in Int /\ clock \in Int /\ clock <= load[u].now + LoadTime
    BY DEF FrameInv, Framed, ClockInv, Time
  <1> QED
    BY <1>1, <1>2, DelayAssumption, LoadAssumption, OverlapAssumption DEF Recent

\* The next refresh finds a change within the overlap, and so do those that run.
LEMMA LateIsFound ==
    ASSUME SyncInv, NEW s \in Slots, telemetry[s] # NoValue,
           Stamp(telemetry[s]) >= clock - Overlap
    PROVE  /\ watermark # NoValue => WillBeFound(s)
           /\ \A v \in Sessions : pc[v] \in Refreshing => IsSought(v, s)
  <1>1. Stamp(telemetry[s]) \in Int /\ clock \in Int
    BY DocumentTyped DEF SyncInv, FrameInv, Time
  <1>2. watermark # NoValue => watermark \in Int /\ watermark <= clock
    BY DEF SyncInv, FrameInv, ClockInv, Optional, Time
  <1>3. watermark # NoValue => WillBeFound(s)
    BY <1>1, <1>2, OverlapAssumption DEF WillBeFound
  <1>4. ASSUME NEW v \in Sessions, pc[v] \in Refreshing
        PROVE  IsSought(v, s)
    <2>1. /\ load[v].now \in Int /\ load[v].now <= clock
          /\ load[v].since \in Int
          /\ pc[v] = "persisted" => load[v].since <= clock - Overlap
      BY <1>4 DEF SyncInv, FrameInv, Framed, ClockInv, Time, Refreshing
    <2>2. CASE pc[v] = "persisted"
      BY <1>1, <2>1, <2>2, OverlapAssumption DEF IsSought
    <2>3. CASE pc[v] \in {"reconciled", "apply"}
      BY <2>3 DEF IsSought, SyncInv, FoundInv, FoundBy
    <2>4. CASE pc[v] \in {"stamp", "orphanStamp"}
      BY <1>1, <2>1, <2>4, OverlapAssumption DEF IsSought
    <2> QED
      BY <1>4, <2>2, <2>3, <2>4 DEF Refreshing
  <1> QED
    BY <1>3, <1>4

\* The other sessions stay where they are.
Others(u) == \A v \in Sessions \ {u} : pc'[v] = pc[v] /\ load'[v] = load[v]

\* What another session has found stays as good as it was, if no document changes.
LEMMA OthersFound ==
    ASSUME SyncInv, NEW u \in Sessions, Others(u), UNCHANGED <<telemetry, clock>>
    PROVE  \A v \in Sessions \ {u}, s \in Slots : FoundBy(v, s)'
  BY DEF SyncInv, FoundInv, FoundBy, Others, Version, Recent, IsReconciled

\* A step that writes no rows and watches no more leaves what the others seek.
LEMMA OthersRefreshed ==
    ASSUME SyncInv, NEW u \in Sessions, Others(u),
           UNCHANGED <<telemetry, rows, clock>>,
           \A s \in Slots : Watched(s)' => Watched(s),
           \/ saved' = rows
           \/ saved' = saved /\ UNCHANGED <<covered, orphaned>>
    PROVE  \A v \in Sessions \ {u}, s \in Slots : RefreshedBy(v, s)'
  <1> SUFFICES ASSUME NEW v \in Sessions \ {u}, NEW s \in Slots, pc'[v] \in Refreshing
               PROVE  RefreshedBy(v, s)'
    BY DEF RefreshedBy
  <1>1. IsCovered(s)' => Watched(s)' /\ (IsCovered(s) \/ saved' = rows)
    BY DEF Watched, IsCovered
  <1>2. Version(s)' = Version(s)
    BY DEF Version
  <1>3. pc'[v] = pc[v] /\ load'[v] = load[v] /\ RefreshedBy(v, s)
    BY DEF Others, SyncInv, RefreshInv
  <1>4. IsSought(v, s) => IsSought(v, s)'
    BY <1>2, <1>3 DEF IsSought, Recent, IsReconciled
  <1> QED
    BY <1>1, <1>2, <1>3, <1>4 DEF RefreshedBy

\* It keeps what the next refresh will find, unless it returns before there is a
\* watermark.
LEMMA QuietStep ==
    ASSUME SyncInv, NEW u \in Sessions, Others(u),
           UNCHANGED <<telemetry, rows, watermark, clock>>,
           \A s \in Slots : Watched(s)' => Watched(s),
           \/ saved' = rows
           \/ saved' = saved /\ UNCHANGED <<covered, orphaned>>,
           \/ watermark # NoValue
           \/ ~Loading(u)
           \/ Loading(u)' /\ load'[u].now = load[u].now,
           covered' \ orphaned' # {} => covered \ orphaned # {} \/ Loading(u)
    PROVE  /\ CoverInv'
           /\ \A v \in Sessions \ {u}, s \in Slots : RefreshedBy(v, s)'
  <1>1. \A s \in Slots : WillBeFound(s) => WillBeFound(s)'
    BY DEF WillBeFound, Loading, Recent, Others
  <1>2. \A s \in Slots : IsCovered(s)' => Watched(s)' /\ (IsCovered(s) \/ saved' = rows)
    BY DEF Watched, IsCovered
  <1>3. \A s \in Slots : Version(s)' = Version(s)
    BY DEF Version
  <1>4. watermark' = NoValue /\ covered' \ orphaned' # {} => \E v \in Sessions : Loading(v)'
    BY DEF SyncInv, CoverInv, Loading, Others
  <1>5. \A s \in Slots : Watched(s)' => rows'[s] = Version(s)' \/ WillBeFound(s)'
    BY <1>1, <1>3 DEF SyncInv, CoverInv
  <1>6. \A s \in Slots : IsCovered(s)' => saved'[s] = Version(s)' \/ WillBeFound(s)'
    BY <1>1, <1>2, <1>3, <1>5 DEF SyncInv, CoverInv
  <1> QED
    BY <1>4, <1>5, <1>6, OthersRefreshed DEF CoverInv

\* A change that the collector commits is late enough for everyone.
LEMMA CollectorKeeps ==
    ASSUME SyncInv, CommitDelay + LoadTime <= Overlap, CollectorStep
    PROVE  SyncInv'
  <1>1. /\ telemetry' \in [Slots -> Optional(Document)]
        /\ UNCHANGED <<cache, orphaned, pc, load, clock>>
        /\ \A s \in Slots :
               \/ telemetry'[s] = telemetry[s]
               \/ telemetry'[s] # NoValue /\ Stamp(telemetry'[s]) >= clock - CommitDelay
    BY ChangesAreRecent DEF SyncInv
  <1>2. UNCHANGED <<rows, saved, covered, watermark, lastSuccess, orphaned, pc, load, clock>>
    BY <1>1 DEF cache
  <1>3. FrameInv' /\ ClockInv'
    BY <1>1, <1>2 DEF SyncInv, FrameInv, ClockInv, Framed
  <1>4. ASSUME NEW s \in Slots, telemetry'[s] = telemetry[s]
        PROVE  /\ Version(s)' = Version(s)
               /\ Watched(s)' => Watched(s)
               /\ IsCovered(s)' => IsCovered(s)
               /\ WillBeFound(s) => WillBeFound(s)'
               /\ \A u \in Sessions : FoundBy(u, s)' /\ RefreshedBy(u, s)'
    <2>1. /\ Version(s)' = Version(s)
          /\ Watched(s)' = Watched(s)
          /\ IsCovered(s)' = IsCovered(s)
          /\ WillBeFound(s)' = WillBeFound(s)
      BY <1>2, <1>4 DEF Version, Watched, IsCovered, WillBeFound, Loading, Recent, At
    <2>2. ASSUME NEW u \in Sessions
          PROVE  FoundBy(u, s)' /\ RefreshedBy(u, s)'
      <3>1. IsReconciled(s, u)' = IsReconciled(s, u) /\ Recent(u, s)' = Recent(u, s)
        BY <1>2, <1>4 DEF IsReconciled, Recent
      <3>2. IsSought(u, s)' = IsSought(u, s)
        BY <1>2, <1>4, <2>1, <3>1 DEF IsSought
      <3>3. FoundBy(u, s) /\ RefreshedBy(u, s)
        BY DEF SyncInv, FoundInv, RefreshInv
      <3> QED
        BY <1>2, <1>4, <2>1, <3>1, <3>2, <3>3 DEF FoundBy, RefreshedBy
    <2> QED
      BY <2>1, <2>2
  <1>5. ASSUME NEW s \in Slots, telemetry'[s] # NoValue,
               Stamp(telemetry'[s]) >= clock - CommitDelay
        PROVE  /\ IsCovered(s)' \/ Watched(s)' => WillBeFound(s)'
               /\ \A u \in Sessions : FoundBy(u, s)' /\ RefreshedBy(u, s)'
    <2>1. Stamp(telemetry'[s]) \in Int
      BY <1>1, <1>5, StampTyped DEF Optional
    <2>2. \A u \in Sessions : pc[u] # "idle" => Recent(u, s)'
      <3>1. \A u \in Sessions : load[u].now \in Int /\ clock \in Int
        BY DEF SyncInv, FrameInv, Framed, Time
      <3> QED
        BY <1>2, <1>5, <2>1, <3>1, DelayAssumption DEF Recent, SyncInv, ClockInv
    <2>3. IsCovered(s)' \/ Watched(s)' => WillBeFound(s)'
      <3>1. CASE watermark # NoValue
        <4>1. watermark \in Int /\ clock \in Int /\ watermark <= clock
          BY <3>1 DEF SyncInv, FrameInv, ClockInv, Optional, Time
        <4> QED
          BY <1>2, <1>5, <2>1, <3>1, <4>1, DelayAssumption, LoadAssumption, OverlapAssumption
             DEF WillBeFound
      <3>2. CASE watermark = NoValue
        <4>1. ASSUME IsCovered(s)' \/ Watched(s)'
              PROVE  \E u \in Sessions : Loading(u)
          <5>1. CASE IsCovered(s)'
            <6>1. covered \ orphaned # {}
              BY <1>2, <5>1 DEF IsCovered, Coverage
            <6> QED
              BY <3>2, <6>1 DEF SyncInv, CoverInv
          <5>2. CASE Watched(s)' /\ ~IsCovered(s)'
            BY <1>2, <5>2 DEF Watched, At, Loading
          <5> QED
            BY <4>1, <5>1, <5>2
        <4>2. ASSUME NEW u \in Sessions, Loading(u)
              PROVE  WillBeFound(s)'
          BY <1>2, <2>2, <3>2, <4>2 DEF WillBeFound, Loading
        <4> QED
          BY <4>1, <4>2
      <3> QED
        BY <3>1, <3>2
    <2>4. ASSUME NEW u \in Sessions
          PROVE  FoundBy(u, s)' /\ RefreshedBy(u, s)'
      <3>1. FoundBy(u, s)'
        BY <1>2, <2>2 DEF FoundBy
      <3>2. pc[u] = "idle" \/ IsSought(u, s)' \/ pc[u] \notin Refreshing
        <4>1. CASE pc[u] \in {"persisted", "reconciled", "apply"}
          BY <1>2, <2>2, <4>1 DEF IsSought
        <4>2. CASE pc[u] \in {"stamp", "orphanStamp"}
          <5>1. load[u].now \in Int /\ Recent(u, s)'
            BY <2>2, <4>2 DEF SyncInv, FrameInv, Framed, Time
          <5>2. Stamp(telemetry'[s]) >= load[u].now - Overlap
            BY <1>2, <2>1, <5>1, DelayAssumption, LoadAssumption, OverlapAssumption DEF Recent
          <5> QED
            BY <1>2, <4>2, <5>2 DEF IsSought
        <4> QED
          BY <4>1, <4>2 DEF Refreshing
      <3>3. RefreshedBy(u, s)'
        BY <1>2, <3>2 DEF RefreshedBy, Refreshing
      <3> QED
        BY <3>1, <3>3
    <2> QED
      BY <2>3, <2>4
  <1>6. FoundInv' /\ RefreshInv'
    BY <1>1, <1>4, <1>5 DEF FoundInv, RefreshInv
  <1>7. CoverInv'
    <2>1. watermark' = NoValue /\ covered' \ orphaned' # {} =>
              \E u \in Sessions : Loading(u)'
      BY <1>2 DEF SyncInv, CoverInv, Loading
    <2>2. \A s \in Slots : Watched(s)' => rows'[s] = Version(s)' \/ WillBeFound(s)'
      BY <1>1, <1>2, <1>4, <1>5 DEF SyncInv, CoverInv
    <2>3. \A s \in Slots : IsCovered(s)' => saved'[s] = Version(s)' \/ WillBeFound(s)'
      BY <1>1, <1>2, <1>4, <1>5 DEF SyncInv, CoverInv
    <2> QED
      BY <2>1, <2>2, <2>3 DEF CoverInv
  <1> QED
    BY <1>3, <1>6, <1>7 DEF SyncInv

-----------------------------------------------------------------------------
(* The steps of a session. *)

\* Only StoreRows watches more than before, and only StoreCoverage covers it.
LEMMA NothingNewWatched ==
    ASSUME NEW u \in Sessions, Others(u), pc'[u] # "cover",
           UNCHANGED <<telemetry, covered, orphaned>>
    PROVE  \A s \in Slots : Watched(s)' => Watched(s)
  BY DEF Watched, IsCovered, Others, At

\* load_range begins, and a query of a gap has its results.
LEMMA LoadRangeKeeps ==
    ASSUME SyncInv, NEW u \in Sessions, NEW window, LoadRange(u, window)
    PROVE  FoundInv' /\ CoverInv' /\ RefreshInv'
  <1>1. /\ pc[u] = "idle" /\ GoTo(u, "gaps")
        /\ Locals(u, Begun(MissingRanges(window[1], window[2])))
        /\ UNCHANGED <<telemetry, rows, saved, covered, watermark, orphaned, clock>>
    BY DEF LoadRange, cache, At, Begun
  <1>2. pc'[u] = "gaps" /\ Others(u)
    BY <1>1, StepOfOne DEF SyncInv, Others
  <1>3. \A s \in Slots : Watched(s)' => Watched(s)
    BY <1>1, <1>2, NothingNewWatched
  <1>4. CoverInv' /\ \A v \in Sessions \ {u}, s \in Slots : RefreshedBy(v, s)'
    BY <1>1, <1>2, <1>3, QuietStep DEF Loading
  <1>5. \A v \in Sessions \ {u}, s \in Slots : FoundBy(v, s)'
    BY <1>1, <1>2, OthersFound
  <1>6. \A s \in Slots : FoundBy(u, s)' /\ RefreshedBy(u, s)'
    BY <1>2 DEF FoundBy, RefreshedBy, Refreshing
  <1> QED
    BY <1>4, <1>5, <1>6 DEF FoundInv, RefreshInv

LEMMA FetchGapKeeps ==
    ASSUME SyncInv, NEW u \in Sessions, FetchGap(u)
    PROVE  FoundInv' /\ CoverInv' /\ RefreshInv'
  <1> DEFINE found == InRange(Head(load[u].missing))
  <1>1. /\ pc[u] = "gaps" /\ GoTo(u, "store")
        /\ Locals(u, [load[u] EXCEPT !.found = found])
        /\ UNCHANGED <<telemetry, rows, saved, covered, watermark, orphaned, clock>>
    BY DEF FetchGap, cache, At
  <1>2. pc'[u] = "store" /\ load'[u] = [load[u] EXCEPT !.found = found] /\ Others(u)
    BY <1>1, StepOfOne DEF SyncInv, Others
  <1>3. \A s \in Slots : found[s] = IF /\ telemetry[s] # NoValue
                                       /\ telemetry[s].observedAt \in Instants(Head(load[u].missing))
                                    THEN Version(s) ELSE 0
    BY DEF InRange
  <1> HIDE DEF found
  <1>4. /\ load'[u].now = load[u].now
        /\ load'[u].missing = load[u].missing
        /\ load'[u].found = found
    BY <1>2 DEF SyncInv, FrameInv, Framed
  <1>5. \A s \in Slots : Watched(s)' => Watched(s)
    BY <1>1, <1>2, NothingNewWatched
  <1>6. CoverInv' /\ \A v \in Sessions \ {u}, s \in Slots : RefreshedBy(v, s)'
    BY <1>1, <1>2, <1>4, <1>5, QuietStep DEF Loading
  <1>7. \A v \in Sessions \ {u}, s \in Slots : FoundBy(v, s)'
    BY <1>1, <1>2, OthersFound
  <1>8. \A s \in Slots : FoundBy(u, s)'
    BY <1>1, <1>2, <1>3, <1>4 DEF FoundBy, Version
  <1>9. \A s \in Slots : RefreshedBy(u, s)'
    BY <1>2 DEF RefreshedBy, Refreshing
  <1> QED
    BY <1>6, <1>7, <1>8, <1>9 DEF FoundInv, RefreshInv

\* A refresh that is not due, which needs an earlier one.
LEMMA SkipRefreshKeeps ==
    ASSUME SyncInv, NEW u \in Sessions, SkipRefresh(u)
    PROVE  FoundInv' /\ CoverInv' /\ RefreshInv'
  <1>1. /\ GoTo(u, "idle") /\ Locals(u, NoLoad)
        /\ watermark # NoValue
        /\ UNCHANGED <<telemetry, rows, saved, covered, watermark, orphaned, clock>>
    BY DEF SkipRefresh, Return, IsRecent, cache, SyncInv, FrameInv
  <1>2. pc'[u] = "idle" /\ Others(u)
    BY <1>1, StepOfOne DEF SyncInv, Others
  <1>3. \A s \in Slots : Watched(s)' => Watched(s)
    BY <1>1, <1>2, NothingNewWatched
  <1>4. CoverInv' /\ \A v \in Sessions \ {u}, s \in Slots : RefreshedBy(v, s)'
    BY <1>1, <1>2, <1>3, QuietStep
  <1>5. \A v \in Sessions \ {u}, s \in Slots : FoundBy(v, s)'
    BY <1>1, <1>2, OthersFound
  <1>6. \A s \in Slots : FoundBy(u, s)' /\ RefreshedBy(u, s)'
    BY <1>2 DEF FoundBy, RefreshedBy, Refreshing
  <1> QED
    BY <1>4, <1>5, <1>6 DEF FoundInv, RefreshInv

\* A refresh looks back far enough for what the rows do not have.
LEMMA StartRefreshKeeps ==
    ASSUME SyncInv, CommitDelay + LoadTime <= Overlap, NEW u \in Sessions, StartRefresh(u)
    PROVE  FoundInv' /\ CoverInv' /\ RefreshInv'
  <1> DEFINE since == Since(load[u].now)
  <1>1. /\ pc[u] = "gaps" /\ GoTo(u, "persisted")
        /\ Locals(u, [load[u] EXCEPT !.since = since])
        /\ UNCHANGED <<telemetry, rows, saved, covered, watermark, orphaned, clock>>
    BY DEF StartRefresh, RangeReady, cache, At
  <1>2. since = (IF watermark # NoValue THEN watermark ELSE load[u].now) - Overlap
    BY DEF Since
  <1> HIDE DEF since
  <1>3. /\ pc'[u] = "persisted" /\ load'[u] = [load[u] EXCEPT !.since = since]
        /\ Others(u)
    BY <1>1, StepOfOne DEF SyncInv, Others
  <1>4. load'[u].now = load[u].now /\ load'[u].since = since
    BY <1>3 DEF SyncInv, FrameInv, Framed
  <1>5. \A s \in Slots : Watched(s)' => Watched(s)
    BY <1>1, <1>3, NothingNewWatched
  <1>6. CoverInv' /\ \A v \in Sessions \ {u}, s \in Slots : RefreshedBy(v, s)'
    BY <1>1, <1>3, <1>4, <1>5, QuietStep DEF Loading
  <1>7. \A v \in Sessions \ {u}, s \in Slots : FoundBy(v, s)'
    BY <1>1, <1>3, OthersFound
  <1>8. \A s \in Slots : FoundBy(u, s)'
    BY <1>3 DEF FoundBy
  <1>9. ASSUME NEW s \in Slots, telemetry[s] # NoValue, WillBeFound(s)
        PROVE  Stamp(telemetry[s]) >= since
    <2>1. CASE watermark # NoValue
      BY <1>2, <1>9, <2>1 DEF WillBeFound
    <2>2. CASE watermark = NoValue
      <3>1. PICK v \in Sessions : Loading(v) /\ Recent(v, s)
        BY <1>9, <2>2 DEF WillBeFound
      <3>2. Stamp(telemetry[s]) >= clock - Overlap
        BY <1>9, <3>1, RecentIsLate DEF Loading, SyncInv
      <3>3. /\ load[u].now \in Int /\ clock \in Int /\ load[u].now <= clock
            /\ Stamp(telemetry[s]) \in Int
        BY <1>1, <1>9, DocumentTyped DEF SyncInv, FrameInv, Framed, ClockInv, Time
      <3> QED
        BY <1>2, <2>2, <3>2, <3>3, OverlapAssumption
    <2> QED
      BY <2>1, <2>2
  <1>10. ASSUME NEW s \in Slots
         PROVE  RefreshedBy(u, s)'
    <2>1. Watched(s) => telemetry[s] # NoValue
      BY DEF Watched, IsCovered
    <2>2. IsCovered(s)' => Watched(s)' /\ IsCovered(s)
      BY <1>1 DEF IsCovered, Watched
    <2>3. Version(s)' = Version(s)
      BY <1>1 DEF Version
    <2>4. Watched(s) /\ WillBeFound(s) => IsSought(u, s)'
      BY <1>1, <1>3, <1>4, <1>9, <2>1 DEF IsSought
    <2> QED
      BY <1>1, <1>5, <2>2, <2>3, <2>4 DEF RefreshedBy, SyncInv, CoverInv
  <1> QED
    BY <1>6, <1>7, <1>8, <1>10 DEF FoundInv, RefreshInv

\* The first query has what was persisted since, and the second will have what
\* was reconciled since.
LEMMA QueryPersistedKeeps ==
    ASSUME SyncInv, NEW u \in Sessions, QueryPersisted(u)
    PROVE  FoundInv' /\ CoverInv' /\ RefreshInv'
  <1> DEFINE found == [s \in Slots |-> IF /\ telemetry[s] # NoValue
                                          /\ telemetry[s].persistedAt >= load[u].since
                                       THEN Version(s) ELSE 0]
  <1>1. /\ pc[u] = "persisted" /\ GoTo(u, "reconciled")
        /\ Locals(u, [load[u] EXCEPT !.found = found])
        /\ UNCHANGED <<telemetry, rows, saved, covered, watermark, orphaned, clock>>
    BY DEF QueryPersisted, cache, At
  <1>2. /\ pc'[u] = "reconciled" /\ load'[u] = [load[u] EXCEPT !.found = found]
        /\ Others(u)
    BY <1>1, StepOfOne DEF SyncInv, Others
  <1>3. \A s \in Slots : found[s] = IF /\ telemetry[s] # NoValue
                                       /\ telemetry[s].persistedAt >= load[u].since
                                    THEN Version(s) ELSE 0
    OBVIOUS
  <1> HIDE DEF found
  <1>4. /\ load'[u].now = load[u].now
        /\ load'[u].since = load[u].since
        /\ load'[u].found = found
    BY <1>2 DEF SyncInv, FrameInv, Framed
  <1>5. \A s \in Slots : Watched(s)' => Watched(s)
    BY <1>1, <1>2, NothingNewWatched
  <1>6. CoverInv' /\ \A v \in Sessions \ {u}, s \in Slots : RefreshedBy(v, s)'
    BY <1>1, <1>2, <1>4, <1>5, QuietStep DEF Loading
  <1>7. \A v \in Sessions \ {u}, s \in Slots : FoundBy(v, s)'
    BY <1>1, <1>2, OthersFound
  <1>8. ASSUME NEW s \in Slots, telemetry[s] # NoValue, Stamp(telemetry[s]) >= load[u].since
        PROVE  found[s] = Version(s) \/ IsReconciled(s, u)'
    <2>1. CASE telemetry[s].persistedAt >= load[u].since
      BY <1>3, <1>8, <2>1
    <2>2. CASE ~(telemetry[s].persistedAt >= load[u].since)
      <3>1. Stamp(telemetry[s]) = telemetry[s].reconciledAt
            /\ telemetry[s].reconciledAt # NoValue
        BY <1>8, <2>2 DEF Stamp
      <3> QED
        BY <1>1, <1>4, <1>8, <3>1 DEF IsReconciled
    <2> QED
      BY <2>1, <2>2
  <1>9. load[u].since \in Int /\ load[u].since <= clock - Overlap /\ clock \in Int
    BY <1>1 DEF SyncInv, FrameInv, Framed, ClockInv, Time
  <1>10. ASSUME NEW s \in Slots
         PROVE  FoundBy(u, s)' /\ RefreshedBy(u, s)'
    <2>1. Version(s)' = Version(s) /\ Recent(u, s)' = Recent(u, s)
      BY <1>1, <1>4 DEF Version, Recent
    <2>2. Watched(s) => telemetry[s] # NoValue
      BY DEF Watched, IsCovered
    <2>3. IsCovered(s)' => Watched(s)' /\ IsCovered(s)
      BY <1>1 DEF IsCovered, Watched
    <2>4. telemetry[s] # NoValue => Stamp(telemetry[s]) \in Int
      BY DocumentTyped DEF SyncInv
    <2>5. FoundBy(u, s)'
      BY <1>1, <1>2, <1>3, <1>4, <1>8, <1>9, <2>1, <2>4, OverlapAssumption DEF FoundBy
    <2>6. telemetry[s] # NoValue /\ IsSought(u, s) => IsSought(u, s)'
      BY <1>1, <1>2, <1>4, <1>8, <2>1 DEF IsSought
    <2>7. RefreshedBy(u, s) /\ pc[u] \in Refreshing
      BY <1>1 DEF SyncInv, RefreshInv, Refreshing
    <2>8. RefreshedBy(u, s)'
      BY <1>1, <1>5, <2>1, <2>2, <2>3, <2>6, <2>7 DEF RefreshedBy
    <2> QED
      BY <2>5, <2>8
  <1> QED
    BY <1>6, <1>7, <1>10 DEF FoundInv, RefreshInv

LEMMA QueryReconciledKeeps ==
    ASSUME SyncInv, NEW u \in Sessions, QueryReconciled(u)
    PROVE  FoundInv' /\ CoverInv' /\ RefreshInv'
  <1> DEFINE found == [s \in Slots |-> IF IsReconciled(s, u) THEN Version(s)
                                      ELSE load[u].found[s]]
  <1>1. /\ pc[u] = "reconciled" /\ GoTo(u, "apply")
        /\ Locals(u, Complete(load[u], found))
        /\ UNCHANGED <<telemetry, rows, saved, covered, watermark, orphaned, clock>>
    BY DEF QueryReconciled, cache, At, Complete
  <1>2. pc'[u] = "apply" /\ load'[u] = Complete(load[u], found) /\ Others(u)
    BY <1>1, StepOfOne DEF SyncInv, Others
  <1>3. \A s \in Slots : found[s] = IF IsReconciled(s, u) THEN Version(s) ELSE load[u].found[s]
    OBVIOUS
  <1>4. found \in Rows /\ Framed(load[u])
    BY DocumentTyped, BoundsAssumption DEF Rows, SyncInv, FrameInv, Framed
  <1> HIDE DEF found
  <1>5. load'[u].now = load[u].now /\ load'[u].found = found
    BY <1>2, <1>4, CompleteFramed
  <1>6. \A s \in Slots : Watched(s)' => Watched(s)
    BY <1>1, <1>2, NothingNewWatched
  <1>7. CoverInv' /\ \A v \in Sessions \ {u}, s \in Slots : RefreshedBy(v, s)'
    BY <1>1, <1>2, <1>5, <1>6, QuietStep DEF Loading
  <1>8. \A v \in Sessions \ {u}, s \in Slots : FoundBy(v, s)'
    BY <1>1, <1>2, OthersFound
  <1>9. ASSUME NEW s \in Slots
        PROVE  FoundBy(u, s)' /\ RefreshedBy(u, s)'
    <2>1. Version(s)' = Version(s) /\ Recent(u, s)' = Recent(u, s)
      BY <1>1, <1>5 DEF Version, Recent
    <2>2. IsCovered(s)' => Watched(s)' /\ IsCovered(s)
      BY <1>1 DEF IsCovered, Watched
    <2>3. FoundBy(u, s) /\ RefreshedBy(u, s) /\ pc[u] \in Refreshing
      BY <1>1 DEF SyncInv, FoundInv, RefreshInv, Refreshing
    <2>4. FoundBy(u, s)'
      BY <1>1, <1>2, <1>3, <1>5, <2>1, <2>3 DEF FoundBy
    <2>5. IsSought(u, s) => IsSought(u, s)'
      BY <1>1, <1>2, <1>3, <1>5, <2>1 DEF IsSought
    <2>6. RefreshedBy(u, s)'
      BY <1>1, <1>6, <2>1, <2>2, <2>3, <2>5 DEF RefreshedBy
    <2> QED
      BY <2>4, <2>6
  <1> QED
    BY <1>7, <1>8, <1>9 DEF FoundInv, RefreshInv

\* An upsert of what u found leaves each row as stored, as it was, or older than
\* a change that is late enough for everyone.
LEMMA UpsertIsSound ==
    ASSUME SyncInv, CommitDelay + LoadTime <= Overlap, NEW u \in Sessions, Others(u),
           pc[u] \in {"store", "apply"}, Loading(u)', load'[u].now = load[u].now,
           Upsert(load[u].found),
           UNCHANGED <<telemetry, saved, covered, orphaned, watermark, clock>>,
           \A s \in Slots : Watched(s)' =>
               \/ Watched(s)
               \/ rows'[s] = Version(s)
               \/ telemetry[s] # NoValue /\ Recent(u, s)
    PROVE  /\ CoverInv'
           /\ \A v \in Sessions \ {u}, s \in Slots : RefreshedBy(v, s)'
  <1>1. load[u].found \in Rows
    BY DEF SyncInv, FrameInv, Framed
  <1>2. \A s \in Slots :
            rows'[s] = IF load[u].found[s] > 0 THEN load[u].found[s] ELSE rows[s]
    BY <1>1, UpsertTyped DEF SyncInv
  <1>3. \A s \in Slots : IsCovered(s)' = IsCovered(s) /\ Version(s)' = Version(s)
    BY DEF IsCovered, Version
  <1>4. ASSUME NEW s \in Slots, Watched(s)'
        PROVE  \/ rows'[s] = Version(s)
               \/ rows'[s] = rows[s] /\ Watched(s)
               \/ telemetry[s] # NoValue /\ Recent(u, s)
    <2>1. telemetry[s] # NoValue
      BY <1>4 DEF Watched, IsCovered
    <2>2. load[u].found[s] > 0 => load[u].found[s] = Version(s) \/ Recent(u, s)
      BY <2>1 DEF SyncInv, FoundInv, FoundBy
    <2> QED
      BY <1>2, <1>4, <2>1, <2>2
  <1>5. ASSUME NEW s \in Slots, telemetry[s] # NoValue, Recent(u, s)
        PROVE  /\ WillBeFound(s)'
               /\ \A v \in Sessions : pc[v] \in Refreshing => IsSought(v, s)
    <2>1. Stamp(telemetry[s]) >= clock - Overlap
      BY <1>5, RecentIsLate DEF SyncInv
    <2>2. watermark # NoValue => WillBeFound(s)
      BY <1>5, <2>1, LateIsFound
    <2>3. WillBeFound(s)'
      BY <1>5, <2>2 DEF WillBeFound, Recent
    <2> QED
      BY <1>5, <2>1, <2>3, LateIsFound
  <1>6. \A s \in Slots : WillBeFound(s) => WillBeFound(s)'
    BY DEF WillBeFound, Loading, Recent, Others
  <1>7. CoverInv'
    <2>1. watermark' = NoValue /\ covered' \ orphaned' # {} =>
              \E v \in Sessions : Loading(v)'
      OBVIOUS
    <2>2. \A s \in Slots : Watched(s)' => rows'[s] = Version(s)' \/ WillBeFound(s)'
      BY <1>3, <1>4, <1>5, <1>6 DEF SyncInv, CoverInv
    <2>3. \A s \in Slots : IsCovered(s)' => saved'[s] = Version(s)' \/ WillBeFound(s)'
      BY <1>3, <1>6 DEF SyncInv, CoverInv
    <2> QED
      BY <2>1, <2>2, <2>3 DEF CoverInv
  <1>8. ASSUME NEW v \in Sessions \ {u}, NEW s \in Slots, pc'[v] \in Refreshing
        PROVE  RefreshedBy(v, s)'
    <2>1. pc'[v] = pc[v] /\ load'[v] = load[v] /\ RefreshedBy(v, s)
      BY DEF Others, SyncInv, RefreshInv
    <2>2. IsSought(v, s) => IsSought(v, s)'
      BY <1>3, <2>1 DEF IsSought, Recent, IsReconciled
    <2> QED
      BY <1>3, <1>4, <1>5, <1>8, <2>1, <2>2 DEF RefreshedBy
  <1> QED
    BY <1>7, <1>8 DEF RefreshedBy

\* store_range: the rows of a gap, and its coverage.
LEMMA StoreRowsKeeps ==
    ASSUME SyncInv, CommitDelay + LoadTime <= Overlap, NEW u \in Sessions, StoreRows(u)
    PROVE  FoundInv' /\ CoverInv' /\ RefreshInv'
  <1>1. /\ pc[u] = "store" /\ GoTo(u, "cover") /\ load' = load
        /\ Upsert(load[u].found)
        /\ UNCHANGED <<telemetry, saved, covered, watermark, orphaned, clock>>
    BY DEF StoreRows, At
  <1>2. Locals(u, load[u])
    BY <1>1 DEF Locals, SyncInv, FrameInv
  <1>3. pc'[u] = "cover" /\ Others(u)
    BY <1>1, <1>2, StepOfOne DEF SyncInv, Others
  <1>4. \A s \in Slots :
            rows'[s] = IF load[u].found[s] > 0 THEN load[u].found[s] ELSE rows[s]
    BY <1>1, UpsertTyped DEF SyncInv, FrameInv, Framed
  <1>5. ASSUME NEW s \in Slots, Watched(s)'
        PROVE  \/ Watched(s)
               \/ rows'[s] = Version(s)
               \/ telemetry[s] # NoValue /\ Recent(u, s)
    <2>1. \/ Watched(s)
          \/ /\ telemetry[s] # NoValue
             /\ telemetry[s].observedAt \in Instants(Head(load[u].missing))
      BY <1>1, <1>3, <1>5 DEF Watched, IsCovered, Others, At
    <2>2. CASE ~Watched(s)
      <3>1. FoundBy(u, s) /\ (telemetry[s] # NoValue => Version(s) > 0)
        BY DocumentTyped DEF SyncInv, FoundInv
      <3> QED
        BY <1>1, <1>4, <2>1, <2>2, <3>1 DEF FoundBy
    <2> QED
      BY <2>2
  <1>6. CoverInv' /\ \A v \in Sessions \ {u}, s \in Slots : RefreshedBy(v, s)'
    BY <1>1, <1>3, <1>5, UpsertIsSound DEF Loading
  <1>7. \A v \in Sessions \ {u}, s \in Slots : FoundBy(v, s)'
    BY <1>1, <1>3, OthersFound
  <1>8. \A s \in Slots : FoundBy(u, s)' /\ RefreshedBy(u, s)'
    BY <1>3 DEF FoundBy, RefreshedBy, Refreshing
  <1> QED
    BY <1>6, <1>7, <1>8 DEF FoundInv, RefreshInv

LEMMA StoreCoverageKeeps ==
    ASSUME SyncInv, NEW u \in Sessions, StoreCoverage(u)
    PROVE  FoundInv' /\ CoverInv' /\ RefreshInv'
  <1>1. /\ pc[u] = "cover" /\ GoTo(u, "gaps") /\ Locals(u, NextGap(load[u]))
        /\ covered' = covered \union {Head(load[u].missing)}
        /\ saved' = rows
        /\ UNCHANGED <<telemetry, rows, watermark, orphaned, clock>>
    BY DEF StoreCoverage, At, Commit, NextGap
  <1>2. pc'[u] = "gaps" /\ load'[u] = NextGap(load[u]) /\ Others(u)
    BY <1>1, StepOfOne DEF SyncInv, Others
  <1>3. load'[u].now = load[u].now
    BY <1>2, NextGapFramed DEF SyncInv, FrameInv
  <1>4. ASSUME NEW s \in Slots, Watched(s)'
        PROVE  Watched(s)
    <2>1. CASE \E v \in Sessions : /\ At(v, "cover")'
                                   /\ telemetry'[s] # NoValue
                                   /\ telemetry'[s].observedAt \in Instants(Head(load'[v].missing))
      BY <1>1, <1>2, <2>1 DEF Watched, At, Others
    <2>2. CASE IsCovered(s)'
      BY <1>1, <2>2 DEF IsCovered, Coverage, Watched, At
    <2> QED
      BY <1>4, <2>1, <2>2 DEF Watched
  <1>5. CoverInv' /\ \A v \in Sessions \ {u}, s \in Slots : RefreshedBy(v, s)'
    BY <1>1, <1>2, <1>3, <1>4, QuietStep DEF Loading
  <1>6. \A v \in Sessions \ {u}, s \in Slots : FoundBy(v, s)'
    BY <1>1, <1>2, OthersFound
  <1>7. \A s \in Slots : FoundBy(u, s)' /\ RefreshedBy(u, s)'
    BY <1>2 DEF FoundBy, RefreshedBy, Refreshing
  <1> QED
    BY <1>5, <1>6, <1>7 DEF FoundInv, RefreshInv

\* What is covered after a reset, without its rows, is left out by IsCovered.
LEMMA OrphanCoverageKeeps ==
    ASSUME SyncInv, NEW u \in Sessions, OrphanCoverage(u)
    PROVE  FoundInv' /\ CoverInv' /\ RefreshInv'
  <1>1. /\ pc[u] = "orphanCover" /\ GoTo(u, "idle") /\ Locals(u, NoLoad)
        /\ covered' = covered \union {Head(load[u].missing)}
        /\ orphaned' = orphaned \union {Head(load[u].missing)}
        /\ saved' = rows
        /\ UNCHANGED <<telemetry, rows, watermark, clock>>
    BY DEF OrphanCoverage, At, Commit, Return
  <1>2. pc'[u] = "idle" /\ Others(u)
    BY <1>1, StepOfOne DEF SyncInv, Others
  <1>3. covered' \ orphaned' \subseteq covered \ orphaned
    BY <1>1
  <1>4. \A s \in Slots : Watched(s)' => Watched(s)
    BY <1>1, <1>2, <1>3 DEF Watched, IsCovered, Coverage, At, Others
  <1>5. CoverInv' /\ \A v \in Sessions \ {u}, s \in Slots : RefreshedBy(v, s)'
    BY <1>1, <1>2, <1>3, <1>4, QuietStep DEF Loading
  <1>6. \A v \in Sessions \ {u}, s \in Slots : FoundBy(v, s)'
    BY <1>1, <1>2, OthersFound
  <1>7. \A s \in Slots : FoundBy(u, s)' /\ RefreshedBy(u, s)'
    BY <1>2 DEF FoundBy, RefreshedBy, Refreshing
  <1> QED
    BY <1>5, <1>6, <1>7 DEF FoundInv, RefreshInv

\* apply_incremental_sync: once the rows are upserted, what a new watermark hides
\* of them is up to date.
LEMMA SyncRowsKeeps ==
    ASSUME SyncInv, CommitDelay + LoadTime <= Overlap, NEW u \in Sessions, SyncRows(u)
    PROVE  /\ FoundInv' /\ CoverInv' /\ RefreshInv'
           /\ \A s \in Slots : IsCovered(s) => rows'[s] = Version(s) \/ Recent(u, s)
  <1>1. /\ pc[u] = "apply" /\ GoTo(u, "stamp")
        /\ Locals(u, [load[u] EXCEPT !.found = NoRows])
        /\ Upsert(load[u].found)
        /\ UNCHANGED <<telemetry, saved, covered, watermark, orphaned, clock>>
    BY DEF SyncRows, At
  <1>2. /\ pc'[u] = "stamp" /\ load'[u] = [load[u] EXCEPT !.found = NoRows]
        /\ Others(u)
    BY <1>1, StepOfOne DEF SyncInv, Others
  <1>3. load'[u].now = load[u].now
    BY <1>2 DEF SyncInv, FrameInv, Framed
  <1>4. \A s \in Slots :
            rows'[s] = IF load[u].found[s] > 0 THEN load[u].found[s] ELSE rows[s]
    BY <1>1, UpsertTyped DEF SyncInv, FrameInv, Framed
  <1>5. \A s \in Slots : Watched(s)' => Watched(s)
    BY <1>1, <1>2, NothingNewWatched
  <1>6. CoverInv' /\ \A v \in Sessions \ {u}, s \in Slots : RefreshedBy(v, s)'
    BY <1>1, <1>2, <1>3, <1>5, UpsertIsSound DEF Loading
  <1>7. \A v \in Sessions \ {u}, s \in Slots : FoundBy(v, s)'
    BY <1>1, <1>2, OthersFound
  <1>8. ASSUME NEW s \in Slots, Watched(s)
        PROVE  rows'[s] = Version(s) \/ Recent(u, s)
    <2>1. telemetry[s] # NoValue
      BY <1>8 DEF Watched, IsCovered
    <2>2. FoundBy(u, s) /\ RefreshedBy(u, s) /\ Version(s) > 0 /\ pc[u] \in Refreshing
      BY <1>1, <2>1, DocumentTyped DEF SyncInv, FoundInv, RefreshInv, Refreshing
    <2>3. rows[s] = Version(s) \/ Recent(u, s) \/ load[u].found[s] = Version(s)
      BY <1>1, <1>8, <2>2 DEF RefreshedBy, IsSought
    <2>4. load[u].found[s] > 0 => load[u].found[s] = Version(s) \/ Recent(u, s)
      BY <1>1, <2>1, <2>2 DEF FoundBy
    <2> QED
      BY <1>4, <2>2, <2>3, <2>4
  <1>9. ASSUME NEW s \in Slots
        PROVE  FoundBy(u, s)' /\ RefreshedBy(u, s)'
    <2>1. FoundBy(u, s)'
      BY <1>2 DEF FoundBy
    <2>2. ASSUME Watched(s)'
          PROVE  rows'[s] = Version(s)' \/ IsSought(u, s)'
      <3>1. telemetry[s] # NoValue /\ Stamp(telemetry[s]) \in Int /\ load[u].now \in Int
        BY <1>5, <2>2, DocumentTyped DEF Watched, IsCovered, SyncInv, FrameInv, Framed, Time
      <3>2. Recent(u, s) => Stamp(telemetry[s]) >= load[u].now - Overlap
        BY <3>1, DelayAssumption, LoadAssumption, OverlapAssumption DEF Recent
      <3>3. Version(s)' = Version(s)
        BY <1>1 DEF Version
      <3> QED
        BY <1>1, <1>2, <1>3, <1>5, <1>8, <2>2, <3>2, <3>3 DEF IsSought
    <2>3. RefreshedBy(u, s)'
      BY <1>2, <2>2 DEF RefreshedBy
    <2> QED
      BY <2>1, <2>3
  <1>10. \A s \in Slots : IsCovered(s) => rows'[s] = Version(s) \/ Recent(u, s)
    BY <1>8 DEF Watched
  <1> QED
    BY <1>6, <1>7, <1>9, <1>10 DEF FoundInv, RefreshInv

\* The new watermark hides of the rows only what its refresh has found.
LEMMA SyncStateKeeps ==
    ASSUME SyncInv, NEW u \in Sessions, SyncState(u)
    PROVE  FoundInv' /\ CoverInv' /\ RefreshInv'
  <1>1. /\ pc[u] \in {"stamp", "orphanStamp"} /\ GoTo(u, "idle") /\ Locals(u, NoLoad)
        /\ watermark' = load[u].now
        /\ saved' = rows
        /\ UNCHANGED <<telemetry, rows, covered, orphaned, clock>>
    BY DEF SyncState, At, Commit, Return, NewWatermark
  <1>2. pc'[u] = "idle" /\ Others(u)
    BY <1>1, StepOfOne DEF SyncInv, Others
  <1>3. \A s \in Slots : Watched(s)' => Watched(s)
    BY <1>1, <1>2, NothingNewWatched
  <1>4. watermark' # NoValue
    BY <1>1, NoValueAssumption DEF SyncInv, FrameInv, Framed, Time
  <1>5. ASSUME NEW s \in Slots, Watched(s)'
        PROVE  rows'[s] = Version(s)' \/ WillBeFound(s)'
    <2>1. RefreshedBy(u, s) /\ pc[u] \in Refreshing
      BY <1>1 DEF SyncInv, RefreshInv, Refreshing
    <2>2. rows[s] = Version(s) \/ Stamp(telemetry[s]) >= load[u].now - Overlap
      BY <1>1, <1>3, <1>5, <2>1 DEF RefreshedBy, IsSought
    <2> QED
      BY <1>1, <1>4, <2>2 DEF WillBeFound, Version
  <1>6. CoverInv'
    <2>1. \A s \in Slots : IsCovered(s)' => Watched(s)'
      BY DEF Watched
    <2> QED
      BY <1>1, <1>4, <1>5, <2>1 DEF CoverInv
  <1>7. \A v \in Sessions \ {u}, s \in Slots : RefreshedBy(v, s)'
    BY <1>1, <1>2, <1>3, OthersRefreshed
  <1>8. \A v \in Sessions \ {u}, s \in Slots : FoundBy(v, s)'
    BY <1>1, <1>2, OthersFound
  <1>9. \A s \in Slots : FoundBy(u, s)' /\ RefreshedBy(u, s)'
    BY <1>2 DEF FoundBy, RefreshedBy, Refreshing
  <1> QED
    BY <1>6, <1>7, <1>8, <1>9 DEF FoundInv, RefreshInv

\* A rollback returns to rows that are as good, as nobody else is in a transaction.
LEMMA FailKeeps ==
    ASSUME SyncInv, MayFailFirst = FALSE, MayUndo = FALSE, NEW u \in Sessions, Fail(u)
    PROVE  FoundInv' /\ CoverInv' /\ RefreshInv'
  <1>1. /\ pc[u] # "idle" /\ GoTo(u, "idle") /\ Locals(u, NoLoad)
        /\ watermark # NoValue
        /\ InTransaction(u) => ~OthersInTransaction(u)
        /\ rows' = (IF InTransaction(u) THEN saved ELSE rows)
        /\ saved' = rows'
        /\ UNCHANGED <<telemetry, covered, watermark, orphaned, clock>>
    BY DEF Fail, Return
  <1>2. pc'[u] = "idle" /\ Others(u)
    BY <1>1, StepOfOne DEF SyncInv, Others
  <1>3. \A s \in Slots : Watched(s)' => Watched(s)
    BY <1>1, <1>2, NothingNewWatched
  <1>4. \A v \in Sessions \ {u}, s \in Slots : FoundBy(v, s)'
    BY <1>1, <1>2, OthersFound
  <1>5. \A s \in Slots : FoundBy(u, s)' /\ RefreshedBy(u, s)'
    BY <1>2 DEF FoundBy, RefreshedBy, Refreshing
  <1>6. CASE ~InTransaction(u)
    <2>1. CoverInv' /\ \A v \in Sessions \ {u}, s \in Slots : RefreshedBy(v, s)'
      BY <1>1, <1>2, <1>3, <1>6, QuietStep
    <2> QED
      BY <1>4, <1>5, <2>1 DEF FoundInv, RefreshInv
  <1>7. CASE InTransaction(u)
    <2>1. \A v \in Sessions \ {u} : pc[v] \notin {"cover", "stamp"}
      BY <1>1, <1>7 DEF OthersInTransaction, InTransaction
    <2>2. rows' = saved /\ saved' = saved
      BY <1>1, <1>7
    <2>3. \A s \in Slots : (Watched(s)' \/ IsCovered(s)') => IsCovered(s)
      BY <1>1, <1>2, <2>1 DEF Watched, IsCovered, At, Others
    <2>4. \A s \in Slots : /\ WillBeFound(s) => WillBeFound(s)'
                           /\ Version(s)' = Version(s)
      BY <1>1 DEF WillBeFound, Version
    <2>5. CoverInv'
      BY <1>1, <2>2, <2>3, <2>4 DEF CoverInv, SyncInv
    <2>6. ASSUME NEW v \in Sessions \ {u}, NEW s \in Slots, pc'[v] \in Refreshing
          PROVE  RefreshedBy(v, s)'
      <3>1. pc'[v] = pc[v] /\ load'[v] = load[v] /\ RefreshedBy(v, s)
        BY <1>2 DEF Others, SyncInv, RefreshInv
      <3>2. IsSought(v, s) => IsSought(v, s)'
        BY <1>1, <2>4, <3>1 DEF IsSought, Recent, IsReconciled
      <3> QED
        BY <2>1, <2>2, <2>3, <2>4, <2>6, <3>1, <3>2 DEF RefreshedBy
    <2> QED
      BY <1>4, <1>5, <2>5, <2>6 DEF FoundInv, RefreshInv, RefreshedBy
  <1> QED
    BY <1>6, <1>7

-----------------------------------------------------------------------------
(* Resets, the process, the clock. *)

\* A new file covers nothing.
LEMMA ResetKeeps ==
    ASSUME SyncInv, Emptied, UNCHANGED <<telemetry, load, clock>>,
           pc' \in [Sessions -> PC],
           \A u \in Sessions :
               \/ pc'[u] = pc[u] /\ pc[u] # "cover"
               \/ pc[u] = "cover" /\ pc'[u] = "orphanCover"
               \/ pc[u] = "stamp" /\ pc'[u] = "orphanStamp"
    PROVE  SyncInv'
  <1>1. /\ rows' = NoRows /\ saved' = NoRows /\ covered' = {} /\ orphaned' = {}
        /\ watermark' = NoValue /\ lastSuccess' = NoValue
    BY DEF Emptied
  <1>2. NoRows \in Rows
    BY BoundsAssumption DEF NoRows, Rows
  <1>3. FrameInv' /\ ClockInv'
    BY <1>1, <1>2 DEF SyncInv, FrameInv, Framed, ClockInv, Optional
  <1>4. \A s \in Slots : ~IsCovered(s)' /\ ~Watched(s)'
    BY <1>1 DEF IsCovered, Watched, Coverage, At
  <1>5. CoverInv' /\ RefreshInv'
    BY <1>1, <1>4 DEF CoverInv, RefreshInv, RefreshedBy
  <1>6. FoundInv'
    BY DEF SyncInv, FoundInv, FoundBy, Version, Recent, IsReconciled
  <1> QED
    BY <1>3, <1>5, <1>6 DEF SyncInv

LEMMA ClearCacheKeeps ==
    ASSUME SyncInv, NEW u \in Sessions, ClearCache(u)
    PROVE  SyncInv'
  <1>1. /\ Emptied /\ UNCHANGED <<telemetry, load, clock>>
        /\ pc' = [v \in Sessions |-> CASE pc[v] = "cover" -> "orphanCover"
                                       [] pc[v] = "stamp" -> "orphanStamp"
                                       [] OTHER -> pc[v]]
    BY DEF ClearCache
  <1>2. pc \in [Sessions -> PC]
    BY DEF SyncInv, FrameInv
  <1>3. pc' \in [Sessions -> PC]
    BY <1>1, <1>2 DEF PC
  <1> QED
    BY <1>1, <1>2, <1>3, ResetKeeps

LEMMA OpenRecoveringKeeps ==
    ASSUME SyncInv, OpenRecovering
    PROVE  SyncInv'
  <1>1. pc' = pc /\ \A u \in Sessions : pc[u] = "idle"
    BY DEF OpenRecovering, At
  <1> QED
    BY <1>1, ResetKeeps DEF OpenRecovering, SyncInv, FrameInv

\* What SQLite had committed is as good as what the connection saw.
LEMMA CrashKeeps ==
    ASSUME SyncInv, MayFailFirst = FALSE, Crash
    PROVE  SyncInv'
  <1>1. /\ watermark # NoValue
        /\ pc' = [u \in Sessions |-> "idle"]
        /\ load' = [u \in Sessions |-> NoLoad]
        /\ rows' = saved
        /\ UNCHANGED <<telemetry, saved, covered, watermark, lastSuccess, orphaned, clock>>
    BY DEF Crash
  <1>2. FrameInv' /\ ClockInv'
    BY <1>1, NoLoadFramed DEF SyncInv, FrameInv, Framed, ClockInv, PC
  <1>3. \A s \in Slots : /\ Watched(s)' => IsCovered(s)
                         /\ IsCovered(s)' => IsCovered(s)
                         /\ WillBeFound(s) => WillBeFound(s)'
                         /\ Version(s)' = Version(s)
    BY <1>1 DEF Watched, IsCovered, At, WillBeFound, Version
  <1>4. ASSUME NEW s \in Slots, Watched(s)' \/ IsCovered(s)'
        PROVE  saved[s] = Version(s)' \/ WillBeFound(s)'
    <2>1. saved[s] = Version(s) \/ WillBeFound(s)
      BY <1>3, <1>4 DEF CoverInv, SyncInv
    <2> QED
      BY <1>3, <2>1
  <1>5. CoverInv'
    BY <1>1, <1>4 DEF CoverInv
  <1>6. FoundInv' /\ RefreshInv'
    BY <1>1 DEF FoundInv, FoundBy, RefreshInv, RefreshedBy, Refreshing
  <1> QED
    BY <1>2, <1>5, <1>6 DEF SyncInv

\* Time passes, or nothing happens.
LEMMA TimeKeeps ==
    ASSUME SyncInv, Tick \/ UNCHANGED vars
    PROVE  SyncInv'
  <1>1. /\ \/ clock' = clock
           \/ /\ clock < MaxTime /\ clock' = clock + 1
              /\ \A u \in Sessions : pc[u] # "idle" => clock < load[u].now + LoadTime
        /\ UNCHANGED <<telemetry, rows, saved, covered, watermark, lastSuccess, orphaned,
                      pc, load>>
    BY DEF Tick, vars, cache
  <1>2. clock \in Int /\ \A u \in Sessions : load[u].now \in Int /\ load[u].since \in Int
    BY DEF SyncInv, FrameInv, Framed, Time
  <1>3. FrameInv'
    BY <1>1, BoundsAssumption DEF SyncInv, FrameInv, Framed, Time
  <1>4. ClockInv'
    BY <1>1, <1>2, LoadAssumption, OverlapAssumption
       DEF SyncInv, FrameInv, ClockInv, Optional, Time
  <1>5. \A s \in Slots : /\ Watched(s)' = Watched(s)
                         /\ IsCovered(s)' = IsCovered(s)
                         /\ WillBeFound(s)' = WillBeFound(s)
                         /\ Version(s)' = Version(s)
    BY <1>1 DEF Watched, IsCovered, At, WillBeFound, Version, Loading, Recent
  <1>6. CoverInv'
    BY <1>1, <1>5 DEF CoverInv, SyncInv, Loading
  <1>7. ASSUME NEW u \in Sessions, NEW s \in Slots
        PROVE  FoundBy(u, s)' /\ RefreshedBy(u, s)'
    <2>1. FoundBy(u, s) /\ RefreshedBy(u, s)
      BY DEF SyncInv, FoundInv, RefreshInv
    <2>2. /\ IsReconciled(s, u)' = IsReconciled(s, u)
          /\ Recent(u, s)' = Recent(u, s)
      BY <1>1 DEF IsReconciled, Recent
    <2>3. IsSought(u, s)' = IsSought(u, s)
      BY <1>1, <1>5, <2>2 DEF IsSought
    <2>4. telemetry[s] # NoValue /\ Stamp(telemetry[s]) >= clock' - Overlap =>
              Stamp(telemetry[s]) >= clock - Overlap
      BY <1>1, <1>2, DocumentTyped, OverlapAssumption DEF SyncInv
    <2>5. FoundBy(u, s)'
      BY <1>1, <1>5, <2>1, <2>2, <2>4 DEF FoundBy
    <2>6. RefreshedBy(u, s)'
      BY <1>1, <1>5, <2>1, <2>3 DEF RefreshedBy
    <2> QED
      BY <2>5, <2>6
  <1> QED
    BY <1>3, <1>4, <1>6, <1>7 DEF SyncInv, FoundInv, RefreshInv

-----------------------------------------------------------------------------
(* The theorems. *)

\* Changes are committed, and loads end, within the overlap; no load fails before
\* the first watermark, and none while another session is in a transaction.
MissesNothing ==
    /\ MayFailFirst = FALSE
    /\ MayUndo = FALSE
    /\ CommitDelay + LoadTime <= Overlap

LEMMA SessionKeeps ==
    ASSUME SyncInv, MissesNothing, NEW u \in Sessions, SessionStep(u)
    PROVE  SyncInv'
  <1>1. FrameInv' /\ ClockInv'
    BY SessionFrames DEF SyncInv
  <1>2. FoundInv' /\ CoverInv' /\ RefreshInv'
    BY LoadRangeKeeps, FetchGapKeeps, StoreRowsKeeps, StoreCoverageKeeps, OrphanCoverageKeeps,
       SkipRefreshKeeps, StartRefreshKeeps, QueryPersistedKeeps, QueryReconciledKeeps,
       SyncRowsKeeps, SyncStateKeeps, FailKeeps DEF SessionStep, MissesNothing
  <1> QED
    BY <1>1, <1>2 DEF SyncInv

LEMMA SyncStep == MissesNothing /\ SyncInv /\ [Next]_vars => SyncInv'
  <1> SUFFICES ASSUME MissesNothing, SyncInv, [Next]_vars
               PROVE  SyncInv'
    OBVIOUS
  <1>1. CASE CollectorStep
    BY <1>1, CollectorKeeps DEF MissesNothing
  <1>2. CASE \E u \in Sessions : SessionStep(u) \/ ClearCache(u)
    BY <1>2, SessionKeeps, ClearCacheKeeps
  <1>3. CASE Crash
    BY <1>3, CrashKeeps DEF MissesNothing
  <1>4. CASE OpenRecovering
    BY <1>4, OpenRecoveringKeeps
  <1>5. CASE Tick \/ UNCHANGED vars
    BY <1>5, TimeKeeps
  <1> QED
    BY <1>1, <1>2, <1>3, <1>4, <1>5, Steps

\* The invariant of the proof holds of every behaviour of the sessions, the
\* collector and the clock.
LEMMA AlwaysSync ==
    ASSUME MissesNothing
    PROVE  Spec => []SyncInv
  <1>1. SyncInv /\ [Next]_vars => SyncInv'
    BY SyncStep
  <1> QED
    BY <1>1, SyncInit, PTL DEF Spec

\* Once there is a watermark, a document of a covered range is cached as it is
\* stored, or the next refresh will find it (service.py:60-97).
THEOREM CoverageHidesNothing == MissesNothing => (Spec => []NothingIsMissed)
  <1> SUFFICES ASSUME MissesNothing
               PROVE  Spec => []NothingIsMissed
    OBVIOUS
  <1>1. SyncInv => NothingIsMissed
    BY DEF SyncInv, CoverInv, WillBeFound, NothingIsMissed, Watched
  <1> QED
    BY <1>1, AlwaysSync, PTL

\* A refresh that has its results leaves no covered document stale that was
\* committed before it started (service.py:65-97).
THEOREM RefreshesCatchUp == MissesNothing => (Spec => RefreshCatchesUp)
  <1> SUFFICES ASSUME MissesNothing
               PROVE  Spec => RefreshCatchesUp
    OBVIOUS
  <1> DEFINE CatchesUp(u) ==
          SyncRows(u) =>
              \A s \in Slots :
                  IsCovered(s) /\ Stamp(telemetry[s]) + CommitDelay < load[u].now =>
                      rows'[s] = Version(s)
  <1>1. ASSUME SyncInv, NEW u \in Sessions
        PROVE  CatchesUp(u)
    <2> SUFFICES ASSUME SyncRows(u), NEW s \in Slots, IsCovered(s),
                        Stamp(telemetry[s]) + CommitDelay < load[u].now
                 PROVE  rows'[s] = Version(s)
      OBVIOUS
    <2>1. rows'[s] = Version(s) \/ Recent(u, s)
      BY <1>1, SyncRowsKeeps DEF MissesNothing
    <2>2. Stamp(telemetry[s]) \in Int /\ load[u].now \in Int
      BY <1>1, DocumentTyped DEF IsCovered, SyncInv, FrameInv, Framed, Time
    <2> QED
      BY <2>1, <2>2, DelayAssumption DEF Recent
  <1>2. SyncInv => [\A u \in Sessions : CatchesUp(u)]_vars
    BY <1>1
  <1> QED
    BY <1>2, AlwaysSync, PTL DEF RefreshCatchesUp

-----------------------------------------------------------------------------
(* missing_ranges: the loop over the rows of covered_ranges. *)

\* Induction, as a property of a set of numbers.
LEMMA Induction ==
    ASSUME NEW X, 0 \in X, \A n \in Nat : n \in X => n + 1 \in X
    PROVE  Nat \subseteq X
  <1> DEFINE T == Nat \ X
  <1> SUFFICES ASSUME T # {}
               PROVE  FALSE
    OBVIOUS
  <1>1. PICK m \in T : \A y \in T : ~ (<<y, m>> \in OpToRel(<, Nat))
    BY NatLessThanWellFounded, WFMin
  <1>2. m \in Nat /\ m \notin X /\ \A y \in Nat : y \notin X => ~ (y < m)
    BY <1>1 DEF OpToRel
  <1>3. m - 1 \in Nat /\ m - 1 < m /\ (m - 1) + 1 = m
    BY <1>2
  <1> HIDE DEF T
  <1> QED
    BY <1>2, <1>3

\* There is an earliest row, as there is a least number.
LEMMA EarliestExists ==
    ASSUME NEW ranges, ranges \subseteq Ranges, ranges # {}
    PROVE  /\ Earliest(ranges) \in ranges
           /\ \A r \in ranges : Earliest(ranges)[1] <= r[1]
  <1> DEFINE T == {r[1] : r \in ranges}
  <1>1. \A r \in ranges : r[1] \in Nat
    BY DEF Ranges, Time
  <1>2. T \subseteq Nat /\ T # {}
    BY <1>1
  <1>3. PICK x \in T : \A y \in T : ~ (<<y, x>> \in OpToRel(<, Nat))
    BY <1>2, NatLessThanWellFounded, WFMin
  <1>4. \A y \in T : x <= y
    <2>1. \A y \in T : ~ (y < x)
      BY <1>2, <1>3 DEF OpToRel
    <2>2. x \in Nat /\ \A y \in T : y \in Nat
      BY <1>2
    <2> HIDE DEF T
    <2> QED
      BY <2>1, <2>2
  <1>5. \E range \in ranges : \A r \in ranges : range[1] <= r[1]
    BY <1>4
  <1> QED
    BY <1>5 DEF Earliest

\* The row that is next, and the gap before it.
LEMMA NextRow ==
    ASSUME covered \subseteq Ranges, NEW since \in Time, NEW until \in Time,
           NEW c \in Time, Later(c, since, until) # {}
    PROVE  LET row == Earliest(Later(c, since, until))
           IN  /\ row \in covered
               /\ row[1] \in Time /\ row[2] \in Time
               /\ row[1] < row[2] /\ row[1] < until /\ c < row[2]
               /\ \A r \in Later(c, since, until) : row[1] <= r[1]
  <1> DEFINE row == Earliest(Later(c, since, until))
  <1>1. row \in Later(c, since, until) /\ \A r \in Later(c, since, until) : row[1] <= r[1]
    BY EarliestExists DEF Later
  <1> HIDE DEF row
  <1>2. row \in covered /\ row[2] > c /\ row[1] < until /\ row \in Ranges
    BY <1>1 DEF Later, Touches
  <1>3. row[1] \in Time /\ row[2] \in Time /\ row[1] < row[2]
    BY <1>2 DEF Ranges
  <1> QED
    BY <1>1, <1>2, <1>3 DEF row, Time

\* A gap is a range, or nothing.
LEMMA GapTyped ==
    ASSUME NEW from \in Time, NEW to \in Time
    PROVE  Gap(from, to) \in Seq(Ranges)
  <1>1. CASE from < to
    <2>1. <<from, to>> \in Ranges
      BY <1>1 DEF Ranges
    <2> QED
      BY <1>1, <2>1 DEF Gap
  <1>2. CASE ~(from < to)
    BY <1>2 DEF Gap
  <1> QED
    BY <1>1, <1>2

\* What the loop returns from the cursor on, when g is what it returns later.
GapsOnward(c, since, until, g) ==
    LET later == Later(c, since, until)
    IN  IF c >= until \/ later = {} THEN Gap(c, until)
        ELSE Gap(c, Earliest(later)[1]) \o g[Earliest(later)[2]]

\* Whose gaps are ranges when those behind the next row are.
LEMMA OnwardTyped ==
    ASSUME covered \subseteq Ranges, NEW since \in Time, NEW until \in Time,
           NEW c \in Time, NEW g \in [Time -> Seq(Ranges)]
    PROVE  GapsOnward(c, since, until, g) \in Seq(Ranges)
  <1>1. CASE c >= until \/ Later(c, since, until) = {}
    BY <1>1, GapTyped DEF GapsOnward
  <1>2. CASE ~(c >= until \/ Later(c, since, until) = {})
    <2> DEFINE row == Earliest(Later(c, since, until))
    <2>1. row[1] \in Time /\ row[2] \in Time
      BY <1>2, NextRow
    <2>2. GapsOnward(c, since, until, g) = Gap(c, row[1]) \o g[row[2]]
      BY <1>2 DEF GapsOnward
    <2> HIDE DEF row
    <2>3. Gap(c, row[1]) \in Seq(Ranges) /\ g[row[2]] \in Seq(Ranges)
      BY <2>1, GapTyped
    <2> QED
      BY <2>2, <2>3
  <1> QED
    BY <1>1, <1>2

\* The loop ends: the cursor only moves on, so that its recursion is well founded.
LEMMA LoopIsDefined ==
    ASSUME covered \subseteq Ranges, NEW since \in Time, NEW until \in Time
    PROVE  \E g :
              /\ \A c \in Time : g[c] = GapsOnward(c, since, until, g)
              /\ MissingRanges(since, until) = g[since]
  <1> DEFINE Defined(n) ==
               \E g \in [Time -> Seq(Ranges)] :
                  \A c \in Time : MaxTime - c <= n => g[c] = GapsOnward(c, since, until, g)
             X == {n \in Nat : Defined(n)}
  <1>0. MaxTime \in Nat
    BY BoundsAssumption
  <1>1. 0 \in X
    <2> DEFINE g == [c \in Time |-> <<>>]
    <2>1. g \in [Time -> Seq(Ranges)]
      OBVIOUS
    <2>2. ASSUME NEW c \in Time, MaxTime - c <= 0
          PROVE  g[c] = GapsOnward(c, since, until, g)
      <3>1. c >= until /\ ~(c < until)
        BY <1>0, <2>2 DEF Time
      <3> QED
        BY <3>1 DEF GapsOnward, Gap
    <2> HIDE DEF g
    <2> QED
      BY <2>1, <2>2
  <1>2. ASSUME NEW n \in Nat, n \in X
        PROVE  n + 1 \in X
    <2>1. PICK g \in [Time -> Seq(Ranges)] :
             \A c \in Time : MaxTime - c <= n => g[c] = GapsOnward(c, since, until, g)
      BY <1>2
    <2> DEFINE h == [c \in Time |-> GapsOnward(c, since, until, g)]
    <2>2. h \in [Time -> Seq(Ranges)]
      BY OnwardTyped
    <2>3. ASSUME NEW c \in Time, MaxTime - c <= n + 1
          PROVE  h[c] = GapsOnward(c, since, until, h)
      <3>1. CASE c >= until \/ Later(c, since, until) = {}
        BY <3>1 DEF GapsOnward
      <3>2. CASE ~(c >= until \/ Later(c, since, until) = {})
        <4> DEFINE e == Earliest(Later(c, since, until))[2]
        <4>1. e \in Time /\ c < e
          BY <3>2, NextRow
        <4> HIDE DEF e
        <4>2. MaxTime - e <= n
          BY <1>0, <2>3, <4>1 DEF Time
        <4>3. h[e] = g[e]
          BY <2>1, <4>1, <4>2
        <4> QED
          BY <4>3 DEF GapsOnward, e
      <3> QED
        BY <3>1, <3>2
    <2> HIDE DEF h
    <2>4. Defined(n + 1)
      BY <2>2, <2>3
    <2> HIDE DEF Defined
    <2> QED
      BY <2>4
  <1>3. MaxTime \in X
    <2> HIDE DEF X
    <2> QED
      BY <1>0, <1>1, <1>2, Induction
  <1>4. PICK g \in [Time -> Seq(Ranges)] :
           \A c \in Time : MaxTime - c <= MaxTime => g[c] = GapsOnward(c, since, until, g)
    BY <1>3
  <1>5. g = [c \in Time |-> GapsOnward(c, since, until, g)]
    <2>1. \A c \in Time : MaxTime - c <= MaxTime
      BY <1>0 DEF Time
    <2> QED
      BY <1>4, <2>1
  <1> DEFINE f == CHOOSE f : f = [c \in Time |-> GapsOnward(c, since, until, f)]
  <1>6. f = [c \in Time |-> GapsOnward(c, since, until, f)]
    BY <1>5
  <1>7. MissingRanges(since, until) = f[since]
    BY DEF MissingRanges, GapsOnward
  <1> HIDE DEF f
  <1>8. \A c \in Time : f[c] = GapsOnward(c, since, until, f)
    BY <1>6
  <1> QED
    BY <1>7, <1>8

-----------------------------------------------------------------------------

\* The instants from the cursor on that no row holds, in ranges as long as they
\* can be, in order.
Exact(gaps, from, until) ==
    /\ gaps \in Seq(Ranges)
    /\ Coverage({gaps[i] : i \in 1..Len(gaps)}) = (from..(until - 1)) \ Coverage(covered)
    /\ \A i \in 1..Len(gaps) : from <= gaps[i][1]
    /\ \A i \in 1..(Len(gaps) - 1) : gaps[i][2] < gaps[i + 1][1]

\* An instant that a row holds.
LEMMA Covers ==
    ASSUME NEW ranges, NEW t
    PROVE  t \in Coverage(ranges) <=> \E range \in ranges : t \in range[1]..(range[2] - 1)
  BY DEF Coverage, Instants

\* One gap at the most, when no row lies between its ends.
LEMMA GapIsExact ==
    ASSUME NEW from \in Time, NEW to \in Time,
           \A t \in from..(to - 1) : t \notin Coverage(covered)
    PROVE  Exact(Gap(from, to), from, to)
  <1>1. CASE from < to
    <2> DEFINE gaps == <<<<from, to>>>>
    <2>1. Gap(from, to) = gaps
      BY <1>1 DEF Gap
    <2>2. /\ Len(gaps) = 1 /\ gaps[1] = <<from, to>>
          /\ gaps[1][1] = from /\ gaps[1][2] = to
          /\ 1..Len(gaps) = {1} /\ 1..(Len(gaps) - 1) = {}
      OBVIOUS
    <2>3. {gaps[i] : i \in 1..Len(gaps)} = {<<from, to>>}
      BY <2>2
    <2>4. Coverage({<<from, to>>}) = from..(to - 1)
      BY DEF Coverage, Instants
    <2>5. from..(to - 1) = (from..(to - 1)) \ Coverage(covered)
      OBVIOUS
    <2>6. gaps \in Seq(Ranges)
      BY <2>1, GapTyped
    <2>7. from <= from
      BY DEF Time
    <2> HIDE DEF gaps
    <2> QED
      BY <2>1, <2>2, <2>3, <2>4, <2>5, <2>6, <2>7 DEF Exact
  <1>2. CASE ~(from < to)
    <2>1. Gap(from, to) = <<>>
      BY <1>2 DEF Gap
    <2>2. from..(to - 1) = {}
      BY <1>2 DEF Time
    <2>3. Coverage({}) = {}
      BY DEF Coverage
    <2> QED
      BY <2>1, <2>2, <2>3 DEF Exact
  <1> QED
    BY <1>1, <1>2

\* A gap, and after the row behind it the gaps of the rest.
LEMMA ConsIsExact ==
    ASSUME covered \subseteq Ranges,
           NEW c \in Time, NEW until \in Time, NEW row \in covered, NEW rest,
           c < row[2], row[1] < until,
           \A t \in c..(row[1] - 1) : t \notin Coverage(covered),
           Exact(rest, row[2], until)
    PROVE  Exact(Gap(c, row[1]) \o rest, c, until)
  <1> DEFINE a == row[1]
             e == row[2]
             found == {rest[i] : i \in 1..Len(rest)}
  <1>1. a \in Time /\ e \in Time /\ a < e /\ c \in Int /\ a \in Int /\ e \in Int /\ until \in Int
    BY DEF Ranges, Time
  <1>2. \A t \in a..(e - 1) : t \in Coverage(covered)
    BY Covers
  <1> HIDE DEF a, e
  <1>3. /\ rest \in Seq(Ranges)
        /\ Coverage(found) = (e..(until - 1)) \ Coverage(covered)
        /\ \A i \in 1..Len(rest) : e <= rest[i][1]
        /\ \A i \in 1..(Len(rest) - 1) : rest[i][2] < rest[i + 1][1]
    BY DEF Exact, e
  <1>4. \A i \in 1..Len(rest) : rest[i][1] \in Int
    BY <1>3 DEF Ranges, Time
  <1>5. CASE a <= c
    <2>1. Gap(c, a) \o rest = rest
      <3>1. Gap(c, a) = <<>>
        BY <1>1, <1>5 DEF Gap
      <3> QED
        BY <1>3, <3>1
    <2>2. \A t \in c..(e - 1) : t \in Coverage(covered)
      BY <1>1, <1>2, <1>5
    <2>3. (c..(until - 1)) \ Coverage(covered) = (e..(until - 1)) \ Coverage(covered)
      BY <1>1, <2>2, c < e DEF e
    <2>4. \A i \in 1..Len(rest) : c <= rest[i][1]
      BY <1>1, <1>3, <1>4, c < e DEF e
    <2> QED
      BY <1>3, <2>1, <2>3, <2>4 DEF Exact, a
  <1>6. CASE c < a
    <2> DEFINE gap == <<c, a>>
               gaps == <<gap>> \o rest
    <2>1. Gap(c, a) = <<gap>>
      BY <1>6 DEF Gap
    <2>2. gap \in Ranges /\ gap[1] = c /\ gap[2] = a
      BY <1>1, <1>6 DEF Ranges
    <2> HIDE DEF gap
    <2>3. /\ gaps \in Seq(Ranges)
          /\ Len(gaps) = Len(rest) + 1
          /\ Len(rest) \in Nat
          /\ gaps[1] = gap
          /\ \A i \in 1..Len(rest) : gaps[i + 1] = rest[i]
      BY <1>3, <2>2
    <2> HIDE DEF gaps
    <2>4. {gaps[i] : i \in 1..Len(gaps)} = {gap} \union found
      <3>1. \A i \in 1..Len(gaps) : i = 1 \/ (i - 1 \in 1..Len(rest) /\ gaps[i] = rest[i - 1])
        <4> SUFFICES ASSUME NEW i \in 1..Len(gaps), i # 1
                     PROVE  i - 1 \in 1..Len(rest) /\ gaps[i] = rest[i - 1]
          OBVIOUS
        <4>1. i - 1 \in 1..Len(rest) /\ (i - 1) + 1 = i
          BY <2>3
        <4> QED
          BY <2>3, <4>1
      <3>2. \A i \in 1..Len(rest) : i + 1 \in 1..Len(gaps)
        BY <2>3
      <3>3. 1 \in 1..Len(gaps)
        BY <2>3
      <3> QED
        BY <2>3, <3>1, <3>2, <3>3
    <2>5. Coverage({gap} \union found) = (c..(a - 1)) \union Coverage(found)
      BY <2>2 DEF Coverage, Instants
    <2>6. (c..(until - 1)) \ Coverage(covered)
            = (c..(a - 1)) \union ((e..(until - 1)) \ Coverage(covered))
      <3>1. a < until /\ \A t \in c..(a - 1) : t \notin Coverage(covered)
        BY DEF a
      <3> QED
        BY <1>1, <1>2, <1>6, <3>1
    <2>7. \A i \in 1..Len(gaps) : c <= gaps[i][1]
      <3> SUFFICES ASSUME NEW i \in 1..Len(gaps), i # 1
                   PROVE  c <= gaps[i][1]
        BY <1>1, <2>2, <2>3
      <3>1. i - 1 \in 1..Len(rest) /\ (i - 1) + 1 = i
        BY <2>3
      <3>2. gaps[i] = rest[i - 1] /\ e <= rest[i - 1][1] /\ rest[i - 1][1] \in Int
        BY <1>3, <1>4, <2>3, <3>1
      <3> QED
        BY <1>1, <1>6, <3>2
    <2>8. \A i \in 1..(Len(gaps) - 1) : gaps[i][2] < gaps[i + 1][1]
      <3> SUFFICES ASSUME NEW i \in 1..(Len(gaps) - 1)
                   PROVE  gaps[i][2] < gaps[i + 1][1]
        OBVIOUS
      <3>1. i \in 1..Len(rest) /\ gaps[i + 1] = rest[i]
        BY <2>3
      <3>2. CASE i = 1
        <4>1. e <= rest[1][1] /\ rest[1][1] \in Int
          BY <1>3, <1>4, <3>1, <3>2
        <4> QED
          BY <1>1, <2>2, <2>3, <3>1, <3>2, <4>1
      <3>3. CASE i # 1
        <4>1. i - 1 \in 1..(Len(rest) - 1) /\ (i - 1) + 1 = i
          BY <2>3, <3>1, <3>3
        <4>2. gaps[i] = rest[i - 1]
          <5>1. i - 1 \in 1..Len(rest)
            BY <2>3, <4>1
          <5> QED
            BY <2>3, <4>1, <5>1
        <4> QED
          BY <1>3, <3>1, <4>1, <4>2
      <3> QED
        BY <3>2, <3>3
    <2> HIDE DEF found
    <2>9. Exact(gaps, c, until)
      BY <1>3, <2>3, <2>4, <2>5, <2>6, <2>7, <2>8 DEF Exact
    <2> QED
      BY <2>1, <2>9 DEF gaps, a
  <1> QED
    BY <1>1, <1>5, <1>6

\* missing_ranges returns what of a window no row holds, whatever the rows.
LEMMA MissingIsExact ==
    ASSUME covered \subseteq Ranges, NEW since \in Time, NEW until \in Time
    PROVE  Exact(MissingRanges(since, until), since, until)
  <1>1. PICK g : /\ \A c \in Time : g[c] = GapsOnward(c, since, until, g)
                 /\ MissingRanges(since, until) = g[since]
    BY LoopIsDefined
  <1> DEFINE Right(n) ==
               \A c \in Time : since <= c /\ MaxTime - c <= n => Exact(g[c], c, until)
             X == {n \in Nat : Right(n)}
  <1>0. MaxTime \in Nat
    BY BoundsAssumption
  <1>2. ASSUME NEW c \in Time, since <= c, c >= until \/ Later(c, since, until) = {}
        PROVE  Exact(g[c], c, until)
    <2>1. g[c] = Gap(c, until)
      BY <1>1, <1>2 DEF GapsOnward
    <2>2. \A t \in c..(until - 1) : t \notin Coverage(covered)
      <3> SUFFICES ASSUME NEW t \in c..(until - 1), NEW row \in covered,
                          t \in row[1]..(row[2] - 1)
                   PROVE  FALSE
        BY Covers
      <3>1. row[1] \in Int /\ row[2] \in Int /\ c \in Int /\ since \in Int /\ until \in Int
        BY DEF Ranges, Time
      <3>2. row[1] <= t /\ t < row[2] /\ c <= t /\ t < until /\ t \in Int
        BY <3>1
      <3>3. row \in Later(c, since, until)
        BY <1>2, <3>1, <3>2 DEF Later, Touches
      <3> QED
        BY <1>2, <3>1, <3>2, <3>3
    <2> QED
      BY <2>1, <2>2, GapIsExact
  <1>3. ASSUME NEW c \in Time, since <= c, ~(c >= until), Later(c, since, until) # {},
               LET row == Earliest(Later(c, since, until))
               IN  Exact(g[row[2]], row[2], until)
        PROVE  Exact(g[c], c, until)
    <2> DEFINE row == Earliest(Later(c, since, until))
    <2>1. /\ row \in covered
          /\ row[1] \in Time /\ row[2] \in Time
          /\ row[1] < row[2] /\ row[1] < until /\ c < row[2]
          /\ \A r \in Later(c, since, until) : row[1] <= r[1]
      BY <1>3, NextRow
    <2>2. g[c] = Gap(c, row[1]) \o g[row[2]] /\ Exact(g[row[2]], row[2], until)
      BY <1>1, <1>3 DEF GapsOnward
    <2> HIDE DEF row
    <2>3. \A t \in c..(row[1] - 1) : t \notin Coverage(covered)
      <3> SUFFICES ASSUME NEW t \in c..(row[1] - 1), NEW r \in covered,
                          t \in r[1]..(r[2] - 1)
                   PROVE  FALSE
        BY Covers
      <3>1. r[1] \in Int /\ r[2] \in Int /\ c \in Int /\ since \in Int /\ until \in Int
            /\ row[1] \in Int
        BY <2>1 DEF Ranges, Time
      <3>2. r[1] <= t /\ t < r[2] /\ c <= t /\ t < row[1] /\ t \in Int
        BY <3>1
      <3>3. r \in Later(c, since, until)
        BY <1>3, <2>1, <3>1, <3>2 DEF Later, Touches
      <3> QED
        BY <2>1, <3>1, <3>2, <3>3
    <2> QED
      BY <2>1, <2>2, <2>3, ConsIsExact
  <1>4. 0 \in X
    <2>1. ASSUME NEW c \in Time, since <= c, MaxTime - c <= 0
          PROVE  Exact(g[c], c, until)
      <3>1. c >= until
        BY <1>0, <2>1 DEF Time
      <3> QED
        BY <1>2, <2>1, <3>1
    <2> QED
      BY <2>1
  <1>5. ASSUME NEW n \in Nat, n \in X
        PROVE  n + 1 \in X
    <2>1. \A c \in Time : since <= c /\ MaxTime - c <= n => Exact(g[c], c, until)
      BY <1>5
    <2>2. ASSUME NEW c \in Time, since <= c, MaxTime - c <= n + 1
          PROVE  Exact(g[c], c, until)
      <3> DEFINE row == Earliest(Later(c, since, until))
      <3>1. CASE ~(c >= until) /\ Later(c, since, until) # {}
        <4>1. row[2] \in Time /\ c < row[2]
          BY <3>1, NextRow
        <4> HIDE DEF row
        <4>2. since <= row[2] /\ MaxTime - row[2] <= n
          BY <1>0, <2>2, <4>1 DEF Time
        <4>3. Exact(g[row[2]], row[2], until)
          BY <2>1, <4>1, <4>2
        <4> QED
          BY <1>3, <2>2, <3>1, <4>3 DEF row
      <3>2. CASE c >= until \/ Later(c, since, until) = {}
        BY <1>2, <2>2, <3>2
      <3> QED
        BY <3>1, <3>2
    <2>3. Right(n + 1)
      BY <2>2
    <2> HIDE DEF Right
    <2> QED
      BY <2>3
  <1>6. MaxTime \in X
    <2> HIDE DEF X
    <2> QED
      BY <1>0, <1>4, <1>5, Induction
  <1>7. since <= since /\ MaxTime - since <= MaxTime
    BY <1>0 DEF Time
  <1>8. Exact(g[since], since, until)
    BY <1>6, <1>7
  <1> QED
    BY <1>1, <1>8

-----------------------------------------------------------------------------
(* Types, the gaps of a session among them. *)

\* Coverage is of ranges, and whoever is inside a gap has one.
GapInv ==
    /\ covered \subseteq Ranges
    /\ orphaned \subseteq covered
    /\ \A u \in Sessions :
           /\ load[u].missing \in Seq(Ranges)
           /\ pc[u] \in {"store", "cover", "orphanCover"} => load[u].missing # <<>>

TypeInv == FrameInv /\ ClockInv /\ GapInv /\ lastSuccess \in Optional(Time)

\* A window lies within the clock.
LEMMA WindowTyped ==
    ASSUME clock \in Time, NEW window \in Windows(clock)
    PROVE  window[1] \in Time /\ window[2] \in Time
  <1>1. /\ window \in Beginnings \X (Endings \union {clock})
        /\ window[1] < window[2] /\ window[2] <= clock
    BY DEF Windows
  <1>2. clock \in Nat /\ Beginnings \subseteq Nat /\ Endings \subseteq Nat
    BY BoundsAssumption DEF Time
  <1>3. window[1] \in Nat /\ window[2] \in Nat
    BY <1>1, <1>2
  <1> QED
    BY <1>1, <1>3, BoundsAssumption DEF Time

\* A step of one session keeps the gaps.
LEMMA SessionGaps ==
    ASSUME TypeInv, NEW u \in Sessions, SessionStep(u)
    PROVE  GapInv'
  <1> USE DEF TypeInv
  <1>1. ASSUME NEW label, NEW frame, GoTo(u, label), Locals(u, frame),
               frame.missing \in Seq(Ranges),
               label \in {"store", "cover", "orphanCover"} => frame.missing # <<>>,
               covered' \subseteq Ranges, orphaned' \subseteq covered'
        PROVE  GapInv'
    <2>1. /\ pc'[u] = label /\ load'[u] = frame
          /\ \A v \in Sessions \ {u} : pc'[v] = pc[v] /\ load'[v] = load[v]
      BY <1>1 DEF FrameInv, GoTo, Locals
    <2> QED
      BY <1>1, <2>1 DEF GapInv
  <1>2. /\ covered \subseteq Ranges /\ orphaned \subseteq covered
        /\ load[u].missing \in Seq(Ranges)
        /\ pc[u] \in {"store", "cover", "orphanCover"} => load[u].missing # <<>>
    BY DEF GapInv
  <1>3. /\ load[u] = [now |-> load[u].now, missing |-> load[u].missing,
                      since |-> load[u].since, found |-> load[u].found]
        /\ load = [v \in Sessions |-> load[v]]
        /\ clock \in Time
    BY DEF FrameInv, Framed
  <1>4. NoLoad.missing \in Seq(Ranges)
    BY DEF NoLoad
  <1>5. CASE \E window \in Windows(clock) : LoadRange(u, window)
    <2>1. PICK window \in Windows(clock) : LoadRange(u, window)
      BY <1>5
    <2> DEFINE gaps == MissingRanges(window[1], window[2])
    <2>2. gaps \in Seq(Ranges)
      BY <1>2, <1>3, WindowTyped, MissingIsExact DEF Exact
    <2>3. /\ GoTo(u, "gaps") /\ Locals(u, Begun(gaps))
          /\ UNCHANGED <<covered, orphaned>>
      BY <2>1 DEF LoadRange, cache, Begun
    <2> HIDE DEF gaps
    <2>4. Begun(gaps).missing = gaps
      BY DEF Begun, NoLoad
    <2> HIDE DEF Begun
    <2> QED
      BY <1>1, <1>2, <2>2, <2>3, <2>4
  <1>6. CASE FetchGap(u)
    <2> DEFINE frame == [load[u] EXCEPT !.found = InRange(Head(load[u].missing))]
    <2>1. /\ GoTo(u, "store") /\ Locals(u, frame) /\ load[u].missing # <<>>
          /\ UNCHANGED <<covered, orphaned>>
      BY <1>6 DEF FetchGap, cache
    <2>2. frame.missing = load[u].missing
      BY <1>3
    <2> HIDE DEF frame
    <2> QED
      BY <1>1, <1>2, <2>1, <2>2
  <1>7. CASE StoreRows(u)
    <2>1. /\ pc[u] = "store" /\ GoTo(u, "cover") /\ Locals(u, load[u])
          /\ UNCHANGED <<covered, orphaned>>
      BY <1>3, <1>7 DEF StoreRows, At, Locals
    <2> QED
      BY <1>1, <1>2, <2>1
  <1>8. CASE StoreCoverage(u)
    <2>1. /\ pc[u] = "cover" /\ GoTo(u, "gaps") /\ Locals(u, NextGap(load[u]))
          /\ covered' = covered \union {Head(load[u].missing)} /\ orphaned' = orphaned
      BY <1>8 DEF StoreCoverage, At, NextGap
    <2>2. Head(load[u].missing) \in Ranges /\ Tail(load[u].missing) \in Seq(Ranges)
      BY <1>2, <2>1
    <2>3. NextGap(load[u]).missing = Tail(load[u].missing)
      BY <1>3 DEF NextGap
    <2> HIDE DEF NextGap
    <2> QED
      BY <1>1, <1>2, <2>1, <2>2, <2>3
  <1>9. CASE OrphanCoverage(u)
    <2>1. /\ pc[u] = "orphanCover" /\ GoTo(u, "idle") /\ Locals(u, NoLoad)
          /\ covered' = covered \union {Head(load[u].missing)}
          /\ orphaned' = orphaned \union {Head(load[u].missing)}
      BY <1>9 DEF OrphanCoverage, At, Return
    <2>2. Head(load[u].missing) \in Ranges
      BY <1>2, <2>1
    <2> QED
      BY <1>1, <1>2, <1>4, <2>1, <2>2
  <1>10. CASE SkipRefresh(u) \/ SyncState(u) \/ Fail(u)
    <2>1. /\ GoTo(u, "idle") /\ Locals(u, NoLoad)
          /\ UNCHANGED <<covered, orphaned>>
      BY <1>10 DEF SkipRefresh, SyncState, Fail, Return, cache
    <2> QED
      BY <1>1, <1>2, <1>4, <2>1
  <1>11. CASE StartRefresh(u) \/ QueryPersisted(u) \/ QueryReconciled(u) \/ SyncRows(u)
    <2>1. ASSUME NEW label, NEW frame, GoTo(u, label), Locals(u, frame),
                 label \notin {"store", "cover", "orphanCover"},
                 frame.missing = load[u].missing, UNCHANGED <<covered, orphaned>>
          PROVE  GapInv'
      BY <1>1, <1>2, <2>1
    <2>2. CASE StartRefresh(u)
      <3> DEFINE frame == [load[u] EXCEPT !.since = Since(load[u].now)]
      <3>1. /\ GoTo(u, "persisted") /\ Locals(u, frame) /\ UNCHANGED <<covered, orphaned>>
        BY <2>2 DEF StartRefresh, cache
      <3>2. frame.missing = load[u].missing
        BY <1>3
      <3> HIDE DEF frame
      <3> QED
        BY <2>1, <3>1, <3>2
    <2>3. CASE QueryPersisted(u)
      <3> DEFINE found == [s \in Slots |-> IF /\ telemetry[s] # NoValue
                                              /\ telemetry[s].persistedAt >= load[u].since
                                           THEN Version(s) ELSE 0]
                 frame == [load[u] EXCEPT !.found = found]
      <3>1. /\ GoTo(u, "reconciled") /\ Locals(u, frame) /\ UNCHANGED <<covered, orphaned>>
        BY <2>3 DEF QueryPersisted, cache
      <3> HIDE DEF found
      <3>2. frame.missing = load[u].missing
        BY <1>3
      <3> HIDE DEF frame
      <3> QED
        BY <2>1, <3>1, <3>2
    <2>4. CASE QueryReconciled(u)
      <3> DEFINE found == [s \in Slots |-> IF IsReconciled(s, u) THEN Version(s)
                                          ELSE load[u].found[s]]
                 frame == Complete(load[u], found)
      <3>1. /\ GoTo(u, "apply") /\ Locals(u, frame) /\ UNCHANGED <<covered, orphaned>>
        BY <2>4 DEF QueryReconciled, cache, Complete
      <3> HIDE DEF found
      <3>2. frame.missing = load[u].missing
        BY <1>3 DEF Complete
      <3> HIDE DEF frame
      <3> QED
        BY <2>1, <3>1, <3>2
    <2>5. CASE SyncRows(u)
      <3> DEFINE frame == [load[u] EXCEPT !.found = NoRows]
      <3>1. /\ GoTo(u, "stamp") /\ Locals(u, frame) /\ UNCHANGED <<covered, orphaned>>
        BY <2>5 DEF SyncRows
      <3>2. frame.missing = load[u].missing
        BY <1>3
      <3> HIDE DEF frame
      <3> QED
        BY <2>1, <3>1, <3>2
    <2> QED
      BY <1>11, <2>2, <2>3, <2>4, <2>5
  <1> QED
    BY <1>5, <1>6, <1>7, <1>8, <1>9, <1>10, <1>11 DEF SessionStep

\* Every step keeps the types and the gaps.
LEMMA TypeStep == TypeInv /\ [Next]_vars => TypeInv'
  <1> SUFFICES ASSUME TypeInv, [Next]_vars
               PROVE  TypeInv'
    OBVIOUS
  <1> USE DEF TypeInv
  <1>1. CASE CollectorStep
    <2>1. /\ telemetry' \in [Slots -> Optional(Document)]
          /\ UNCHANGED <<cache, orphaned, pc, load, clock>>
      BY <1>1, ChangesAreRecent
    <2> QED
      BY <2>1 DEF FrameInv, Framed, ClockInv, GapInv, cache
  <1>2. ASSUME NEW u \in Sessions, SessionStep(u)
        PROVE  TypeInv'
    <2>1. lastSuccess' = lastSuccess \/ SyncState(u)
      BY <1>2
      DEF SessionStep, LoadRange, FetchGap, StoreRows, StoreCoverage, OrphanCoverage,
          SkipRefresh, StartRefresh, QueryPersisted, QueryReconciled, SyncRows, Fail, cache
    <2>2. load[u].now \in Time
      BY DEF FrameInv, Framed
    <2>3. lastSuccess' \in Optional(Time)
      BY <2>1, <2>2 DEF SyncState, Optional
    <2> QED
      BY <1>2, <2>3, SessionFrames, SessionGaps
  <1>3. ASSUME NEW u \in Sessions, ClearCache(u)
        PROVE  TypeInv'
    <2>1. /\ rows' = NoRows /\ saved' = NoRows /\ covered' = {} /\ orphaned' = {}
          /\ watermark' = NoValue /\ lastSuccess' = NoValue
          /\ UNCHANGED <<telemetry, load, clock>>
      BY <1>3 DEF ClearCache, Emptied
    <2>2. pc' = [v \in Sessions |-> CASE pc[v] = "cover" -> "orphanCover"
                                      [] pc[v] = "stamp" -> "orphanStamp"
                                      [] OTHER -> pc[v]]
      BY <1>3 DEF ClearCache
    <2>3. \A v \in Sessions : \/ pc[v] = "cover" /\ pc'[v] = "orphanCover"
                              \/ pc[v] = "stamp" /\ pc'[v] = "orphanStamp"
                              \/ pc'[v] = pc[v]
      BY <2>2
    <2>4. pc' \in [Sessions -> PC]
      BY <2>2, <2>3 DEF FrameInv, PC
    <2>5. NoRows \in Rows
      BY BoundsAssumption DEF NoRows, Rows
    <2>6. FrameInv'
      BY <2>1, <2>4, <2>5 DEF FrameInv, Framed, Optional
    <2>7. ClockInv'
      BY <2>1, <2>3 DEF ClockInv
    <2>8. GapInv'
      BY <2>1, <2>3 DEF GapInv
    <2> QED
      BY <2>1, <2>6, <2>7, <2>8 DEF Optional
  <1>4. CASE Crash
    <2>1. /\ pc' = [u \in Sessions |-> "idle"] /\ load' = [u \in Sessions |-> NoLoad]
          /\ rows' = saved
          /\ UNCHANGED <<telemetry, saved, covered, watermark, lastSuccess, orphaned, clock>>
      BY <1>4 DEF Crash
    <2>2. \A u \in Sessions : pc'[u] = "idle" /\ load'[u] = NoLoad
      BY <2>1
    <2>3. Framed(NoLoad) /\ NoLoad.missing \in Seq(Ranges)
      BY NoLoadFramed DEF NoLoad
    <2>4. FrameInv'
      BY <2>1, <2>2, <2>3 DEF FrameInv, Framed, PC
    <2>5. ClockInv' /\ GapInv'
      BY <2>1, <2>2, <2>3 DEF ClockInv, GapInv
    <2> QED
      BY <2>1, <2>4, <2>5
  <1>5. CASE OpenRecovering
    <2>1. /\ rows' = NoRows /\ saved' = NoRows /\ covered' = {} /\ orphaned' = {}
          /\ watermark' = NoValue /\ lastSuccess' = NoValue
          /\ UNCHANGED <<telemetry, pc, load, clock>>
      BY <1>5 DEF OpenRecovering, Emptied
    <2>2. NoRows \in Rows
      BY BoundsAssumption DEF NoRows, Rows
    <2> QED
      BY <2>1, <2>2 DEF FrameInv, Framed, ClockInv, GapInv, Optional
  <1>6. CASE Tick
    <2>1. /\ clock < MaxTime /\ clock' = clock + 1
          /\ \A u \in Sessions : pc[u] # "idle" => clock < load[u].now + LoadTime
          /\ UNCHANGED <<telemetry, rows, saved, covered, watermark, lastSuccess,
                         orphaned, pc, load>>
      BY <1>6 DEF Tick, cache
    <2>2. clock \in Time /\ clock' \in Time
      BY <2>1, BoundsAssumption DEF FrameInv, Time
    <2>3. FrameInv'
      BY <2>1, <2>2 DEF FrameInv, Framed
    <2>4. GapInv'
      BY <2>1 DEF GapInv
    <2>5. \A u \in Sessions : load[u].now \in Int /\ load[u].since \in Int
      BY DEF FrameInv, Framed, Time
    <2>6. watermark # NoValue => watermark \in Int
      BY DEF FrameInv, Optional, Time
    <2>7. ClockInv'
      BY <2>1, <2>2, <2>5, <2>6, LoadAssumption, OverlapAssumption DEF ClockInv, Time
    <2> QED
      BY <2>1, <2>3, <2>4, <2>7
  <1>7. CASE UNCHANGED vars
    BY <1>7 DEF vars, cache, FrameInv, Framed, ClockInv, GapInv
  <1> QED
    BY <1>1, <1>2, <1>3, <1>4, <1>5, <1>6, <1>7, Steps

\* The invariant holds in every reachable state.
LEMMA AlwaysTyped == Spec => []TypeInv
  <1>1. Init => TypeInv
    <2> SUFFICES ASSUME Init
                 PROVE  TypeInv
      OBVIOUS
    <2>1. FrameInv /\ ClockInv
      BY SyncInit DEF SyncInv
    <2>2. NoLoad.missing \in Seq(Ranges)
      BY DEF NoLoad
    <2>3. \A u \in Sessions : pc[u] = "idle" /\ load[u] = NoLoad
      BY DEF Init
    <2>4. GapInv /\ lastSuccess \in Optional(Time)
      BY <2>2, <2>3 DEF Init, GapInv, Optional
    <2> QED
      BY <2>1, <2>4 DEF TypeInv
  <1> QED
    BY <1>1, TypeStep, PTL DEF Spec

\* Types: the store's documents, the cache, and the locals of every session, its
\* list of gaps among them.
THEOREM TypeCorrect == Spec => []TypeOK
  <1>1. TypeInv => TypeOK
    <2> SUFFICES ASSUME TypeInv
                 PROVE  TypeOK
      OBVIOUS
    <2>1. \A u \in Sessions : load[u] \in Load
      BY DEF TypeInv, FrameInv, Framed, GapInv, Load
    <2>2. load \in [Sessions -> Load]
      BY <2>1 DEF TypeInv, FrameInv
    <2> QED
      BY <2>2 DEF TypeInv, FrameInv, GapInv, TypeOK
  <1> QED
    BY <1>1, AlwaysTyped, PTL

\* Whatever rows the sessions have left in covered_ranges, missing_ranges returns
\* exactly the instants of the window that none of them holds, in order and in as
\* few ranges as they make.
THEOREM GapsMissNothing == Spec => []GapsAreExact
  <1>1. TypeInv => GapsAreExact
    <2> SUFFICES ASSUME TypeInv, NEW window \in Ranges
                 PROVE  LET gaps == MissingRanges(window[1], window[2])
                            found == {gaps[i] : i \in 1..Len(gaps)}
                        IN /\ Coverage(found) = Instants(window) \ Coverage(covered)
                           /\ \A i \in 1..Len(gaps) : gaps[i][1] < gaps[i][2]
                           /\ \A i \in 1..(Len(gaps) - 1) : gaps[i][2] < gaps[i + 1][1]
      BY DEF GapsAreExact
    <2> DEFINE gaps == MissingRanges(window[1], window[2])
    <2>1. window[1] \in Time /\ window[2] \in Time
      BY DEF Ranges
    <2>2. Exact(gaps, window[1], window[2])
      BY <2>1, MissingIsExact DEF TypeInv, GapInv
    <2> HIDE DEF gaps
    <2>3. \A i \in 1..Len(gaps) : gaps[i][1] < gaps[i][2]
      BY <2>2 DEF Exact, Ranges
    <2> QED
      BY <2>2, <2>3 DEF Exact, Instants, gaps
  <1> QED
    BY <1>1, AlwaysTyped, PTL
=============================================================================
