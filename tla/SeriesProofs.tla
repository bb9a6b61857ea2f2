----------------------------- MODULE SeriesProofs -----------------------------
(***************************************************************************)
(* The stored series: what a slot holds only improves, the baseline of a   *)
(* document precedes it, a number is stored exactly when one could be      *)
(* computed, nothing is requested during the cooldown, success is told of  *)
(* stored slots only, and cycles implement the abstract series.  None of   *)
(* these needs the lease: they hold of executions that overlap in any      *)
(* order.                                                                  *)
(***************************************************************************)
EXTENDS CycleProofs

\* A baseline, when there is one, lies in an earlier slot, its own.
Precedes(previous, at) ==
    previous # NoValue =>
        /\ previous.slot < Slot(at)
        /\ Slot(previous.at) = previous.slot

\* A number, and only a number, comes with a status that says so.
Numbered(doc) ==
    /\ (doc.interval # NoValue) <=> (doc.status \in Reconstructed)
    /\ doc.interval # NoValue => doc.interval >= 0
    /\ doc.status = "DAY_ROLLOVER_RESOLVED" => doc.final # NoValue

Documented(s) ==
    telemetry[s] # NoValue =>
        /\ Slot(telemetry[s].at) = s
        /\ Precedes(telemetry[s].previous, telemetry[s].at)
        /\ Numbered(telemetry[s])

\* What the locals of an execution satisfy at each place: the baseline it
\* found, the interval it is about to patch in, and that a request is made
\* only by an execution that is not cooling down.
Local(label, frame) ==
    /\ Precedes(frame.previous, frame.now)
    /\ label = "apply" => frame.interval \in Nat
    /\ label \in {"acquire", "attempt", "request"} =>
           ~frame.requested /\ ~frame.energy.ok
    /\ label \in {"total", "history"} => frame.energy.ok
    /\ label \in {"ask", "query"} => ~frame.cooldown
    /\ frame.cooldown => ~frame.requested /\ ~frame.energy.ok

LocalInv == \A e \in Executions : Local(pc[e], cycle[e])

SeriesInv == LocalInv /\ \A s \in Slots : Documented(s)

-----------------------------------------------------------------------------
(* The observation that is built. *)

\* Slots follow time: an earlier slot is an earlier instant.
LEMMA SlotsFollowTime ==
    ASSUME NEW t \in Time, NEW u \in Time, Slot(t) < Slot(u)
    PROVE  t < u
  <1>1. t \in Nat /\ u \in Nat
    BY DEF Time
  <1> QED
    BY <1>1, IndicesFollowTime

\* compute_interval gives a number exactly with a status that says so.
LEMMA OutcomeNumbered ==
    ASSUME NEW current \in Optional(Reading), NEW at \in Time,
           NEW previous \in Optional(PreviousReading), NEW hasPrior \in BOOLEAN,
           NEW final \in Optional(Reading),
           NEW o, o = ComputeInterval(current, at, previous, hasPrior, final)
    PROVE  /\ (o.value # NoValue) <=> (o.status \in Reconstructed)
           /\ o.value # NoValue => o.value >= 0
           /\ o.status = "DAY_ROLLOVER_RESOLVED" => o.final # NoValue
  <1>1. CASE current = NoValue \/ previous = NoValue
    BY <1>1 DEF ComputeInterval, Outcome, Reconstructed
  <1>2. CASE current # NoValue /\ previous # NoValue
    <2> DEFINE seconds == at - previous.at
               gap == DayGap(at, previous)
    <2>1. /\ current \in Nat
          /\ previous.value \in Nat
          /\ previous.at \in Time
      BY <1>2 DEF Optional, Reading, PreviousReading
    <2>2. gap \in Int
      BY <2>1, InstantIsIndexed DEF DayGap, Days
    <2>3. o =
            CASE gap < 0 -> Outcome(NoValue, seconds, "MISSING_PREVIOUS_SAMPLE",
                                    {}, NoValue)
              [] gap = 0 -> SameDay(current, previous.value, seconds)
              [] gap = 1 -> DayRollover(current, previous.value, seconds, final)
              [] gap > 1 -> Outcome(NoValue, seconds, "MULTI_DAY_GAP", {}, NoValue)
      BY <1>2 DEF ComputeInterval
    <2> HIDE DEF seconds, gap
    <2>4. CASE gap < 0 \/ gap > 1
      BY <2>2, <2>3, <2>4 DEF Outcome, Reconstructed
    <2>5. CASE gap = 0
      BY <2>1, <2>3, <2>5, NoValueAssumption DEF SameDay, Outcome, Reconstructed
    <2>6. CASE gap = 1
      <3>1. o = DayRollover(current, previous.value, seconds, final)
        BY <2>3, <2>6
      <3>2. CASE final = NoValue \/ final < previous.value
        BY <3>1, <3>2 DEF DayRollover, Outcome, Reconstructed
      <3>3. CASE final # NoValue /\ ~(final < previous.value)
        <4>1. final \in Nat
          BY <3>3 DEF Optional, Reading
        <4>2. Reconstruct(final, previous.value, current) \in Nat
          BY <2>1, <3>3, <4>1 DEF Reconstruct
        <4> QED
          BY <3>1, <3>3, <4>2, NoValueAssumption DEF DayRollover, Outcome, Reconstructed
      <3> QED
        BY <3>2, <3>3
    <2> QED
      BY <2>2, <2>4, <2>5, <2>6
  <1> QED
    BY <1>1, <1>2

\* What a cycle would store is right for its slot.
LEMMA BuiltIsRight ==
    ASSUME TypeInv, LocalInv, NEW e \in Executions
    PROVE  /\ Built(e) \in Document
           /\ Built(e).at = cycle[e].now
           /\ Precedes(Built(e).previous, Built(e).at)
           /\ Numbered(Built(e))
  <1> DEFINE c == cycle[e]
             o == ComputeInterval(c.energy.value, c.now, c.previous, c.hasPrior, c.final)
  <1>1. c \in Frame
    BY LocalsOf
  <1>2. /\ Built(e).at = c.now
        /\ Built(e).previous = c.previous
        /\ Built(e).interval = o.value
        /\ Built(e).status = o.status
        /\ Built(e).final = o.final
    BY DEF Built, BuildObservation
  <1>3. Precedes(c.previous, c.now)
    BY DEF LocalInv, Local
  <1>4. c.energy.value \in Optional(Reading)
    BY <1>1 DEF Frame, EnergyResult, RequestResult
  <1>5. /\ (o.value # NoValue) <=> (o.status \in Reconstructed)
        /\ o.value # NoValue => o.value >= 0
        /\ o.status = "DAY_ROLLOVER_RESOLVED" => o.final # NoValue
    BY <1>1, <1>4, OutcomeNumbered DEF Frame
  <1> HIDE DEF c, o
  <1> QED
    BY <1>2, <1>3, <1>5, BuiltTyped DEF Numbered, c

\* The baseline that is found precedes the slot.
LEMMA FoundPrecedes ==
    ASSUME TypeInv, SeriesInv, NEW t \in Time
    PROVE  Precedes(FindPreviousReading(Slot(t)), t)
  <1>1. CASE Usable(Slot(t)) = {}
    BY <1>1 DEF FindPreviousReading, Precedes
  <1>2. CASE Usable(Slot(t)) # {}
    <2> DEFINE newest == CHOOSE s \in Usable(Slot(t)) :
                            \A u \in Usable(Slot(t)) : u <= s
    <2>1. Usable(Slot(t)) \subseteq Slots
      BY DEF Usable, Recent, Earlier
    <2>2. MaxTime \in Time
      BY MaxTimeAssumption DEF Time
    <2>3. \E s \in Usable(Slot(t)) : \A u \in Usable(Slot(t)) : u <= s
      BY <1>2, <2>1, <2>2, InstantIsIndexed, NewestExists DEF Slots
    <2>4. newest \in Usable(Slot(t))
      BY <2>3
    <2>5. FindPreviousReading(Slot(t)) = AsPreviousReading(newest, telemetry[newest])
      BY <1>2 DEF FindPreviousReading
    <2> HIDE DEF newest
    <2>6. /\ newest \in Slots
          /\ newest < Slot(t)
          /\ telemetry[newest] # NoValue
      BY <2>4 DEF Usable, Recent, Earlier
    <2>7. Slot(telemetry[newest].at) = newest
      BY <2>6 DEF SeriesInv, Documented
    <2> QED
      BY <2>5, <2>6, <2>7 DEF AsPreviousReading, Precedes
  <1> QED
    BY <1>1, <1>2

-----------------------------------------------------------------------------
(* The locals. *)

\* A step that moves e keeps what is known of the locals of the others.
LEMMA MoveKeepsLocal ==
    ASSUME TypeInv, LocalInv, NEW e \in Executions, NEW label, NEW frame,
           GoTo(e, label), Locals(e, frame), Local(label, frame)
    PROVE  LocalInv'
  BY DEF LocalInv, GoTo, Locals, TypeInv, TypeOK

\* Moving an execution on leaves the facts about the locals of the others alone.
LEMMA GoKeepsLocal ==
    ASSUME TypeInv, LocalInv, NEW e \in Executions, NEW label,
           GoTo(e, label), UNCHANGED cycle, Local(label, cycle[e])
    PROVE  LocalInv'
  BY DEF LocalInv, GoTo, TypeInv, TypeOK

\* A frame with the baseline, the energy, the requests and the cooldown of
\* another may be at any place that asks nothing more of it.
LEMMA LocalAt ==
    ASSUME NEW a, NEW label, NEW frame, NEW c, Local(a, c),
           frame.previous = c.previous, frame.now = c.now,
           frame.energy = c.energy, frame.requested = c.requested,
           frame.cooldown = c.cooldown,
           label \notin {"acquire", "attempt", "request", "total", "history", "ask",
                         "query", "apply"}
    PROVE  Local(label, frame)
  BY DEF Local

\* The locals of a fresh invocation claim nothing about the store.
LEMMA NewFrameLocal ==
    ASSUME NEW t, NEW label \in {"idle", "acquire"}
    PROVE  Local(label, NewFrame(t))
  BY DEF Local, NewFrame, Precedes, Failed

\* An execution that returns keeps the facts about every execution's locals.
LEMMA ReturnKeepsLocal ==
    ASSUME TypeInv, LocalInv, NEW e \in Executions, Return(e)
    PROVE  LocalInv'
  BY NewFrameLocal, MoveKeepsLocal DEF Return

\* Every step keeps the facts about what an execution has read.
LEMMA LocalStep == TypeInv /\ SeriesInv /\ [Next]_vars => LocalInv'
  <1> SUFFICES ASSUME TypeInv, SeriesInv, [Next]_vars
               PROVE  LocalInv'
    OBVIOUS
  <1>i. LocalInv
    BY DEF SeriesInv
  <1>f. \A e \in Executions : cycle[e] \in Frame /\ Local(pc[e], cycle[e])
    BY <1>i, LocalsOf DEF LocalInv
  <1>g. ASSUME NEW e \in Executions, NEW label, GoTo(e, label), UNCHANGED cycle,
               label \notin {"acquire", "attempt", "request", "total", "history",
                             "ask", "query", "apply"}
        PROVE  LocalInv'
    BY <1>f, <1>g, <1>i, LocalAt, GoKeepsLocal
  <1>1. ASSUME NEW e \in Executions, Start(e)
        PROVE  LocalInv'
    BY <1>1, <1>i, NewFrameLocal, MoveKeepsLocal DEF Start
  <1>2. ASSUME NEW e \in Executions, AcquireLease(e)
        PROVE  LocalInv'
    BY <1>2, <1>f, <1>i, GoKeepsLocal DEF AcquireLease, At, Local
  <1>3. ASSUME NEW e \in Executions, Return(e)
        PROVE  LocalInv'
    BY <1>3, <1>i, ReturnKeepsLocal
  <1>4. ASSUME NEW e \in Executions, ReadHealth(e)
        PROVE  LocalInv'
    <2>1. PICK cooling, count :
             Locals(e, [cycle[e] EXCEPT !.cooldown = cooling, !.rateLimits = count])
      BY <1>4 DEF ReadHealth
    <2> DEFINE c == [cycle[e] EXCEPT !.cooldown = cooling, !.rateLimits = count]
    <2>2. /\ c.previous = cycle[e].previous /\ c.now = cycle[e].now
          /\ c.energy = cycle[e].energy /\ c.requested = cycle[e].requested
      BY <1>f DEF Frame
    <2>3. Locals(e, c) /\ GoTo(e, "request") /\ pc[e] = "attempt"
      BY <1>4, <2>1 DEF ReadHealth, At
    <2> HIDE DEF c
    <2>4. Local("request", c)
      BY <1>f, <2>2, <2>3 DEF Local
    <2> QED
      BY <1>i, <2>3, <2>4, MoveKeepsLocal
  <1>5. ASSUME NEW e \in Executions, CooldownRequests(e)
        PROVE  LocalInv'
    <2> DEFINE c == [cycle[e] EXCEPT !.energy = CooldownFailure,
                                     !.state = CooldownFailure]
    <2>1. /\ c.previous = cycle[e].previous /\ c.now = cycle[e].now
          /\ ~c.energy.ok /\ c.requested = cycle[e].requested
          /\ c.cooldown = cycle[e].cooldown
      BY <1>f DEF Frame, CooldownFailure, Failed
    <2>2. Locals(e, c) /\ GoTo(e, "lookup") /\ pc[e] = "request"
      BY <1>5 DEF CooldownRequests, At
    <2> HIDE DEF c
    <2>3. Local("lookup", c)
      BY <1>f, <2>1, <2>2 DEF Local
    <2> QED
      BY <1>i, <2>2, <2>3, MoveKeepsLocal
  <1>6. ASSUME NEW e \in Executions, Requests(e)
        PROVE  LocalInv'
    <2>1. PICK energy, state :
             Locals(e, [cycle[e] EXCEPT !.energy = energy, !.state = state,
                                        !.requested = TRUE])
      BY <1>6 DEF Requests
    <2> DEFINE c == [cycle[e] EXCEPT !.energy = energy, !.state = state,
                                     !.requested = TRUE]
    <2>2. /\ c.previous = cycle[e].previous /\ c.now = cycle[e].now
          /\ c.cooldown = cycle[e].cooldown
      BY <1>f DEF Frame
    <2>3. /\ Locals(e, c) /\ GoTo(e, "lookup")
          /\ pc[e] = "request" /\ ~cycle[e].cooldown
      BY <1>6, <2>1 DEF Requests, At
    <2> HIDE DEF c
    <2>4. Local("lookup", c)
      BY <1>f, <2>2, <2>3 DEF Local
    <2> QED
      BY <1>i, <2>3, <2>4, MoveKeepsLocal
  <1>7. ASSUME NEW e \in Executions, FindPrevious(e)
        PROVE  LocalInv'
    <2> DEFINE previous == FindPreviousReading(MySlot(e))
               c == [cycle[e] EXCEPT !.previous = previous,
                                     !.hasPrior = Earlier(MySlot(e)) # {}]
               next == IF /\ previous # NoValue
                          /\ DayGap(cycle[e].now, previous) = 1
                          /\ cycle[e].energy.ok
                       THEN "total" ELSE "write"
    <2>1. Precedes(previous, cycle[e].now)
      BY LocalsOf, FoundPrecedes DEF MySlot
    <2>2. /\ c.previous = previous /\ c.now = cycle[e].now
          /\ c.energy = cycle[e].energy /\ c.requested = cycle[e].requested
          /\ c.cooldown = cycle[e].cooldown
      BY <1>f DEF Frame
    <2>3. Locals(e, c) /\ GoTo(e, next)
      BY <1>7 DEF FindPrevious
    <2>4. next \in {"total", "write"} /\ (next = "total" => cycle[e].energy.ok)
      OBVIOUS
    <2> HIDE DEF previous, c, next
    <2>5. Local(next, c)
      <3>1. cycle[e].cooldown => ~cycle[e].requested /\ ~cycle[e].energy.ok
        BY <1>f DEF Local
      <3>2. CASE next = "total"
        BY <2>1, <2>2, <2>4, <3>1, <3>2 DEF Local
      <3>3. CASE next = "write"
        BY <2>1, <2>2, <3>1, <3>3 DEF Local
      <3> QED
        BY <2>4, <3>2, <3>3
    <2> QED
      BY <1>i, <2>3, <2>5, MoveKeepsLocal
  <1>8. ASSUME NEW e \in Executions, ReadCachedTotal(e)
        PROVE  LocalInv'
    <2> DEFINE c == [cycle[e] EXCEPT !.final = dailyTotals[PreviousDay(e)]]
    <2>1. PICK next \in {"write", "history"} : GoTo(e, next)
      BY <1>8 DEF ReadCachedTotal
    <2>2. /\ c.previous = cycle[e].previous /\ c.now = cycle[e].now
          /\ c.energy = cycle[e].energy /\ c.requested = cycle[e].requested
          /\ c.cooldown = cycle[e].cooldown
      BY <1>f DEF Frame
    <2>3. Locals(e, c) /\ pc[e] = "total"
      BY <1>8 DEF ReadCachedTotal, At
    <2> HIDE DEF c
    <2>4. Local(next, c)
      BY <1>f, <2>2, <2>3 DEF Local
    <2> QED
      BY <1>i, <2>1, <2>3, <2>4, MoveKeepsLocal
  <1>9. ASSUME NEW e \in Executions, RequestTotal(e)
        PROVE  LocalInv'
    <2>1. PICK total :
             Locals(e, [cycle[e] EXCEPT !.final = total, !.requested = TRUE])
      BY <1>9 DEF RequestTotal
    <2> DEFINE c == [cycle[e] EXCEPT !.final = total, !.requested = TRUE]
    <2>2. /\ c.previous = cycle[e].previous /\ c.now = cycle[e].now
          /\ c.energy = cycle[e].energy /\ c.cooldown = cycle[e].cooldown
      BY <1>f DEF Frame
    <2>3. Locals(e, c) /\ GoTo(e, "write") /\ pc[e] = "history"
      BY <1>9, <2>1 DEF RequestTotal, At
    <2> HIDE DEF c
    <2>4. Local("write", c)
      BY <1>f, <2>2, <2>3 DEF Local
    <2> QED
      BY <1>i, <2>3, <2>4, MoveKeepsLocal
  <1>10. ASSUME NEW e \in Executions,
                \/ EnqueueReconciliation(e) \/ QueueDone(e)
                \/ ApplyReconciliation(e) \/ MarkImplausible(e)
                \/ RecordOutcome(e) \/ RecordError(e) \/ Abandon(e)
         PROVE  LocalInv'
    BY <1>10, <1>g
    DEF EnqueueReconciliation, QueueDone, ApplyReconciliation,
        MarkImplausible, RecordOutcome, RecordError, Abandon
  <1>11. ASSUME NEW e \in Executions, UpdateRateLimitState(e)
         PROVE  LocalInv'
    <2>1. PICK next \in {"enqueue", "pending"} : GoTo(e, next)
      BY <1>11 DEF UpdateRateLimitState
    <2> QED
      BY <1>11, <1>g, <2>1 DEF UpdateRateLimitState
  <1>12. ASSUME NEW e \in Executions, Raise(e)
         PROVE  LocalInv'
    BY <1>12, <1>g DEF Raise
  <1>13. ASSUME NEW e \in Executions, StoreFails(e)
         PROVE  LocalInv'
    BY <1>13, <1>3, <1>g DEF StoreFails
  <1>14. ASSUME NEW e \in Executions, ReadPending(e)
         PROVE  LocalInv'
    <2>1. PICK items : Locals(e, [cycle[e] EXCEPT !.todo = items])
      BY <1>14 DEF ReadPending
    <2> DEFINE c == [cycle[e] EXCEPT !.todo = items]
    <2>2. Local("next", c)
      BY <1>f, LocalAt DEF Frame
    <2>3. Locals(e, c) /\ GoTo(e, "next")
      BY <1>14, <2>1 DEF ReadPending
    <2> HIDE DEF c
    <2> QED
      BY <1>i, <2>2, <2>3, MoveKeepsLocal
  <1>15. ASSUME NEW e \in Executions, ExpireItem(e)
         PROVE  LocalInv'
    <2>1. PICK i : Locals(e, [cycle[e] EXCEPT !.item = i])
      BY <1>15 DEF ExpireItem
    <2> DEFINE c == [cycle[e] EXCEPT !.item = i]
    <2>2. Local("drop", c)
      BY <1>f, LocalAt DEF Frame
    <2>3. Locals(e, c) /\ GoTo(e, "drop")
      BY <1>15, <2>1 DEF ExpireItem
    <2> HIDE DEF c
    <2> QED
      BY <1>i, <2>2, <2>3, MoveKeepsLocal
  <1>16. ASSUME NEW e \in Executions, TakeItem(e)
         PROVE  LocalInv'
    <2>1. PICK i \in cycle[e].todo :
             /\ dailyTotals[i.day] # NoValue \/ MayAsk(e)
             /\ Locals(e, [cycle[e] EXCEPT !.item = i, !.total = dailyTotals[i.day]])
             /\ GoTo(e, IF dailyTotals[i.day] # NoValue THEN "load" ELSE "ask")
      BY <1>16 DEF TakeItem
    <2> DEFINE c == [cycle[e] EXCEPT !.item = i, !.total = dailyTotals[i.day]]
    <2>2. /\ c.previous = cycle[e].previous /\ c.now = cycle[e].now
          /\ c.energy = cycle[e].energy /\ c.requested = cycle[e].requested
          /\ c.cooldown = cycle[e].cooldown
      BY <1>f DEF Frame
    <2>3. Local("load", c)
      <3>1. Local(pc[e], cycle[e])
        BY <1>f
      <3> HIDE DEF c
      <3> QED
        BY <2>2, <3>1, LocalAt
    <2>4. MayAsk(e) => Local("ask", c)
      BY <1>f, <2>2 DEF Local, MayAsk
    <2>5. Locals(e, c)
      BY <2>1
    <2> HIDE DEF c
    <2> QED
      BY <1>i, <2>1, <2>3, <2>4, <2>5, MoveKeepsLocal
  <1>h. ASSUME NEW c \in Frame, NEW i
        PROVE  /\ Handled(c, i).previous = c.previous
               /\ Handled(c, i).now = c.now
               /\ Handled(c, i).energy = c.energy
               /\ Handled(c, i).requested = c.requested
               /\ Handled(c, i).cooldown = c.cooldown
    BY DEF Handled, Frame
  <1>17. ASSUME NEW e \in Executions, LeaveItem(e)
         PROVE  LocalInv'
    <2>1. PICK i : Locals(e, Handled(cycle[e], i))
      BY <1>17 DEF LeaveItem
    <2>2. GoTo(e, "next")
      BY <1>17 DEF LeaveItem, IsNext, At, GoTo, TypeInv, TypeOK
    <2>3. Local("next", Handled(cycle[e], i))
      BY <1>f, <1>h, LocalAt
    <2> QED
      BY <1>i, <2>1, <2>2, <2>3, MoveKeepsLocal
  <1>18. ASSUME NEW e \in Executions, AskTotal(e)
         PROVE  LocalInv'
    <2>1. PICK total \in TotalAnswers(cycle[e].item.day) :
            /\ LET c == [cycle[e] EXCEPT !.asked = TRUE, !.requested = TRUE,
                                         !.total = total]
               IN  Locals(e, IF total = NoValue THEN Handled(c, c.item) ELSE c)
            /\ GoTo(e, IF total = NoValue THEN "next" ELSE "load")
      BY <1>18 DEF AskTotal
    <2>2. pc[e] = "query"
      BY <1>18 DEF AskTotal, At
    <2> DEFINE c == [cycle[e] EXCEPT !.asked = TRUE, !.requested = TRUE,
                                     !.total = total]
    <2>3. c \in Frame
      <3>1. cycle[e].item \in Item
        BY <2>2, LocalsOf
      <3>2. total \in Optional(Reading)
        BY <3>1, AnswersTyped DEF Item, TypeInv
      <3> QED
        BY <1>f, <3>2 DEF Frame
    <2>4. /\ c.previous = cycle[e].previous /\ c.now = cycle[e].now
          /\ c.energy = cycle[e].energy /\ c.cooldown = cycle[e].cooldown
      BY <1>f DEF Frame
    <2>5. Locals(e, IF total = NoValue THEN Handled(c, c.item) ELSE c)
      BY <2>1
    <2> HIDE DEF c
    <2>6. Local("load", c) /\ Local("next", c)
      BY <1>f, <2>2, <2>4 DEF Local
    <2>7. Local("next", Handled(c, c.item))
      BY <1>h, <2>3, <2>6, LocalAt
    <2> QED
      BY <1>i, <2>1, <2>5, <2>6, <2>7, MoveKeepsLocal
  <1>19. ASSUME NEW e \in Executions, FindTotal(e)
         PROVE  LocalInv'
    <2> DEFINE total == dailyTotals[cycle[e].item.day]
               c == [cycle[e] EXCEPT !.total = total]
    <2>1. /\ c.previous = cycle[e].previous /\ c.now = cycle[e].now
          /\ c.energy = cycle[e].energy /\ c.requested = cycle[e].requested
          /\ c.cooldown = cycle[e].cooldown
      BY <1>f DEF Frame
    <2>2. /\ pc[e] = "ask"
          /\ Locals(e, c)
          /\ GoTo(e, "load") \/ GoTo(e, "query")
      BY <1>19 DEF FindTotal, At
    <2> HIDE DEF c, total
    <2>3. Local("load", c) /\ Local("query", c)
      BY <1>f, <2>1, <2>2 DEF Local
    <2> QED
      BY <1>i, <2>2, <2>3, MoveKeepsLocal
  <1>20. ASSUME NEW e \in Executions, LoadObservation(e)
         PROVE  LocalInv'
    <2> DEFINE stored == telemetry[cycle[e].item.slot]
               total == cycle[e].total
               c == [cycle[e] EXCEPT !.interval = ReconciledInterval(stored, total)]
    <2>1. \/ \E next \in {"drop", "mark"} : GoTo(e, next) /\ UNCHANGED cycle
          \/ /\ stored # NoValue /\ stored.value # NoValue /\ stored.previous # NoValue
             /\ ~IsImplausible(stored, total)
             /\ GoTo(e, "apply") /\ Locals(e, c)
      BY <1>20 DEF LoadObservation
    <2>2. ASSUME stored # NoValue, stored.value # NoValue, stored.previous # NoValue,
                 ~IsImplausible(stored, total)
          PROVE  ReconciledInterval(stored, total) \in Nat
      <3>1. cycle[e].item \in Item /\ total \in Nat
        BY <1>20, LocalsOf DEF LoadObservation, At, Reading
      <3>2. stored \in Document
        BY <2>2, <3>1 DEF Item, TypeInv, TypeOK, Optional
      <3>3. stored.value \in Nat /\ stored.previous.value \in Nat
        BY <2>2, <3>2 DEF Document, PreviousReading, Optional, Reading
      <3> QED
        BY <2>2, <3>1, <3>3 DEF IsImplausible, ReconciledInterval, Reconstruct
    <2>3. /\ c.previous = cycle[e].previous /\ c.now = cycle[e].now
          /\ c.energy = cycle[e].energy /\ c.requested = cycle[e].requested
          /\ c.cooldown = cycle[e].cooldown
          /\ c.interval = ReconciledInterval(stored, total)
      BY <1>f DEF Frame
    <2> HIDE DEF c, stored, total
    <2>4. ReconciledInterval(stored, total) \in Nat => Local("apply", c)
      BY <1>f, <2>3 DEF Local
    <2> QED
      BY <1>g, <1>i, <2>1, <2>2, <2>4, MoveKeepsLocal
  <1>21. ASSUME NEW e \in Executions, DequeueReconciliation(e)
         PROVE  LocalInv'
    <2>1. Local("next", Handled(cycle[e], cycle[e].item))
      BY <1>f, <1>h, LocalAt
    <2> QED
      BY <1>21, <1>i, <2>1, MoveKeepsLocal DEF DequeueReconciliation
  <1>22. ASSUME NEW e \in Executions, ProfileFails(e)
         PROVE  LocalInv'
    <2> DEFINE c == [cycle[e] EXCEPT !.requested = TRUE]
    <2>1. /\ c.previous = cycle[e].previous /\ c.now = cycle[e].now
          /\ c.energy = cycle[e].energy /\ c.cooldown = cycle[e].cooldown
      BY <1>f DEF Frame
    <2>2. Locals(e, c) /\ GoTo(e, "error") /\ ~cycle[e].cooldown
      BY <1>22 DEF ProfileFails
    <2> HIDE DEF c
    <2>3. Local("error", c)
      BY <1>f, <2>1, <2>2 DEF Local
    <2> QED
      BY <1>i, <2>2, <2>3, MoveKeepsLocal
  <1>23. ASSUME NEW e \in Executions, WriteObservation(e)
         PROVE  LocalInv'
    <2>1. PICK writes : Locals(e, [cycle[e] EXCEPT !.wrote = writes])
      BY <1>23 DEF WriteObservation
    <2> DEFINE c == [cycle[e] EXCEPT !.wrote = writes]
    <2>2. Local("backoff", c)
      BY <1>f, LocalAt DEF Frame
    <2>3. Locals(e, c) /\ GoTo(e, "backoff")
      BY <1>23, <2>1 DEF WriteObservation
    <2> HIDE DEF c
    <2> QED
      BY <1>i, <2>2, <2>3, MoveKeepsLocal
  <1>24. CASE Tick \/ UNCHANGED vars
    BY <1>24, <1>i DEF Tick, vars, LocalInv
  <1> QED
    BY <1>1, <1>2, <1>3, <1>4, <1>5, <1>6, <1>7, <1>8, <1>9, <1>10, <1>11,
       <1>12, <1>13, <1>14, <1>15, <1>16, <1>17, <1>18, <1>19, <1>20, <1>21,
       <1>22, <1>23, <1>24
    DEF Next, Step, SkipForLease, ReleaseLease, Crash

-----------------------------------------------------------------------------
(* The documents. *)

\* Only three steps write telemetry, each in one slot: the write of a cycle that
\* supersedes what was there, and the two patches of reconciliation.
WritesSlot(e, s) ==
    /\ At(e, "write")
    /\ s = MySlot(e)
    /\ Supersedes(Built(e), telemetry[s])
    /\ telemetry' = [telemetry EXCEPT ![s] = Built(e)]

PatchesSlot(e, s) ==
    /\ telemetry[s] # NoValue
    /\ s = cycle[e].item.slot
    /\ \/ /\ At(e, "apply")
          /\ telemetry' = [telemetry EXCEPT ![s] =
                 Patched(telemetry[s], cycle[e].interval, cycle[e].total)]
       \/ /\ At(e, "mark")
          /\ telemetry' = [telemetry EXCEPT ![s] =
                 MarkedImplausible(telemetry[s], cycle[e].total)]

\* Only three steps of an execution write a stored observation.
LEMMA StepsAndTheSeries ==
    ASSUME TypeInv, [Next]_vars
    PROVE  \/ \E e \in Executions, s \in Slots : WritesSlot(e, s) \/ PatchesSlot(e, s)
           \/ telemetry' = telemetry
  <1>1. ASSUME NEW e \in Executions, WriteObservation(e), telemetry' # telemetry
        PROVE  WritesSlot(e, MySlot(e)) /\ MySlot(e) \in Slots
    BY <1>1, LocalsOf DEF WriteObservation, WritesSlot
  <1>2. ASSUME NEW e \in Executions, ApplyReconciliation(e) \/ MarkImplausible(e),
               telemetry' # telemetry
        PROVE  PatchesSlot(e, cycle[e].item.slot) /\ cycle[e].item.slot \in Slots
    <2>1. cycle[e].item \in Item
      BY <1>2, LocalsOf DEF ApplyReconciliation, MarkImplausible, At
    <2> QED
      BY <1>2, <2>1
      DEF ApplyReconciliation, MarkImplausible, UpdateDocument, PatchesSlot, Item
  <1>3. ASSUME NEW e \in Executions,
               \/ Start(e) \/ AcquireLease(e) \/ SkipForLease(e) \/ ReadHealth(e)
               \/ CooldownRequests(e) \/ Requests(e) \/ ProfileFails(e) \/ FindPrevious(e)
               \/ ReadCachedTotal(e) \/ RequestTotal(e) \/ UpdateRateLimitState(e)
               \/ EnqueueReconciliation(e) \/ ReadPending(e) \/ ExpireItem(e)
               \/ TakeItem(e) \/ LeaveItem(e) \/ FindTotal(e) \/ AskTotal(e)
               \/ LoadObservation(e)
               \/ DequeueReconciliation(e) \/ QueueDone(e) \/ RecordOutcome(e)
               \/ RecordError(e) \/ ReleaseLease(e) \/ Abandon(e) \/ Raise(e)
               \/ StoreFails(e) \/ Crash(e)
        PROVE  telemetry' = telemetry
    BY <1>3
    DEF Start, AcquireLease, SkipForLease, ReadHealth, CooldownRequests, Requests, ProfileFails,
        FindPrevious, ReadCachedTotal, RequestTotal, UpdateRateLimitState,
        EnqueueReconciliation, ReadPending, ExpireItem, TakeItem, LeaveItem,
        FindTotal, AskTotal, LoadObservation, DequeueReconciliation, QueueDone, RecordOutcome, RecordError,
        ReleaseLease, Abandon, Raise, StoreFails, Crash, store
  <1>4. CASE Tick \/ UNCHANGED vars
    BY <1>4 DEF Tick, vars, store
  <1> QED
    BY <1>1, <1>2, <1>3, <1>4 DEF Next, Step

\* A patch keeps the raw values of the document, and leaves it numbered.
LEMMA PatchIsRight ==
    ASSUME TypeInv, SeriesInv, NEW e \in Executions, NEW s \in Slots, PatchesSlot(e, s)
    PROVE  /\ Raw(telemetry'[s]) = Raw(telemetry[s])
           /\ telemetry'[s] # NoValue
           /\ Numbered(telemetry'[s])
  <1>1. telemetry[s] \in Document
    BY DEF PatchesSlot, TypeInv, TypeOK, Optional
  <1>2. Numbered(telemetry[s])
    BY DEF PatchesSlot, SeriesInv, Documented
  <1>3. CASE At(e, "apply")
    <2>1. cycle[e].total \in Nat /\ cycle[e].interval \in Nat
      BY <1>3, LocalsOf DEF At, Reading, SeriesInv, LocalInv, Local
    <2>2. telemetry'[s] = Patched(telemetry[s], cycle[e].interval, cycle[e].total)
      BY <1>3 DEF PatchesSlot, At, TypeInv, TypeOK
    <2>3. Patched(telemetry[s], cycle[e].interval, cycle[e].total) \in Document
      <3>1. cycle[e].total \in Optional(Reading) /\ cycle[e].interval \in Optional(Int)
        BY <2>1 DEF Optional, Reading
      <3> QED
        BY <1>1, <3>1 DEF Patched, Document, IntervalStatus, QualityFlag
    <2>4. Numbered(telemetry'[s])
      BY <1>1, <2>1, <2>2, NoValueAssumption DEF Patched, Numbered, Reconstructed, Document
    <2>5. Raw(telemetry'[s]) = Raw(telemetry[s])
      BY <1>1, <2>2 DEF Patched, Raw, Document
    <2> QED
      BY <2>2, <2>3, <2>4, <2>5, NoDocumentAssumption
  <1>4. CASE At(e, "mark")
    <2>1. cycle[e].total \in Nat
      BY <1>4, LocalsOf DEF At, Reading
    <2>2. telemetry'[s] = MarkedImplausible(telemetry[s], cycle[e].total)
      BY <1>4 DEF PatchesSlot, At, TypeInv, TypeOK
    <2>3. MarkedImplausible(telemetry[s], cycle[e].total) \in Document
      BY <1>1, <2>1 DEF MarkedImplausible, Document, Optional, Reading, QualityFlag
    <2>4. Numbered(telemetry'[s])
      BY <1>1, <1>2, <2>1, <2>2, NoValueAssumption
      DEF MarkedImplausible, Numbered, Document
    <2>5. Raw(telemetry'[s]) = Raw(telemetry[s])
      BY <1>1, <2>2 DEF MarkedImplausible, Raw, Document
    <2> QED
      BY <2>2, <2>3, <2>4, <2>5, NoDocumentAssumption
  <1> QED
    BY <1>3, <1>4 DEF PatchesSlot

\* The empty series satisfies the invariant.
LEMMA SeriesInit == Init => SeriesInv
  <1> SUFFICES ASSUME Init PROVE SeriesInv
    OBVIOUS
  <1>1. LocalInv
    BY NewFrameLocal DEF Init, LocalInv
  <1> QED
    BY <1>1 DEF Init, SeriesInv, Documented

\* Every step keeps the invariant of the series and of the locals.
LEMMA SeriesStep == TypeInv /\ SeriesInv /\ [Next]_vars => SeriesInv'
  <1> SUFFICES ASSUME TypeInv, SeriesInv, [Next]_vars
               PROVE  SeriesInv'
    OBVIOUS
  <1>1. LocalInv'
    BY LocalStep
  <1>2. telemetry \in [Slots -> Optional(Document)]
    BY DEF TypeInv, TypeOK
  <1>3. \A u \in Slots : Documented(u)
    BY DEF SeriesInv
  <1>4. ASSUME NEW e \in Executions, NEW s \in Slots, WritesSlot(e, s), NEW u \in Slots
        PROVE  Documented(u)'
    <2>1. CASE u = s
      <3>1. telemetry'[u] = Built(e)
        BY <1>2, <1>4, <2>1 DEF WritesSlot
      <3>2. Slot(Built(e).at) = u
        BY <1>4, <2>1, BuiltIsRight DEF WritesSlot, MySlot, SeriesInv
      <3> QED
        BY <3>1, <3>2, BuiltIsRight DEF Documented, SeriesInv
    <2>2. CASE u # s
      <3>1. telemetry'[u] = telemetry[u]
        BY <1>2, <1>4, <2>2 DEF WritesSlot
      <3> QED
        BY <1>3, <3>1 DEF Documented
    <2> QED
      BY <2>1, <2>2
  <1>5. ASSUME NEW e \in Executions, NEW s \in Slots, PatchesSlot(e, s), NEW u \in Slots
        PROVE  Documented(u)'
    <2>1. CASE u = s
      <3>1. telemetry'[s].at = telemetry[s].at /\ telemetry'[s].previous = telemetry[s].previous
        BY <1>5, PatchIsRight DEF Raw
      <3> QED
        BY <1>3, <1>5, <2>1, <3>1, PatchIsRight DEF Documented, PatchesSlot
    <2>2. CASE u # s
      <3>1. telemetry'[u] = telemetry[u]
        BY <1>2, <1>5, <2>2 DEF PatchesSlot
      <3> QED
        BY <1>3, <3>1 DEF Documented
    <2> QED
      BY <2>1, <2>2
  <1>6. ASSUME telemetry' = telemetry
        PROVE  \A u \in Slots : Documented(u)'
    BY <1>3, <1>6 DEF Documented
  <1> QED
    BY <1>1, <1>4, <1>5, <1>6, StepsAndTheSeries DEF SeriesInv

\* The invariant of the series holds in every reachable state.
THEOREM SeriesIsRight == Spec => []SeriesInv
  <1> QED
    BY SeriesInit, SeriesStep, TypesAndPlaces, PTL DEF Spec

-----------------------------------------------------------------------------

\* What the API answered for a slot is never lost, and is replaced only by a
\* strictly more complete observation: not by a replay, a straggler, or a
\* reconciliation, in whatever order any number of executions run.
THEOREM RawImproves == Spec => RawOnlyImproves
  <1> DEFINE Improves ==
        \A s \in Slots : telemetry[s] # NoValue =>
          /\ telemetry'[s] # NoValue
          /\ \/ Raw(telemetry'[s]) = Raw(telemetry[s])
             \/ Completeness(telemetry'[s]) > Completeness(telemetry[s])
  <1>1. TypeInv /\ SeriesInv /\ [Next]_vars => Improves
    <2> SUFFICES ASSUME TypeInv, SeriesInv, [Next]_vars,
                        NEW u \in Slots, telemetry[u] # NoValue
                 PROVE  /\ telemetry'[u] # NoValue
                        /\ \/ Raw(telemetry'[u]) = Raw(telemetry[u])
                           \/ Completeness(telemetry'[u]) > Completeness(telemetry[u])
      OBVIOUS
    <2>1. telemetry \in [Slots -> Optional(Document)]
      BY DEF TypeInv, TypeOK
    <2>2. ASSUME NEW e \in Executions, NEW s \in Slots, WritesSlot(e, s), s = u
          PROVE  /\ telemetry'[u] # NoValue
                 /\ Completeness(telemetry'[u]) > Completeness(telemetry[u])
      BY <2>1, <2>2, BuiltTyped, NoDocumentAssumption DEF WritesSlot, Supersedes
    <2>3. ASSUME NEW e \in Executions, NEW s \in Slots, PatchesSlot(e, s), s = u
          PROVE  telemetry'[u] # NoValue /\ Raw(telemetry'[u]) = Raw(telemetry[u])
      BY <2>3, PatchIsRight
    <2>4. ASSUME NEW e \in Executions, NEW s \in Slots,
                 WritesSlot(e, s) \/ PatchesSlot(e, s), s # u
          PROVE  telemetry'[u] = telemetry[u]
      BY <2>1, <2>4 DEF WritesSlot, PatchesSlot
    <2> QED
      BY <2>2, <2>3, <2>4, StepsAndTheSeries
  <1>2. Spec => [][Improves]_vars
    BY <1>1, TypesAndPlaces, SeriesIsRight, PTL DEF Spec
  <1> QED
    BY <1>2 DEF RawOnlyImproves

\* The baseline of every stored document lies strictly before it, in slot and in
\* time: no interval spans a negative duration, overlapping executions or not.
THEOREM BaselineIsEarlier == Spec => []BaselinePrecedes
  <1>1. TypeInv /\ SeriesInv => BaselinePrecedes
    <2> SUFFICES ASSUME TypeInv, SeriesInv, NEW s \in Slots,
                        telemetry[s] # NoValue, telemetry[s].previous # NoValue
                 PROVE  /\ Slot(telemetry[s].at) = s
                        /\ telemetry[s].previous.slot < s
                        /\ telemetry[s].previous.at < telemetry[s].at
                        /\ Slot(telemetry[s].previous.at) = telemetry[s].previous.slot
      BY DEF BaselinePrecedes
    <2>1. /\ Slot(telemetry[s].at) = s
          /\ telemetry[s].previous.slot < s
          /\ Slot(telemetry[s].previous.at) = telemetry[s].previous.slot
      BY DEF SeriesInv, Documented, Precedes
    <2>2. telemetry[s] \in Document /\ telemetry[s].previous \in PreviousReading
      BY DEF TypeInv, TypeOK, Document, Optional
    <2>3. telemetry[s].at \in Time /\ telemetry[s].previous.at \in Time
      BY <2>2 DEF Document, PreviousReading
    <2> QED
      BY <2>1, <2>3, SlotsFollowTime
  <1> QED
    BY <1>1, TypesAndPlaces, SeriesIsRight, PTL

\* A number is stored exactly with a status that says one could be computed, is
\* never negative, and a resolved rollover carries the total it used.
THEOREM NumbersAreEarned == Spec => []NumberOnlyWhenResolved
  <1>1. SeriesInv => NumberOnlyWhenResolved
    BY DEF SeriesInv, Documented, Numbered, NumberOnlyWhenResolved
  <1> QED
    BY <1>1, SeriesIsRight, PTL

\* A cycle that starts inside the cooldown issues no request at all, whatever is
\* queued.
THEOREM CooldownIsQuiet == Spec => []NoRequestInCooldown
  <1>1. SeriesInv => NoRequestInCooldown
    BY DEF SeriesInv, LocalInv, Local, NoRequestInCooldown
  <1> QED
    BY <1>1, SeriesIsRight, PTL
-----------------------------------------------------------------------------
(* What the scheduler is told. *)

\* Who has written its slot, or found a better observation there, wrote: the
\* slot is stored.
WroteInv == \A e \in Executions : cycle[e].wrote => telemetry[MySlot(e)] # NoValue

\* What is stored is never lost.
LEMMA StoredStays ==
    ASSUME TypeInv, SeriesInv, [Next]_vars, NEW u \in Slots, telemetry[u] # NoValue
    PROVE  telemetry'[u] # NoValue
  <1>1. telemetry \in [Slots -> Optional(Document)]
    BY DEF TypeInv, TypeOK
  <1>2. ASSUME NEW e \in Executions, NEW s \in Slots, WritesSlot(e, s)
        PROVE  telemetry'[u] # NoValue
    BY <1>1, <1>2, BuiltTyped, NoDocumentAssumption DEF WritesSlot
  <1>3. ASSUME NEW e \in Executions, NEW s \in Slots, PatchesSlot(e, s)
        PROVE  telemetry'[u] # NoValue
    <2>1. CASE s = u
      BY <1>3, <2>1, PatchIsRight
    <2>2. CASE s # u
      BY <1>1, <1>3, <2>2 DEF PatchesSlot
    <2> QED
      BY <2>1, <2>2
  <1> QED
    BY <1>2, <1>3, StepsAndTheSeries

\* A step of an execution sets `wrote` only where it stores the slot.
LEMMA WroteStep ==
    ASSUME TypeInv, NEW e \in Executions,
           \/ Start(e) \/ Step(e) \/ Abandon(e) \/ Raise(e) \/ StoreFails(e) \/ Crash(e),
           cycle'[e].wrote
    PROVE  /\ cycle'[e].now = cycle[e].now
           /\ cycle[e].wrote \/ telemetry'[MySlot(e)] # NoValue
  <1>f. cycle[e] \in Frame /\ MySlot(e) \in Slots
    BY LocalsOf
  <1>l. \A frame : Locals(e, frame) => cycle'[e] = frame
    BY DEF Locals, TypeInv, TypeOK
  <1>h. \A c \in Frame : \A i : Handled(c, i).now = c.now /\ Handled(c, i).wrote = c.wrote
    BY DEF Handled, Frame
  <1>1. CASE \/ Start(e) \/ SkipForLease(e) \/ ReleaseLease(e) \/ Crash(e)
    BY <1>1, <1>l DEF Start, SkipForLease, ReleaseLease, Crash, Return, NewFrame
  <1>2. CASE StoreFails(e)
    BY <1>2, <1>l DEF StoreFails, Return, NewFrame
  <1>3. CASE \/ AcquireLease(e) \/ Abandon(e) \/ Raise(e) \/ UpdateRateLimitState(e)
             \/ EnqueueReconciliation(e) \/ ApplyReconciliation(e) \/ MarkImplausible(e)
             \/ QueueDone(e) \/ RecordOutcome(e) \/ RecordError(e)
    BY <1>3
    DEF AcquireLease, Abandon, Raise, UpdateRateLimitState, EnqueueReconciliation,
        ApplyReconciliation, MarkImplausible, QueueDone, RecordOutcome, RecordError
  <1>4. CASE \/ ReadHealth(e) \/ CooldownRequests(e) \/ Requests(e) \/ ProfileFails(e)
             \/ FindPrevious(e) \/ ReadCachedTotal(e) \/ RequestTotal(e)
    BY <1>4, <1>f, <1>l
    DEF ReadHealth, CooldownRequests, Requests, ProfileFails, FindPrevious,
        ReadCachedTotal, RequestTotal, Frame
  <1>5. CASE \/ ReadPending(e) \/ ExpireItem(e) \/ TakeItem(e) \/ FindTotal(e)
    BY <1>5, <1>f, <1>l DEF ReadPending, ExpireItem, TakeItem, FindTotal, Frame
  <1>6. CASE LeaveItem(e) \/ DequeueReconciliation(e)
    BY <1>6, <1>f, <1>l, <1>h DEF LeaveItem, DequeueReconciliation
  <1>7. CASE AskTotal(e)
    <2>1. PICK total :
             LET c == [cycle[e] EXCEPT !.asked = TRUE, !.requested = TRUE,
                                       !.total = total]
             IN  cycle'[e] = IF total = NoValue THEN Handled(c, c.item) ELSE c
      BY <1>7, <1>l DEF AskTotal
    <2> DEFINE c == [cycle[e] EXCEPT !.asked = TRUE, !.requested = TRUE, !.total = total]
    <2>2. c.now = cycle[e].now /\ c.wrote = cycle[e].wrote
      BY <1>f DEF Frame
    <2>3. Handled(c, c.item).now = c.now /\ Handled(c, c.item).wrote = c.wrote
      BY <1>f DEF Handled, Frame
    <2> QED
      BY <2>1, <2>2, <2>3
  <1>8. CASE LoadObservation(e)
    BY <1>8, <1>f, <1>l DEF LoadObservation, Frame
  <1>9. CASE WriteObservation(e)
    <2> DEFINE s == MySlot(e)
               writes == Supersedes(Built(e), telemetry[s])
    <2>1. /\ telemetry' = IF writes THEN [telemetry EXCEPT ![s] = Built(e)] ELSE telemetry
          /\ cycle'[e] = [cycle[e] EXCEPT !.wrote = writes]
      BY <1>9, <1>l DEF WriteObservation
    <2> HIDE DEF writes
    <2>2. cycle'[e].now = cycle[e].now /\ cycle'[e].wrote = writes
      BY <1>f, <2>1 DEF Frame
    <2>3. Built(e) # NoValue
      BY BuiltTyped, NoDocumentAssumption
    <2>4. writes => telemetry'[s] = Built(e)
      BY <1>f, <2>1 DEF TypeInv, TypeOK
    <2> QED
      BY <2>2, <2>3, <2>4
  <1> QED
    BY <1>1, <1>2, <1>3, <1>4, <1>5, <1>6, <1>7, <1>8, <1>9 DEF Step
\* A step of one execution leaves the locals of another alone.
LEMMA LocalsAreOwn ==
    ASSUME TypeInv, NEW e \in Executions,
           \/ Start(e) \/ Step(e) \/ Abandon(e) \/ Raise(e) \/ StoreFails(e) \/ Crash(e),
           NEW f \in Executions, f # e
    PROVE  cycle'[f] = cycle[f]
  <1>l. \A frame : Locals(e, frame) => cycle'[f] = cycle[f]
    BY DEF Locals, TypeInv, TypeOK
  <1>1. CASE \/ Start(e) \/ SkipForLease(e) \/ ReleaseLease(e) \/ Crash(e) \/ StoreFails(e)
    BY <1>1, <1>l DEF Start, SkipForLease, ReleaseLease, Crash, StoreFails, Return
  <1>2. CASE \/ AcquireLease(e) \/ Abandon(e) \/ Raise(e) \/ UpdateRateLimitState(e)
             \/ EnqueueReconciliation(e) \/ ApplyReconciliation(e) \/ MarkImplausible(e)
             \/ QueueDone(e) \/ RecordOutcome(e) \/ RecordError(e)
    BY <1>2
    DEF AcquireLease, Abandon, Raise, UpdateRateLimitState, EnqueueReconciliation,
        ApplyReconciliation, MarkImplausible, QueueDone, RecordOutcome, RecordError
  <1>3. CASE \/ ReadHealth(e) \/ CooldownRequests(e) \/ Requests(e) \/ ProfileFails(e)
             \/ FindPrevious(e) \/ ReadCachedTotal(e) \/ RequestTotal(e)
             \/ WriteObservation(e) \/ ReadPending(e) \/ ExpireItem(e) \/ TakeItem(e)
             \/ LeaveItem(e) \/ FindTotal(e) \/ AskTotal(e) \/ LoadObservation(e)
             \/ DequeueReconciliation(e)
    BY <1>3, <1>l
    DEF ReadHealth, CooldownRequests, Requests, ProfileFails, FindPrevious,
        ReadCachedTotal, RequestTotal, WriteObservation, ReadPending, ExpireItem,
        TakeItem, LeaveItem, FindTotal, AskTotal, LoadObservation, DequeueReconciliation
  <1> QED
    BY <1>1, <1>2, <1>3 DEF Step

\* Every execution that wrote leaves its slot stored.
LEMMA WroteAlways == Spec => []WroteInv
  <1>1. Init => WroteInv
    BY DEF Init, WroteInv, NewFrame
  <1>2. TypeInv /\ SeriesInv /\ WroteInv /\ [Next]_vars => WroteInv'
    <2> SUFFICES ASSUME TypeInv, SeriesInv, WroteInv, [Next]_vars,
                        NEW f \in Executions, cycle'[f].wrote
                 PROVE  telemetry'[MySlot(f)'] # NoValue
      BY DEF WroteInv
    <2>1. cycle[f].wrote => telemetry[MySlot(f)] # NoValue
      BY DEF WroteInv
    <2>2. ASSUME cycle'[f] = cycle[f]
          PROVE  telemetry'[MySlot(f)'] # NoValue
      BY <2>1, <2>2, LocalsOf, StoredStays DEF MySlot
    <2>3. ASSUME NEW e \in Executions,
                 \/ Start(e) \/ Step(e) \/ Abandon(e) \/ Raise(e) \/ StoreFails(e) \/ Crash(e)
          PROVE  telemetry'[MySlot(f)'] # NoValue
      <3>1. CASE e = f
        <4>1. /\ cycle'[f].now = cycle[f].now
              /\ cycle[f].wrote \/ telemetry'[MySlot(f)] # NoValue
          BY <2>3, <3>1, WroteStep
        <4>2. MySlot(f)' = MySlot(f)
          BY <4>1 DEF MySlot
        <4> QED
          BY <2>1, <4>1, <4>2, LocalsOf, StoredStays
      <3>2. CASE e # f
        BY <2>2, <2>3, <3>2, LocalsAreOwn
      <3> QED
        BY <3>1, <3>2
    <2>4. CASE Tick \/ UNCHANGED vars
      BY <2>2, <2>4 DEF Tick, vars
    <2> QED
      BY <2>3, <2>4 DEF Next
  <1> QED
    BY <1>1, <1>2, TypesAndPlaces, SeriesIsRight, PTL DEF Spec

\* The scheduler is told 200 only of a slot that is stored, or of a cycle skipped
\* for a lease in force, whose slot may never be stored; whatever fails and in
\* whatever order executions run.
THEOREM SuccessIsStored == Spec => SuccessMeansStored
  <1> DEFINE Told ==
        \A e \in Executions :
          /\ ReleaseLease(e) \/ SkipForLease(e) \/ StoreFails(e)
          /\ pc'[e] = "idle"
          /\ Response(e) = 200
          =>
              \/ telemetry[MySlot(e)] # NoValue
              \/ pc[e] = "acquire" /\ HeldAt(cycle[e].now)
  <1>1. WroteInv => Told
    BY DEF WroteInv, Response, ExitZero, SkipForLease, At
  <1> QED
    BY <1>1, WroteAlways, PTL DEF SuccessMeansStored

-----------------------------------------------------------------------------
(* The cycles implement the abstract series: whatever executions overlap,  *)
(* and in whatever order they write and reconcile, a slot only receives    *)
(* better observations, and an observation that has been settled never     *)
(* waits again.                                                            *)


\* Only an observation with an energy reading can wait for a total.
Founded(doc) == doc.status = "DAY_ROLLOVER_UNRESOLVED" => doc.energyOk

FoundedInv == \A s \in Slots : telemetry[s] # NoValue => Founded(telemetry[s])

\* The refinement mapping.
Abstract == [s \in Slots |-> AsEntry(telemetry[s])]

-----------------------------------------------------------------------------

\* Without a reading there is no rollover to wait for.
LEMMA NoReadingNoRollover ==
    ASSUME NEW at, NEW previous, NEW hasPrior, NEW final
    PROVE  ComputeInterval(NoValue, at, previous, hasPrior, final).status
               # "DAY_ROLLOVER_UNRESOLVED"
  BY DEF ComputeInterval, Outcome

\* What a cycle would store waits only if its energy request was answered.
LEMMA BuiltIsFounded ==
    ASSUME TypeInv, NEW e \in Executions
    PROVE  Founded(Built(e))
  <1>1. cycle[e].energy \in EnergyResult
    BY LocalsOf DEF Frame
  <1>2. ~cycle[e].energy.ok => cycle[e].energy.value = NoValue
    BY <1>1 DEF EnergyResult
  <1>3. /\ Built(e).energyOk = cycle[e].energy.ok
        /\ Built(e).status = ComputeInterval(cycle[e].energy.value, cycle[e].now,
               cycle[e].previous, cycle[e].hasPrior, cycle[e].final).status
    BY DEF Built, BuildObservation
  <1> QED
    BY <1>2, <1>3, NoReadingNoRollover DEF Founded

\* What a patch leaves: the same raw values, and nothing that waits.
LEMMA PatchSettles ==
    ASSUME TypeInv, SeriesInv, FoundedInv, NEW e \in Executions, NEW s \in Slots,
           PatchesSlot(e, s)
    PROVE  /\ telemetry'[s] # NoValue
           /\ Completeness(telemetry'[s]) = Completeness(telemetry[s])
           /\ ~Waits(telemetry'[s])
           /\ Founded(telemetry'[s])
  <1>1. telemetry[s] \in Document /\ Founded(telemetry[s])
    BY DEF PatchesSlot, TypeInv, TypeOK, Optional, FoundedInv
  <1>2. telemetry'[s] # NoValue /\ Raw(telemetry'[s]) = Raw(telemetry[s])
    BY PatchIsRight
  <1>3. /\ telemetry'[s].energyOk = telemetry[s].energyOk
        /\ telemetry'[s].stateOk = telemetry[s].stateOk
    BY <1>2 DEF Raw
  <1>4. CASE At(e, "apply")
    <2>1. telemetry'[s] = Patched(telemetry[s], cycle[e].interval, cycle[e].total)
      BY <1>4 DEF PatchesSlot, At, TypeInv, TypeOK
    <2>2. telemetry'[s].status = "DAY_ROLLOVER_RESOLVED"
      BY <1>1, <2>1 DEF Patched, Document
    <2> QED
      BY <1>2, <1>3, <2>2 DEF Completeness, Waits, Founded
  <1>5. CASE At(e, "mark")
    <2>1. telemetry'[s] = MarkedImplausible(telemetry[s], cycle[e].total)
      BY <1>5 DEF PatchesSlot, At, TypeInv, TypeOK
    <2>2. /\ telemetry'[s].status = telemetry[s].status
          /\ "IMPLAUSIBLE_FINAL_TOTAL" \in telemetry'[s].flags
      BY <1>1, <2>1 DEF MarkedImplausible, Document
    <2> QED
      BY <1>1, <1>2, <1>3, <2>2 DEF Completeness, Waits, Founded
  <1> QED
    BY <1>4, <1>5 DEF PatchesSlot

\* Every step keeps what waits founded.
LEMMA FoundedStep == TypeInv /\ SeriesInv /\ FoundedInv /\ [Next]_vars => FoundedInv'
  <1> SUFFICES ASSUME TypeInv, SeriesInv, FoundedInv, [Next]_vars,
                      NEW u \in Slots, telemetry'[u] # NoValue
               PROVE  Founded(telemetry'[u])
    BY DEF FoundedInv
  <1>1. telemetry \in [Slots -> Optional(Document)]
    BY DEF TypeInv, TypeOK
  <1>2. telemetry'[u] = telemetry[u] => Founded(telemetry'[u])
    BY DEF FoundedInv
  <1>3. ASSUME NEW e \in Executions, NEW s \in Slots, WritesSlot(e, s)
        PROVE  telemetry'[u] = telemetry[u] \/ telemetry'[u] = Built(e)
    BY <1>1, <1>3 DEF WritesSlot
  <1>4. ASSUME NEW e \in Executions, NEW s \in Slots, PatchesSlot(e, s), s # u
        PROVE  telemetry'[u] = telemetry[u]
    BY <1>1, <1>4 DEF PatchesSlot
  <1> QED
    BY <1>2, <1>3, <1>4, BuiltIsFounded, PatchSettles, StepsAndTheSeries

\* In every reachable state only observations with a reading wait.
LEMMA FoundedAlways == Spec => []FoundedInv
  <1>1. Init => FoundedInv
    BY DEF Init, FoundedInv
  <1> QED
    BY <1>1, FoundedStep, TypesAndPlaces, SeriesIsRight, PTL DEF Spec

-----------------------------------------------------------------------------

\* A founded document maps to an entry of the abstract series.
LEMMA AnEntry ==
    ASSUME NEW doc \in Document, Founded(doc)
    PROVE  /\ AsEntry(doc) \in Promise!Entry
           /\ AsEntry(doc) # NoValue
           /\ AsEntry(doc).level = Completeness(doc)
           /\ AsEntry(doc).waits = Waits(doc)
  <1>1. doc # NoValue
    BY NoDocumentAssumption
  <1>2. AsEntry(doc) = [level |-> Completeness(doc), waits |-> Waits(doc)]
    BY <1>1 DEF AsEntry
  <1>3. Completeness(doc) \in 0..3 /\ (doc.energyOk => Completeness(doc) >= 2)
    BY DEF Completeness, Document
  <1>4. Waits(doc) \in BOOLEAN /\ (Waits(doc) => doc.energyOk)
    BY DEF Waits, Founded
  <1>5. AsEntry(doc) \in [level : Nat, waits : BOOLEAN]
    BY <1>2, <1>3, <1>4
  <1> QED
    BY <1>2, <1>3, <1>4, <1>5, NoEntryAssumption DEF Promise!Entry, Promise!Level

\* The write of a cycle that supersedes what was there is a Record.
LEMMA WriteRecords ==
    ASSUME TypeInv, SeriesInv, FoundedInv, NEW e \in Executions, NEW s \in Slots,
           WritesSlot(e, s)
    PROVE  Promise!Record(s)
  <1>1. telemetry \in [Slots -> Optional(Document)]
    BY DEF TypeInv, TypeOK
  <1>2. Built(e) \in Document /\ Founded(Built(e))
    BY BuiltTyped, BuiltIsFounded
  <1>3. /\ AsEntry(Built(e)) \in Promise!Entry
        /\ AsEntry(Built(e)).level = Completeness(Built(e))
    BY <1>2, AnEntry
  <1>4. \/ Abstract[s] = NoValue
        \/ AsEntry(Built(e)).level > Abstract[s].level
    <2>1. CASE telemetry[s] = NoValue
      BY <2>1 DEF Abstract, AsEntry
    <2>2. CASE telemetry[s] # NoValue
      <3>1. telemetry[s] \in Document /\ Founded(telemetry[s])
        BY <1>1, <2>2 DEF Optional, FoundedInv
      <3>2. Abstract[s].level = Completeness(telemetry[s])
        BY <3>1, AnEntry DEF Abstract
      <3> QED
        BY <1>3, <2>2, <3>2 DEF WritesSlot, Supersedes
    <2> QED
      BY <2>1, <2>2
  <1>5. Abstract' = [Abstract EXCEPT ![s] = AsEntry(Built(e))]
    BY <1>1 DEF Abstract, WritesSlot
  <1> QED
    BY <1>3, <1>4, <1>5 DEF Promise!Record, Abstract

\* A patch is a Settle of what waits, or changes nothing of the abstract series.
LEMMA PatchSettlesOrStutters ==
    ASSUME TypeInv, SeriesInv, FoundedInv, NEW e \in Executions, NEW s \in Slots,
           PatchesSlot(e, s)
    PROVE  Promise!Settle(s) \/ UNCHANGED Abstract
  <1>1. telemetry \in [Slots -> Optional(Document)]
    BY DEF TypeInv, TypeOK
  <1>2. /\ telemetry[s] \in Document /\ telemetry[s] # NoValue
        /\ Founded(telemetry[s])
    BY <1>1 DEF PatchesSlot, Optional, FoundedInv
  <1>3. /\ AsEntry(telemetry[s]) =
              [level |-> Completeness(telemetry[s]), waits |-> Waits(telemetry[s])]
        /\ AsEntry(telemetry'[s]) =
              [level |-> Completeness(telemetry[s]), waits |-> FALSE]
    <2>1. Waits(telemetry'[s]) = FALSE
      BY PatchSettles DEF Waits
    <2> QED
      BY <1>2, <2>1, PatchSettles DEF AsEntry
  <1>4. Abstract' = [Abstract EXCEPT ![s] = AsEntry(telemetry'[s])]
    BY <1>1 DEF Abstract, PatchesSlot
  <1>5. /\ Abstract[s] # NoValue
        /\ Abstract[s].level = Completeness(telemetry[s])
        /\ Abstract[s].waits = Waits(telemetry[s])
    BY <1>2, AnEntry DEF Abstract
  <1>6. Abstract' = [Abstract EXCEPT ![s] = [level |-> Abstract[s].level, waits |-> FALSE]]
    BY <1>3, <1>4, <1>5
  <1>7. CASE Waits(telemetry[s])
    BY <1>5, <1>6, <1>7 DEF Promise!Settle, Abstract
  <1>8. CASE ~Waits(telemetry[s])
    <2>1. Waits(telemetry[s]) = FALSE
      BY <1>8 DEF Waits
    <2> QED
      BY <1>3, <1>4, <2>1 DEF Abstract
  <1> QED
    BY <1>7, <1>8

\* The cycles implement the abstract series: a slot only ever receives a better
\* observation, and one that was settled never waits again, for any number of
\* executions, overlapping in any order, with any failures.
THEOREM CyclesImplementSeries == Spec => ImplementsSeries
  <1>1. Init => Promise!SeriesInit
    BY DEF Init, Promise!SeriesInit, AsEntry
  <1>2. TypeInv /\ SeriesInv /\ FoundedInv /\ [Next]_vars
            => [Promise!SeriesNext]_Abstract
    <2> SUFFICES ASSUME TypeInv, SeriesInv, FoundedInv, [Next]_vars
                 PROVE  Promise!SeriesNext \/ UNCHANGED Abstract
      OBVIOUS
    <2>1. telemetry' = telemetry => UNCHANGED Abstract
      BY DEF Abstract
    <2> QED
      BY <2>1, WriteRecords, PatchSettlesOrStutters, StepsAndTheSeries
      DEF Promise!SeriesNext
  <1>3. Spec => Promise!SeriesInit /\ [][Promise!SeriesNext]_Abstract
    BY <1>1, <1>2, TypesAndPlaces, SeriesIsRight, FoundedAlways, PTL DEF Spec
  <1> QED
    BY <1>3, PTL DEF ImplementsSeries, Promise!SeriesSpec, Abstract
=============================================================================
