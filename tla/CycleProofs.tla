----------------------------- MODULE CycleProofs -----------------------------
(***************************************************************************)
(* Theorems about the polling cycle, for every number of executions, every *)
(* length of interval, day, lease and window, and every bound.             *)
(***************************************************************************)
EXTENDS CycleProperties, ObservationProofs

-----------------------------------------------------------------------------
(* Slots and days. *)

\* The slot and the day of an instant are among those the store is indexed by.
LEMMA InstantIsIndexed ==
    ASSUME NEW t \in Time
    PROVE  Slot(t) \in Slots /\ Day(t) \in Days
  <1>1. MaxTime \in Time /\ t <= MaxTime
    BY MaxTimeAssumption DEF Time
  <1> QED
    BY <1>1, IndicesFollowTime DEF Slots, Days

-----------------------------------------------------------------------------
(* Types. *)

\* What a place says about the locals there: a baseline, a queue item and a
\* total are there where the code uses them.
Placed(label, frame) ==
    /\ label \in {"total", "history", "enqueue"} => frame.previous # NoValue
    /\ label \in {"ask", "query", "load", "apply", "mark", "drop"} => frame.item # NoValue
    /\ label \in {"load", "apply", "mark"} => frame.total # NoValue

PlaceInv == \A e \in Executions : Placed(pc[e], cycle[e])

LocalsTyped ==
    /\ pc \in [Executions -> PC]
    /\ cycle \in [Executions -> Frame]
    /\ PlaceInv

TypeInv == TypeOK /\ PlaceInv

\* A new frame is a frame, and its results are failures of both requests.
LEMMA NewFrameTyped ==
    ASSUME NEW t \in Time
    PROVE  NewFrame(t) \in Frame
  <1>1. Failed("OTHER") \in EnergyResult /\ Failed("OTHER") \in StateResult
    BY DEF Failed, EnergyResult, StateResult, RequestResult, Optional, FailureClass
  <1> QED
    BY <1>1 DEF NewFrame, Frame, Optional

\* Whatever LG answers, what is read from it is a reading or nothing.
LEMMA ReadingTyped ==
    ASSUME NEW payload, NEW d
    PROVE  ExtractEnergyReading(payload, d) \in Optional(Reading)
  <1>1. \A record : RecordValue(record) \in Optional(Reading)
    BY DEF RecordValue, ToDecimal, Optional
  <1>2. NoValue \in Optional(Reading)
    BY DEF Optional
  <1>3. \/ \E record : ExtractEnergyReading(payload, d) = RecordValue(record)
        \/ ExtractEnergyReading(payload, d) = NoValue
    <2>1. payload.single = TRUE \/ ~payload.single
      OBVIOUS
    <2> QED
      BY <2>1 DEF ExtractEnergyReading
  <1> QED
    BY <1>1, <1>2, <1>3

\* The answers of the two requests are results of the right type.
LEMMA AnswersTyped ==
    ASSUME TypeOK, NEW d \in Days
    PROVE  /\ EnergyAnswers(d) \subseteq EnergyResult
           /\ StateAnswers \subseteq StateResult
           /\ TotalAnswers(d) \subseteq Optional(Reading)
  <1>1. Readings(d) \subseteq Optional(Reading)
    BY ReadingTyped DEF Readings
  <1>2. \A v \in Nat : v # NoValue
    BY NoValueAssumption
  <1>3. \A v \in Nat : Success(v) \in EnergyResult
    BY <1>2 DEF Success, EnergyResult, RequestResult, Optional, Reading
  <1>4. \A c \in FailureClass : Failed(c) \in EnergyResult /\ Failed(c) \in StateResult
    BY DEF Failed, EnergyResult, StateResult, RequestResult, Optional
  <1>5. Success(NoValue) \in StateResult
    BY DEF Success, StateResult, RequestResult, Optional
  <1> QED
    BY <1>1, <1>3, <1>4, <1>5, FailuresAssumption
    DEF EnergyAnswers, StateAnswers, TotalAnswers, Optional, Reading, FailureClass

\* The baseline of a slot, when there is one, is a reading of a stored document.
LEMMA PreviousReadingTyped ==
    ASSUME TypeOK, NEW slot
    PROVE  FindPreviousReading(slot) \in Optional(PreviousReading)
  <1>1. \A s \in Slots : telemetry[s] # NoValue =>
           AsPreviousReading(s, telemetry[s]) \in Optional(PreviousReading)
    <2> SUFFICES ASSUME NEW s \in Slots, telemetry[s] # NoValue
                 PROVE  AsPreviousReading(s, telemetry[s]) \in Optional(PreviousReading)
      OBVIOUS
    <2>1. telemetry[s] \in Document
      BY DEF TypeOK, Optional
    <2> QED
      BY <2>1 DEF AsPreviousReading, Document, PreviousReading, Optional, Slots
  <1>2. CASE Usable(slot) = {}
    BY <1>2 DEF FindPreviousReading, Optional
  <1>3. CASE Usable(slot) # {}
    <2> DEFINE newest == CHOOSE s \in Usable(slot) : \A u \in Usable(slot) : u <= s
    <2>1. Usable(slot) \subseteq Slots
      BY DEF Usable, Recent, Earlier
    <2>2. MaxTime \in Time
      BY MaxTimeAssumption DEF Time
    <2>3. \E s \in Usable(slot) : \A u \in Usable(slot) : u <= s
      BY <1>3, <2>1, <2>2, InstantIsIndexed, NewestExists DEF Slots
    <2> QED
      BY <1>1, <1>3, <2>1, <2>3 DEF FindPreviousReading, Usable, Recent, Earlier
  <1> QED
    BY <1>2, <1>3

\* A step that moves e and sets its locals keeps the types of both.
LEMMA MoveTyped ==
    ASSUME LocalsTyped, NEW e \in Executions, NEW label \in PC, NEW frame \in Frame,
           GoTo(e, label), Locals(e, frame), Placed(label, frame)
    PROVE  LocalsTyped'
  BY DEF LocalsTyped, GoTo, Locals, PlaceInv, Placed

\* So does a step that only moves e.
LEMMA GoTyped ==
    ASSUME LocalsTyped, NEW e \in Executions, NEW label \in PC,
           GoTo(e, label), UNCHANGED cycle, Placed(label, cycle[e])
    PROVE  LocalsTyped'
  BY DEF LocalsTyped, GoTo, PlaceInv, Placed

\* And the end of a cycle.
LEMMA ReturnTyped ==
    ASSUME TypeInv, NEW e \in Executions, Return(e)
    PROVE  LocalsTyped'
  <1>1. NewFrame(0) \in Frame
    BY NewFrameTyped, MaxTimeAssumption DEF Time
  <1>2. "idle" \in PC /\ Placed("idle", NewFrame(0))
    BY DEF PC, Placed
  <1> QED
    BY <1>1, <1>2, MoveTyped DEF Return, TypeInv, TypeOK, LocalsTyped

\* Every label of the code is one.
LEMMA Labels ==
    /\ Body \subseteq PC
    /\ {"idle", "acquire", "attempt", "request", "lookup", "total", "history",
        "write", "backoff", "enqueue", "pending", "next", "ask", "query", "load",
        "apply", "mark", "drop", "outcome", "error", "release"} = PC
  BY DEF PC, Running, Leased, Body

\* The locals of an execution, and what its place says of them.
LEMMA LocalsOf ==
    ASSUME TypeInv, NEW e \in Executions
    PROVE  /\ cycle[e] \in Frame
           /\ cycle[e].now \in Time
           /\ MySlot(e) \in Slots
           /\ Placed(pc[e], cycle[e])
           /\ pc[e] \in {"total", "history", "enqueue"} => PreviousDay(e) \in Days
           /\ pc[e] \in {"ask", "query", "load", "apply", "mark", "drop"} =>
                 cycle[e].item \in Item
           /\ pc[e] \in {"load", "apply", "mark"} => cycle[e].total \in Reading
  <1>1. cycle[e] \in Frame /\ Placed(pc[e], cycle[e])
    BY DEF TypeInv, TypeOK, PlaceInv
  <1>2. cycle[e].now \in Time
    BY <1>1 DEF Frame
  <1>3. MySlot(e) \in Slots
    BY <1>2, InstantIsIndexed DEF MySlot
  <1>4. ASSUME pc[e] \in {"total", "history", "enqueue"}
        PROVE  PreviousDay(e) \in Days
    <2>1. cycle[e].previous \in PreviousReading
      BY <1>1, <1>4 DEF Placed, Frame, Optional
    <2> QED
      BY <2>1, InstantIsIndexed DEF PreviousReading, PreviousDay
  <1>5. pc[e] \in {"ask", "query", "load", "apply", "mark", "drop"} => cycle[e].item \in Item
    BY <1>1 DEF Placed, Frame, Optional
  <1>6. pc[e] \in {"load", "apply", "mark"} => cycle[e].total \in Reading
    BY <1>1 DEF Placed, Frame, Optional
  <1> QED
    BY <1>1, <1>2, <1>3, <1>4, <1>5, <1>6

\* What a cycle would store is a document.
LEMMA BuiltTyped ==
    ASSUME TypeInv, NEW e \in Executions
    PROVE  Built(e) \in Document
  <1>1. cycle[e] \in Frame
    BY LocalsOf
  <1> QED
    BY <1>1, ObservationTyped DEF Built, Frame

\* An item of the queue, and what remains of the locals once it is handled.
LEMMA ItemsTyped ==
    ASSUME NEW c \in Frame, NEW i
    PROVE  /\ i \in c.todo => i \in Item /\ i # NoValue
           /\ Handled(c, i) \in Frame
           /\ Handled(c, i).previous = c.previous
  <1>1. c.todo \in SUBSET Item
    BY DEF Frame
  <1>2. Handled(c, i) \in Frame /\ Handled(c, i).previous = c.previous
    BY DEF Handled, Frame, Optional
  <1> QED
    BY <1>1, <1>2, NoItemAssumption

\* A finalized total, cached or not, leaves the cache typed.
LEMMA CacheTyped ==
    ASSUME TypeInv, NEW d \in Days, NEW total \in Optional(Reading),
           CacheTotal(d, total)
    PROVE  dailyTotals' \in [Days -> Optional(Reading)]
  BY DEF CacheTotal, TypeInv, TypeOK

\* A document that is updated stays typed.
LEMMA UpdateTyped ==
    ASSUME TypeInv, NEW s \in Slots, NEW doc,
           telemetry[s] \in Document => doc \in Document, UpdateDocument(s, doc)
    PROVE  telemetry' \in [Slots -> Optional(Document)]
  BY DEF UpdateDocument, TypeInv, TypeOK, Optional

\* The empty store and the idle executions have their types.
LEMMA TypeInit == Init => TypeInv
  <1> SUFFICES ASSUME Init PROVE TypeInv
    OBVIOUS
  <1>1. 0 \in Time
    BY MaxTimeAssumption DEF Time
  <1>2. cycle \in [Executions -> Frame]
    BY <1>1, NewFrameTyped DEF Init
  <1>3. TypeOK
    BY <1>1, <1>2 DEF Init, TypeOK, Optional, Health, PC
  <1> QED
    BY <1>3 DEF TypeInv, PlaceInv, Placed, Init

\* Every step of every execution, and the clock, keeps the types and the places.
LEMMA TypeStep == TypeInv /\ [Next]_vars => TypeInv'
  <1> SUFFICES ASSUME TypeInv, [Next]_vars
               PROVE  TypeInv'
    OBVIOUS
  <1>l. LocalsTyped
    BY DEF TypeInv, TypeOK, LocalsTyped
  <1>s. ASSUME UNCHANGED <<store, world>>, LocalsTyped'
        PROVE  TypeInv'
    BY <1>s DEF store, world, TypeInv, TypeOK, LocalsTyped
  <1>t. clock \in Time
    BY DEF TypeInv, TypeOK
  <1>1. ASSUME NEW e \in Executions, Start(e)
        PROVE  TypeInv'
    <2>1. "acquire" \in PC /\ Placed("acquire", NewFrame(clock))
      BY Labels DEF Placed
    <2> QED
      BY <1>1, <1>l, <1>s, <1>t, <2>1, NewFrameTyped, MoveTyped DEF Start
  <1>2. ASSUME NEW e \in Executions, AcquireLease(e)
        PROVE  TypeInv'
    <2>1. cycle[e].now + LeaseLength \in Nat
      BY LocalsOf, LeaseAssumption DEF Time
    <2>2. health' \in Health
      BY <1>2, <2>1 DEF AcquireLease, TypeInv, TypeOK, Health, Optional
    <2>3. LocalsTyped'
      BY <1>2, <1>l, Labels, GoTyped DEF AcquireLease, Placed
    <2> QED
      BY <1>2, <2>2, <2>3 DEF AcquireLease, world, TypeInv, TypeOK, LocalsTyped
  <1>3. ASSUME NEW e \in Executions, SkipForLease(e)
        PROVE  TypeInv'
    BY <1>3, <1>s, ReturnTyped DEF SkipForLease
  <1>4. ASSUME NEW e \in Executions, ReadHealth(e)
        PROVE  TypeInv'
    <2> DEFINE c == [cycle[e] EXCEPT
                        !.cooldown = /\ health.rateLimitedUntil # NoValue
                                     /\ health.rateLimitedUntil > cycle[e].now,
                        !.rateLimits = health.rateLimits]
    <2>1. c \in Frame
      <3>1. health.rateLimits \in Nat
        BY DEF TypeInv, TypeOK, Health
      <3> QED
        BY <3>1, LocalsOf DEF Frame
    <2>2. Locals(e, c) /\ GoTo(e, "request")
      BY <1>4 DEF ReadHealth
    <2> HIDE DEF c
    <2>3. LocalsTyped'
      BY <1>l, <2>1, <2>2, Labels, MoveTyped DEF Placed
    <2> QED
      BY <1>4, <1>s, <2>3 DEF ReadHealth
  <1>5. ASSUME NEW e \in Executions, CooldownRequests(e)
        PROVE  TypeInv'
    <2> DEFINE c == [cycle[e] EXCEPT !.energy = CooldownFailure,
                                     !.state = CooldownFailure]
    <2>1. CooldownFailure \in EnergyResult /\ CooldownFailure \in StateResult
      BY DEF CooldownFailure, Failed, EnergyResult, StateResult, RequestResult, Optional, FailureClass
    <2>2. c \in Frame
      BY <2>1, LocalsOf DEF Frame
    <2>3. Locals(e, c) /\ GoTo(e, "lookup")
      BY <1>5 DEF CooldownRequests
    <2> HIDE DEF c
    <2>4. LocalsTyped'
      BY <1>l, <2>2, <2>3, Labels, MoveTyped DEF Placed
    <2> QED
      BY <1>5, <1>s, <2>4 DEF CooldownRequests
  <1>6. ASSUME NEW e \in Executions, Requests(e)
        PROVE  TypeInv'
    <2>1. /\ EnergyAnswers(Day(cycle[e].now)) \subseteq EnergyResult
          /\ StateAnswers \subseteq StateResult
      BY LocalsOf, InstantIsIndexed, AnswersTyped DEF TypeInv
    <2>2. PICK energy \in EnergyResult, state \in StateResult :
             Locals(e, [cycle[e] EXCEPT !.energy = energy, !.state = state,
                                        !.requested = TRUE])
      BY <1>6, <2>1 DEF Requests
    <2>3. [cycle[e] EXCEPT !.energy = energy, !.state = state,
                           !.requested = TRUE] \in Frame
      BY LocalsOf DEF Frame
    <2>4. LocalsTyped'
      BY <1>6, <1>l, <2>2, <2>3, Labels, MoveTyped DEF Requests, Placed
    <2> QED
      BY <1>6, <2>4 DEF Requests, PutMetadata, world, TypeInv, TypeOK, LocalsTyped
  <1>7. ASSUME NEW e \in Executions, FindPrevious(e)
        PROVE  TypeInv'
    <2> DEFINE previous == FindPreviousReading(MySlot(e))
               c == [cycle[e] EXCEPT !.previous = previous,
                                     !.hasPrior = Earlier(MySlot(e)) # {}]
               next == IF /\ previous # NoValue
                          /\ DayGap(cycle[e].now, previous) = 1
                          /\ cycle[e].energy.ok
                       THEN "total" ELSE "write"
    <2>1. previous \in Optional(PreviousReading)
      BY PreviousReadingTyped DEF TypeInv
    <2>2. Locals(e, c) /\ GoTo(e, next)
      BY <1>7 DEF FindPrevious
    <2>3. next \in {"total", "write"} /\ (next = "total" => previous # NoValue)
      OBVIOUS
    <2> HIDE DEF previous, next
    <2>4. c \in Frame /\ c.previous = previous
      BY <2>1, LocalsOf DEF Frame
    <2> HIDE DEF c
    <2>5. LocalsTyped'
      BY <1>l, <2>2, <2>3, <2>4, Labels, MoveTyped DEF Placed
    <2> QED
      BY <1>7, <1>s, <2>5 DEF FindPrevious
  <1>8. ASSUME NEW e \in Executions, ReadCachedTotal(e)
        PROVE  TypeInv'
    <2> DEFINE c == [cycle[e] EXCEPT !.final = dailyTotals[PreviousDay(e)]]
               next == IF dailyTotals[PreviousDay(e)] # NoValue THEN "write" ELSE "history"
    <2>1. dailyTotals[PreviousDay(e)] \in Optional(Reading)
      BY <1>8, LocalsOf DEF ReadCachedTotal, At, TypeInv, TypeOK
    <2>2. c \in Frame /\ c.previous = cycle[e].previous
      BY <2>1, LocalsOf DEF Frame
    <2>3. next \in {"write", "history"}
      OBVIOUS
    <2>4. Locals(e, c) /\ GoTo(e, next)
      BY <1>8 DEF ReadCachedTotal
    <2>5. cycle[e].previous # NoValue
      BY <1>8, LocalsOf DEF ReadCachedTotal, At, Placed
    <2> HIDE DEF c, next
    <2>6. LocalsTyped'
      BY <1>l, <2>2, <2>3, <2>4, <2>5, Labels, MoveTyped DEF Placed
    <2> QED
      BY <1>8, <1>s, <2>6 DEF ReadCachedTotal
  <1>9. ASSUME NEW e \in Executions, RequestTotal(e)
        PROVE  TypeInv'
    <2>1. TotalAnswers(PreviousDay(e)) \subseteq Optional(Reading)
      BY <1>9, LocalsOf, AnswersTyped DEF RequestTotal, At, TypeInv
    <2>2. PICK total \in Optional(Reading) :
             /\ CacheTotal(PreviousDay(e), total)
             /\ Locals(e, [cycle[e] EXCEPT !.final = total, !.requested = TRUE])
      BY <1>9, <2>1 DEF RequestTotal
    <2>3. [cycle[e] EXCEPT !.final = total, !.requested = TRUE] \in Frame
      BY LocalsOf DEF Frame
    <2>4. LocalsTyped'
      BY <1>9, <1>l, <2>2, <2>3, Labels, MoveTyped DEF RequestTotal, Placed
    <2>5. dailyTotals' \in [Days -> Optional(Reading)]
      BY <1>9, <2>2, LocalsOf, CacheTyped DEF RequestTotal, At
    <2> QED
      BY <1>9, <2>4, <2>5 DEF RequestTotal, world, TypeInv, TypeOK, LocalsTyped
  <1>10. ASSUME NEW e \in Executions, WriteObservation(e)
         PROVE  TypeInv'
    <2>1. telemetry' \in [Slots -> Optional(Document)]
      BY <1>10, BuiltTyped DEF WriteObservation, TypeInv, TypeOK, Optional
    <2> DEFINE writes == Supersedes(Built(e), telemetry[MySlot(e)])
               c == [cycle[e] EXCEPT !.wrote = writes]
    <2>2. writes \in BOOLEAN
      BY DEF Supersedes
    <2>3. Locals(e, c) /\ GoTo(e, "backoff")
      BY <1>10 DEF WriteObservation
    <2> HIDE DEF writes
    <2>4. c \in Frame
      BY <2>2, LocalsOf DEF Frame
    <2> HIDE DEF c
    <2>5. LocalsTyped'
      BY <1>l, <2>3, <2>4, Labels, MoveTyped DEF Placed
    <2> QED
      BY <1>10, <2>1, <2>5 DEF WriteObservation, world, TypeInv, TypeOK, LocalsTyped
  <1>11. ASSUME NEW e \in Executions, Abandon(e)
         PROVE  TypeInv'
    BY <1>11, <1>l, <1>s, Labels, GoTyped DEF Abandon, Placed
  <1>12. ASSUME NEW e \in Executions, UpdateRateLimitState(e)
         PROVE  TypeInv'
    <2>1. \A n \in Nat : Cooldown(n) \in Nat
      BY CooldownAssumption DEF Cooldown, Capped
    <2>2. cycle[e].rateLimits \in Nat /\ cycle[e].now \in Nat
      BY LocalsOf DEF Frame, Time
    <2>3. cycle[e].now + Cooldown(cycle[e].rateLimits + 1) \in Nat
      BY <2>1, <2>2
    <2>4. health' \in Health
      <3> DEFINE until == cycle[e].now + Cooldown(cycle[e].rateLimits + 1)
                 count == cycle[e].rateLimits + 1
      <3>1. count \in Nat /\ until \in Optional(Nat) /\ health \in Health
        BY <2>2, <2>3 DEF TypeInv, TypeOK, Optional
      <3>2. \/ health' = [health EXCEPT !.rateLimits = count, !.rateLimitedUntil = until]
            \/ health' = [health EXCEPT !.rateLimits = 0, !.rateLimitedUntil = NoValue]
            \/ health' = health
        BY <1>12 DEF UpdateRateLimitState
      <3> HIDE DEF until, count
      <3>3. CASE health' = [health EXCEPT !.rateLimits = count, !.rateLimitedUntil = until]
        BY <3>1, <3>3 DEF Health
      <3>4. CASE health' = [health EXCEPT !.rateLimits = 0, !.rateLimitedUntil = NoValue]
        <4>1. NoValue \in Optional(Nat) /\ 0 \in Nat
          BY DEF Optional
        <4> QED
          BY <3>1, <3>4, <4>1 DEF Health
      <3> QED
        BY <3>1, <3>2, <3>3, <3>4
    <2>5. LocalsTyped'
      <3>1. CASE NeedsReconciliation(e)
        BY <1>12, <3>1, <1>l, Labels, GoTyped
        DEF UpdateRateLimitState, NeedsReconciliation, Placed
      <3>2. CASE ~NeedsReconciliation(e)
        BY <1>12, <3>2, <1>l, Labels, GoTyped DEF UpdateRateLimitState, Placed
      <3> QED
        BY <3>1, <3>2
    <2> QED
      BY <1>12, <2>4, <2>5
      DEF UpdateRateLimitState, world, TypeInv, TypeOK, LocalsTyped
  <1>13. ASSUME NEW e \in Executions, EnqueueReconciliation(e)
         PROVE  TypeInv'
    <2>1. PreviousDay(e) \in Days
      BY <1>13, LocalsOf DEF EnqueueReconciliation, At
    <2>2. [day |-> PreviousDay(e), at |-> cycle[e].now] \in QueueEntry
      BY <2>1, LocalsOf DEF QueueEntry
    <2>3. pending' \in [Slots -> Optional(QueueEntry)]
      BY <1>13, <2>2 DEF EnqueueReconciliation, TypeInv, TypeOK, Optional
    <2>4. LocalsTyped'
      BY <1>13, <1>l, Labels, GoTyped DEF EnqueueReconciliation, Placed
    <2> QED
      BY <1>13, <2>3, <2>4
      DEF EnqueueReconciliation, world, TypeInv, TypeOK, LocalsTyped
  <1>14. ASSUME NEW e \in Executions, ReadPending(e)
         PROVE  TypeInv'
    <2> DEFINE items == {[slot |-> s, day |-> pending[s].day, at |-> pending[s].at] :
                            s \in Queued}
    <2>1. \A s \in Queued : s \in Slots /\ pending[s] \in QueueEntry
      BY DEF Queued, TypeInv, TypeOK, Optional
    <2>2. items \in SUBSET Item
      BY <2>1 DEF Item, QueueEntry
    <2>3. Locals(e, [cycle[e] EXCEPT !.todo = items])
      BY <1>14 DEF ReadPending
    <2> HIDE DEF items
    <2>4. [cycle[e] EXCEPT !.todo = items] \in Frame
      BY <2>2, LocalsOf DEF Frame
    <2>5. LocalsTyped'
      BY <1>14, <1>l, <2>3, <2>4, Labels, MoveTyped DEF ReadPending, Placed
    <2> QED
      BY <1>14, <1>s, <2>5 DEF ReadPending
  <1>15. ASSUME NEW e \in Executions, ExpireItem(e)
         PROVE  TypeInv'
    <2>1. PICK i \in cycle[e].todo : Locals(e, [cycle[e] EXCEPT !.item = i])
      BY <1>15 DEF ExpireItem
    <2>2. i \in Item /\ i # NoValue
      BY LocalsOf, ItemsTyped
    <2> DEFINE c == [cycle[e] EXCEPT !.item = i]
    <2>3. c \in Frame /\ c.item = i
      BY <2>2, LocalsOf DEF Frame, Optional
    <2>4. Locals(e, c) /\ GoTo(e, "drop")
      BY <1>15, <2>1 DEF ExpireItem
    <2> HIDE DEF c
    <2>5. LocalsTyped'
      BY <1>l, <2>2, <2>3, <2>4, Labels, MoveTyped DEF Placed
    <2> QED
      BY <1>15, <1>s, <2>5 DEF ExpireItem
  <1>16. ASSUME NEW e \in Executions, TakeItem(e)
         PROVE  TypeInv'
    <2>1. PICK i \in cycle[e].todo :
             /\ Locals(e, [cycle[e] EXCEPT !.item = i, !.total = dailyTotals[i.day]])
             /\ GoTo(e, IF dailyTotals[i.day] # NoValue THEN "load" ELSE "ask")
      BY <1>16 DEF TakeItem
    <2>2. i \in Item /\ i # NoValue
      BY LocalsOf, ItemsTyped
    <2>3. dailyTotals[i.day] \in Optional(Reading)
      BY <2>2 DEF Item, TypeInv, TypeOK
    <2> DEFINE c == [cycle[e] EXCEPT !.item = i, !.total = dailyTotals[i.day]]
               next == IF dailyTotals[i.day] # NoValue THEN "load" ELSE "ask"
    <2>4. c \in Frame /\ c.item = i /\ c.total = dailyTotals[i.day]
      BY <2>2, <2>3, LocalsOf DEF Frame, Optional
    <2>5. next \in {"load", "ask"} /\ (next = "load" => dailyTotals[i.day] # NoValue)
      OBVIOUS
    <2> HIDE DEF c, next
    <2>6. LocalsTyped'
      BY <1>l, <2>1, <2>2, <2>4, <2>5, Labels, MoveTyped DEF Placed, c, next
    <2> QED
      BY <1>16, <1>s, <2>6 DEF TakeItem
  <1>17. ASSUME NEW e \in Executions, LeaveItem(e)
         PROVE  TypeInv'
    <2>1. PICK i : Locals(e, Handled(cycle[e], i))
      BY <1>17 DEF LeaveItem
    <2>2. Handled(cycle[e], i) \in Frame
      BY LocalsOf, ItemsTyped
    <2>3. GoTo(e, "next") /\ Placed("next", Handled(cycle[e], i))
      BY <1>17 DEF LeaveItem, IsNext, At, GoTo, Placed, TypeInv, TypeOK
    <2>4. LocalsTyped'
      BY <1>l, <2>1, <2>2, <2>3, Labels, MoveTyped
    <2> QED
      BY <1>17, <1>s, <2>4 DEF LeaveItem, store
  <1>18. ASSUME NEW e \in Executions, AskTotal(e)
         PROVE  TypeInv'
    <2>1. cycle[e].item \in Item
      BY <1>18, LocalsOf DEF AskTotal, At
    <2>2. cycle[e].item.day \in Days
      BY <2>1 DEF Item
    <2>3. TotalAnswers(cycle[e].item.day) \subseteq Optional(Reading)
      BY <2>2, AnswersTyped DEF TypeInv
    <2>4. PICK total \in Optional(Reading) :
             /\ CacheTotal(cycle[e].item.day, total)
             /\ LET c == [cycle[e] EXCEPT !.asked = TRUE, !.requested = TRUE,
                                          !.total = total]
                IN  Locals(e, IF total = NoValue THEN Handled(c, c.item) ELSE c)
             /\ GoTo(e, IF total = NoValue THEN "next" ELSE "load")
      BY <1>18, <2>3 DEF AskTotal
    <2> DEFINE c == [cycle[e] EXCEPT !.asked = TRUE, !.requested = TRUE,
                                     !.total = total]
    <2>5. c \in Frame /\ c.total = total /\ c.item = cycle[e].item
      BY LocalsOf DEF Frame
    <2>6. cycle[e].item # NoValue
      BY <2>1, NoItemAssumption
    <2>7. LocalsTyped'
      <3>1. CASE total = NoValue
        <4>1. Locals(e, Handled(c, c.item)) /\ GoTo(e, "next")
          BY <2>4, <3>1
        <4> HIDE DEF c
        <4>2. Handled(c, c.item) \in Frame
          BY <2>5, ItemsTyped
        <4> QED
          BY <1>l, <4>1, <4>2, Labels, MoveTyped DEF Placed
      <3>2. CASE total # NoValue
        <4>1. Locals(e, c) /\ GoTo(e, "load")
          BY <2>4, <3>2
        <4> HIDE DEF c
        <4> QED
          BY <1>l, <2>5, <2>6, <3>2, <4>1, Labels, MoveTyped DEF Placed
      <3> QED
        BY <3>1, <3>2
    <2>8. dailyTotals' \in [Days -> Optional(Reading)]
      BY <2>2, <2>4, CacheTyped
    <2> QED
      BY <1>18, <2>7, <2>8 DEF AskTotal, world, TypeInv, TypeOK, LocalsTyped
  <1>19. ASSUME NEW e \in Executions, FindTotal(e)
         PROVE  TypeInv'
    <2> DEFINE total == dailyTotals[cycle[e].item.day]
               c == [cycle[e] EXCEPT !.total = total]
               next == IF total # NoValue THEN "load" ELSE "query"
    <2>1. cycle[e].item \in Item
      BY <1>19, LocalsOf DEF FindTotal, At
    <2>2. total \in Optional(Reading)
      BY <2>1 DEF Item, TypeInv, TypeOK
    <2>3. c \in Frame /\ c.item = cycle[e].item /\ c.total = total
      BY <2>2, LocalsOf DEF Frame
    <2>4. next \in {"load", "query"} /\ (next = "load" => total # NoValue)
      OBVIOUS
    <2>5. Locals(e, c) /\ GoTo(e, next)
      BY <1>19 DEF FindTotal
    <2> HIDE DEF c, next
    <2>6. LocalsTyped'
      BY <1>l, <2>1, <2>3, <2>4, <2>5, NoItemAssumption, Labels, MoveTyped DEF Placed
    <2> QED
      BY <1>19, <1>s, <2>6 DEF FindTotal
  <1>20. ASSUME NEW e \in Executions, LoadObservation(e)
         PROVE  TypeInv'
    <2>1. Placed("load", cycle[e])
      BY <1>20, LocalsOf DEF LoadObservation, At
    <2>2. ASSUME NEW label \in {"drop", "mark"}, GoTo(e, label), UNCHANGED cycle
          PROVE  LocalsTyped'
      BY <1>l, <2>1, <2>2, Labels, GoTyped DEF Placed
    <2>3. ASSUME NEW interval \in Int, GoTo(e, "apply"),
                 Locals(e, [cycle[e] EXCEPT !.interval = interval])
          PROVE  LocalsTyped'
      <3> DEFINE c == [cycle[e] EXCEPT !.interval = interval]
      <3>1. c \in Frame /\ c.item = cycle[e].item /\ c.total = cycle[e].total
        BY LocalsOf DEF Frame, Optional
      <3> HIDE DEF c
      <3> QED
        BY <1>l, <2>1, <2>3, <3>1, Labels, MoveTyped DEF Placed, c
    <2> DEFINE stored == telemetry[cycle[e].item.slot]
    <2>4. ASSUME stored # NoValue, stored.value # NoValue, stored.previous # NoValue
          PROVE  LocalsTyped'
      <3>1. cycle[e].item \in Item /\ cycle[e].total \in Nat
        BY <1>20, LocalsOf DEF LoadObservation, At, Reading
      <3>2. stored \in Document
        BY <3>1, <2>4 DEF Item, TypeInv, TypeOK, Optional
      <3>3. stored.value \in Nat /\ stored.previous \in PreviousReading
        BY <3>2, <2>4 DEF Document, Optional, Reading
      <3>4. ReconciledInterval(stored, cycle[e].total) \in Int
        BY <3>1, <3>3 DEF ReconciledInterval, Reconstruct, PreviousReading, Reading
      <3> QED
        BY <1>20, <2>2, <2>3, <2>4, <3>4 DEF LoadObservation
    <2>5. ASSUME ~ /\ stored # NoValue
                   /\ stored.value # NoValue
                   /\ stored.previous # NoValue
          PROVE  LocalsTyped'
      BY <1>20, <2>2, <2>5 DEF LoadObservation
    <2> QED
      BY <1>20, <1>s, <2>4, <2>5 DEF LoadObservation
  <1>21. ASSUME NEW e \in Executions, ApplyReconciliation(e)
         PROVE  TypeInv'
    <2>1. /\ cycle[e].item.slot \in Slots
          /\ cycle[e].total \in Reading
          /\ cycle[e].interval \in Optional(Int)
          /\ Placed("drop", cycle[e])
      BY <1>21, LocalsOf DEF ApplyReconciliation, At, Item, Frame, Placed
    <2>2. \A doc \in Document :
             Patched(doc, cycle[e].interval, cycle[e].total) \in Document
      BY <2>1 DEF Patched, Document, Optional, IntervalStatus, QualityFlag
    <2>3. telemetry' \in [Slots -> Optional(Document)]
      BY <1>21, <2>1, <2>2, UpdateTyped DEF ApplyReconciliation
    <2>4. LocalsTyped'
      BY <1>21, <1>l, <2>1, Labels, GoTyped DEF ApplyReconciliation
    <2> QED
      BY <1>21, <2>3, <2>4
      DEF ApplyReconciliation, world, TypeInv, TypeOK, LocalsTyped
  <1>22. ASSUME NEW e \in Executions, MarkImplausible(e)
         PROVE  TypeInv'
    <2>1. /\ cycle[e].item.slot \in Slots
          /\ cycle[e].total \in Reading
          /\ Placed("drop", cycle[e])
      BY <1>22, LocalsOf DEF MarkImplausible, At, Item, Placed
    <2>2. \A doc \in Document : MarkedImplausible(doc, cycle[e].total) \in Document
      BY <2>1 DEF MarkedImplausible, Document, Optional, QualityFlag
    <2>3. telemetry' \in [Slots -> Optional(Document)]
      BY <1>22, <2>1, <2>2, UpdateTyped DEF MarkImplausible
    <2>4. LocalsTyped'
      BY <1>22, <1>l, <2>1, Labels, GoTyped DEF MarkImplausible
    <2> QED
      BY <1>22, <2>3, <2>4
      DEF MarkImplausible, world, TypeInv, TypeOK, LocalsTyped
  <1>23. ASSUME NEW e \in Executions, DequeueReconciliation(e)
         PROVE  TypeInv'
    <2>1. pending' \in [Slots -> Optional(QueueEntry)]
      BY <1>23 DEF DequeueReconciliation, TypeInv, TypeOK, Optional
    <2>2. Handled(cycle[e], cycle[e].item) \in Frame
      BY LocalsOf, ItemsTyped
    <2>3. LocalsTyped'
      BY <1>23, <1>l, <2>2, Labels, MoveTyped DEF DequeueReconciliation, Placed
    <2> QED
      BY <1>23, <2>1, <2>3
      DEF DequeueReconciliation, world, TypeInv, TypeOK, LocalsTyped
  <1>24. ASSUME NEW e \in Executions, QueueDone(e)
         PROVE  TypeInv'
    BY <1>24, <1>l, <1>s, Labels, GoTyped DEF QueueDone, Placed
  <1>25. ASSUME NEW e \in Executions, RecordOutcome(e) \/ RecordError(e)
         PROVE  TypeInv'
    <2>1. health' \in Health
      BY <1>25 DEF RecordOutcome, RecordError, TypeInv, TypeOK, Health
    <2>2. LocalsTyped'
      BY <1>25, <1>l, Labels, GoTyped DEF RecordOutcome, RecordError, Placed
    <2> QED
      BY <1>25, <2>1, <2>2
      DEF RecordOutcome, RecordError, world, TypeInv, TypeOK, LocalsTyped
  <1>26. ASSUME NEW e \in Executions, Raise(e)
         PROVE  TypeInv'
    BY <1>26, <1>l, <1>s, Labels, GoTyped DEF Raise, Placed
  <1>27. ASSUME NEW e \in Executions, StoreFails(e)
         PROVE  TypeInv'
    <2>1. CASE Return(e)
      BY <1>27, <1>s, <2>1, ReturnTyped DEF StoreFails
    <2>2. CASE GoTo(e, "release") /\ UNCHANGED cycle
      BY <1>27, <1>l, <1>s, <2>2, Labels, GoTyped DEF StoreFails, Placed
    <2> QED
      BY <1>27, <2>1, <2>2 DEF StoreFails
  <1>28. ASSUME NEW e \in Executions, ReleaseLease(e)
         PROVE  TypeInv'
    <2>1. health' \in Health
      BY <1>28 DEF ReleaseLease, TypeInv, TypeOK, Health, Optional
    <2>2. LocalsTyped'
      BY <1>28, ReturnTyped DEF ReleaseLease
    <2> QED
      BY <1>28, <2>1, <2>2 DEF ReleaseLease, world, TypeInv, TypeOK, LocalsTyped
  <1>29. ASSUME NEW e \in Executions, Crash(e)
         PROVE  TypeInv'
    BY <1>29, <1>s, ReturnTyped DEF Crash
  <1>30. ASSUME Tick
         PROVE  TypeInv'
    <2>1. clock' \in Time
      BY <1>30, MaxTimeAssumption DEF Tick, TypeInv, TypeOK, Time
    <2>2. used' \in [Days -> Nat]
      <3>1. PICK n \in Uses : used' = [used EXCEPT ![Day(clock)] = @ + n]
        BY <1>30 DEF Tick
      <3>2. n \in Nat /\ Day(clock) \in Days /\ used \in [Days -> Nat]
        BY <1>t, InstantIsIndexed, BoundsAssumption DEF TypeInv, TypeOK
      <3>3. used[Day(clock)] + n \in Nat
        BY <3>2
      <3> QED
        BY <3>1, <3>2, <3>3
    <2> QED
      BY <1>30, <2>1, <2>2 DEF Tick, store, TypeInv, TypeOK, PlaceInv
  <1>31. ASSUME NEW e \in Executions, ProfileFails(e)
         PROVE  TypeInv'
    <2>1. [cycle[e] EXCEPT !.requested = TRUE] \in Frame
      BY LocalsOf DEF Frame
    <2>2. LocalsTyped'
      BY <1>31, <1>l, <2>1, Labels, MoveTyped DEF ProfileFails, Placed
    <2> QED
      BY <1>31, <1>s, <2>2 DEF ProfileFails
  <1>32. CASE UNCHANGED vars
    BY <1>32 DEF vars, store, world, TypeInv, TypeOK, PlaceInv
  <1> QED
    BY <1>1, <1>2, <1>3, <1>4, <1>5, <1>6, <1>7, <1>8, <1>9, <1>10, <1>11,
       <1>12, <1>13, <1>14, <1>15, <1>16, <1>17, <1>18, <1>19, <1>20, <1>21,
       <1>22, <1>23, <1>24, <1>25, <1>26, <1>27, <1>28, <1>29, <1>30, <1>31, <1>32
    DEF Next, Step

\* In every reachable state the store and the locals are typed, and a baseline,
\* a queue item or a total is there wherever the code uses one.
THEOREM TypesAndPlaces == Spec => []TypeInv
  <1> QED
    BY TypeInit, TypeStep, PTL DEF Spec

\* Types: whatever the interleaving, every stored document, queue entry, cached
\* total and local of the cycle has its type.
THEOREM TypeCorrect == Spec => []TypeOK
  <1>1. TypeInv => TypeOK
    BY DEF TypeInv
  <1> QED
    BY <1>1, TypesAndPlaces, PTL

-----------------------------------------------------------------------------
(* The lease. *)


\* A running execution goes on, or returns, without touching the lease.
Proceeds(e) ==
    /\ pc[e] \in Running
    /\ \E label \in Leased \union {"idle"} :
          /\ GoTo(e, label)
          /\ label \in Leased => pc[e] \in Leased /\ cycle'[e].now = cycle[e].now
    /\ \A f \in Executions \ {e} : cycle'[f] = cycle[f]
    /\ health'.leaseUntil = health.leaseUntil
    /\ health'.leaseHolder = health.leaseHolder
    /\ UNCHANGED clock

\* A step that only moves e, from one place to another of the body, proceeds.
LEMMA GoProceeds ==
    ASSUME TypeInv, NEW e \in Executions, pc[e] \in Leased, NEW label \in Leased,
           GoTo(e, label), UNCHANGED <<cycle, health, clock>>
    PROVE  Proceeds(e)
  BY DEF Proceeds, Running

\* So does one that sets its locals but not its `now`.
LEMMA MoveProceeds ==
    ASSUME TypeInv, NEW e \in Executions, pc[e] \in Leased, NEW label \in Leased,
           NEW frame, frame.now = cycle[e].now,
           GoTo(e, label), Locals(e, frame), UNCHANGED <<health, clock>>
    PROVE  Proceeds(e)
  BY DEF Proceeds, Running, Locals, TypeInv, TypeOK

\* And so does the end of a cycle that leaves the lease where it is.
LEMMA ReturnProceeds ==
    ASSUME TypeInv, NEW e \in Executions, pc[e] \in Running, Return(e),
           UNCHANGED <<health, clock>>
    PROVE  Proceeds(e)
  BY DEF Proceeds, Return, Locals, TypeInv, TypeOK, Leased, Body

\* Every other step of an execution than its start, its acquisition and its
\* release of the lease lets it proceed.
LEMMA StepProceeds ==
    ASSUME TypeInv, NEW e \in Executions,
           \/ Step(e) \/ Abandon(e) \/ Raise(e) \/ StoreFails(e) \/ Crash(e),
           ~AcquireLease(e), ~ReleaseLease(e)
    PROVE  Proceeds(e)
  <1> USE DEF At, store, world
  <1>h. health \in Health
    BY DEF TypeInv, TypeOK
  <1>p. ASSUME pc[e] \in Leased, NEW label \in Leased,
               GoTo(e, label), UNCHANGED <<cycle, clock>>,
               health'.leaseUntil = health.leaseUntil,
               health'.leaseHolder = health.leaseHolder
        PROVE  Proceeds(e)
    BY <1>p DEF Proceeds, Running
  <1>l. Body \subseteq Leased /\ {"error", "release"} \subseteq Leased
    BY DEF Leased
  <1>f. cycle[e] \in Frame
    BY LocalsOf
  <1>1. CASE SkipForLease(e)
    BY <1>1, ReturnProceeds DEF SkipForLease, Running
  <1>2. CASE ReadHealth(e)
    BY <1>2, <1>f, MoveProceeds DEF ReadHealth, Leased, Body, Frame
  <1>3. CASE CooldownRequests(e)
    BY <1>3, <1>f, MoveProceeds DEF CooldownRequests, Leased, Body, Frame
  <1>4. CASE Requests(e)
    BY <1>4, <1>f, MoveProceeds DEF Requests, Leased, Body, Frame
  <1>5. CASE FindPrevious(e)
    BY <1>5, <1>f, MoveProceeds DEF FindPrevious, Leased, Body, Frame
  <1>6. CASE ReadCachedTotal(e)
    BY <1>6, <1>f, MoveProceeds DEF ReadCachedTotal, Leased, Body, Frame
  <1>7. CASE RequestTotal(e)
    BY <1>7, <1>f, MoveProceeds DEF RequestTotal, Leased, Body, Frame
  <1>8. CASE WriteObservation(e)
    BY <1>8, <1>f, MoveProceeds DEF WriteObservation, Leased, Body, Frame
  <1>27. CASE ProfileFails(e)
    BY <1>27, <1>f, MoveProceeds DEF ProfileFails, Leased, Body, Frame
  <1>9. CASE UpdateRateLimitState(e)
    <2>1. /\ health'.leaseUntil = health.leaseUntil
          /\ health'.leaseHolder = health.leaseHolder
      BY <1>9, <1>h DEF UpdateRateLimitState, Health
    <2>2. \E label \in {"enqueue", "pending"} : GoTo(e, label)
      BY <1>9 DEF UpdateRateLimitState
    <2> QED
      BY <1>9, <1>p, <2>1, <2>2 DEF UpdateRateLimitState, Leased, Body
  <1>10. CASE EnqueueReconciliation(e)
    BY <1>10, GoProceeds DEF EnqueueReconciliation, Leased, Body
  <1>11. CASE ReadPending(e)
    BY <1>11, <1>f, MoveProceeds DEF ReadPending, Leased, Body, Frame
  <1>12. CASE ExpireItem(e)
    BY <1>12, <1>f, MoveProceeds DEF ExpireItem, IsNext, Leased, Body, Frame
  <1>13. CASE TakeItem(e)
    BY <1>13, <1>f, MoveProceeds DEF TakeItem, IsNext, Leased, Body, Frame
  <1>14. CASE LeaveItem(e)
    <2>1. PICK i : Locals(e, Handled(cycle[e], i))
      BY <1>14 DEF LeaveItem
    <2>2. Handled(cycle[e], i).now = cycle[e].now
      BY <1>f DEF Handled, Frame
    <2>3. GoTo(e, "next") /\ pc[e] = "next"
      BY <1>14 DEF LeaveItem, IsNext, GoTo, TypeInv, TypeOK
    <2> QED
      BY <1>14, <2>1, <2>2, <2>3, MoveProceeds DEF LeaveItem, Leased, Body
  <1>15. CASE FindTotal(e)
    BY <1>15, <1>f, MoveProceeds DEF FindTotal, Leased, Body, Frame
  <1>16. CASE AskTotal(e)
    <2>1. PICK total :
            /\ LET c == [cycle[e] EXCEPT !.asked = TRUE, !.requested = TRUE,
                                         !.total = total]
               IN  Locals(e, IF total = NoValue THEN Handled(c, c.item) ELSE c)
            /\ GoTo(e, IF total = NoValue THEN "next" ELSE "load")
      BY <1>16 DEF AskTotal
    <2> DEFINE c == [cycle[e] EXCEPT !.asked = TRUE, !.requested = TRUE,
                                     !.total = total]
               frame == IF total = NoValue THEN Handled(c, c.item) ELSE c
    <2>2. frame.now = cycle[e].now
      BY <1>f DEF Handled, Frame
    <2>3. Locals(e, frame)
      BY <2>1
    <2> HIDE DEF c, frame
    <2> QED
      BY <1>16, <2>1, <2>2, <2>3, MoveProceeds DEF AskTotal, Leased, Body
  <1>17. CASE LoadObservation(e)
    <2>1. CASE UNCHANGED cycle
      BY <1>17, <2>1, GoProceeds DEF LoadObservation, Leased, Body
    <2>2. CASE /\ GoTo(e, "apply")
               /\ \E n : Locals(e, [cycle[e] EXCEPT !.interval = n])
      BY <1>17, <1>f, <2>2, MoveProceeds DEF LoadObservation, Leased, Body, Frame
    <2> QED
      BY <1>17, <2>1, <2>2 DEF LoadObservation
  <1>18. CASE ApplyReconciliation(e)
    BY <1>18, GoProceeds DEF ApplyReconciliation, Leased, Body
  <1>19. CASE MarkImplausible(e)
    BY <1>19, GoProceeds DEF MarkImplausible, Leased, Body
  <1>20. CASE DequeueReconciliation(e)
    BY <1>20, <1>f, MoveProceeds DEF DequeueReconciliation, Handled, Leased, Body, Frame
  <1>21. CASE QueueDone(e)
    BY <1>21, GoProceeds DEF QueueDone, Leased, Body
  <1>22. CASE RecordOutcome(e) \/ RecordError(e)
    BY <1>22, <1>h, <1>p DEF RecordOutcome, RecordError, Leased, Body, Health
  <1>23. CASE Abandon(e)
    BY <1>23, GoProceeds DEF Abandon, Leased, Body
  <1>24. CASE Raise(e)
    BY <1>24, GoProceeds DEF Raise, Leased
  <1>25. CASE StoreFails(e)
    <2>1. CASE Return(e)
      BY <1>25, <2>1, ReturnProceeds DEF StoreFails, Running, Leased
    <2>2. CASE At(e, "error") /\ GoTo(e, "release") /\ UNCHANGED cycle
      BY <1>25, <1>l, <2>2, GoProceeds DEF StoreFails
    <2> QED
      BY <1>25, <2>1, <2>2 DEF StoreFails
  <1>26. CASE Crash(e)
    BY <1>26, ReturnProceeds DEF Crash
  <1> QED
    BY <1>1, <1>2, <1>3, <1>4, <1>5, <1>6, <1>7, <1>8, <1>9, <1>10, <1>11,
       <1>12, <1>13, <1>14, <1>15, <1>16, <1>17, <1>18, <1>19, <1>20, <1>21,
       <1>22, <1>23, <1>24, <1>25, <1>26, <1>27
    DEF Step

\* Every step of the system starts a cycle, takes or gives up the lease, lets
\* an execution proceed, or lets time pass.
LEMMA StepsAndTheLease ==
    ASSUME TypeInv, Next
    PROVE  \/ \E e \in Executions :
                 Start(e) \/ AcquireLease(e) \/ ReleaseLease(e) \/ Proceeds(e)
           \/ Tick
  BY StepProceeds DEF Next

-----------------------------------------------------------------------------
(* Mutual exclusion, of executions that end within their lease. *)

\* A running execution is inside the lease it asks for or has; whoever is past
\* acquire_lease is the recorded holder, until the end its `now` gives.
LeaseInv ==
    \A e \in Executions :
        /\ pc[e] \in Running =>
             cycle[e].now <= clock /\ clock < cycle[e].now + LeaseLength
        /\ pc[e] \in Leased =>
             health.leaseHolder = e /\ health.leaseUntil = cycle[e].now + LeaseLength

\* At first nobody is leased and the lease is free.
LEMMA LeaseInit == Init => LeaseInv
  BY DEF Init, LeaseInv, Running, Leased, Body

\* No step lets a second execution in while a leased one still runs.
LEMMA LeaseStep ==
    ASSUME MayOutlive = FALSE
    PROVE  TypeInv /\ LeaseInv /\ [Next]_vars => LeaseInv'
  <1> SUFFICES ASSUME TypeInv, LeaseInv, [Next]_vars
               PROVE  LeaseInv'
    OBVIOUS
  <1>n. \A e \in Executions : cycle[e].now \in Nat
    BY LocalsOf DEF Time
  <1>c. clock \in Nat
    BY DEF TypeInv, TypeOK, Time
  <1>h. health \in Health
    BY DEF TypeInv, TypeOK
  <1>m. \A e, f \in Executions : pc[e] \in Leased /\ pc[f] \in Leased => e = f
    BY DEF LeaseInv
  <1>r. \A label \in Leased : label \in Running
    BY DEF Running
  <1>1. ASSUME NEW e \in Executions, Start(e)
        PROVE  LeaseInv'
    <2>1. cycle'[e].now = clock /\ pc'[e] \notin Leased
      BY <1>1 DEF Start, GoTo, Locals, NewFrame, TypeInv, TypeOK, Leased, Body
    <2>2. \A f \in Executions \ {e} : cycle'[f] = cycle[f] /\ pc'[f] = pc[f]
      BY <1>1 DEF Start, GoTo, Locals, TypeInv, TypeOK
    <2>3. clock' = clock /\ health' = health
      BY <1>1 DEF Start, store, world
    <2> QED
      BY <1>c, <2>1, <2>2, <2>3, LeaseAssumption DEF LeaseInv
  <1>2. ASSUME NEW e \in Executions, AcquireLease(e)
        PROVE  LeaseInv'
    <2>1. ASSUME NEW f \in Executions, pc[f] \in Leased
          PROVE  FALSE
      <3>1. health.leaseUntil = cycle[f].now + LeaseLength /\ cycle[e].now <= clock
        BY <1>2, <2>1 DEF LeaseInv, AcquireLease, At, Running
      <3>2. clock < health.leaseUntil
        BY <1>r, <2>1, <3>1 DEF LeaseInv
      <3>3. health.leaseUntil \in Nat /\ health.leaseUntil # NoValue
        BY <1>n, <3>1, LeaseAssumption, NoValueAssumption
      <3>4. health.leaseUntil > cycle[e].now
        BY <1>c, <1>n, <3>1, <3>2, <3>3
      <3> QED
        BY <1>2, <3>3, <3>4 DEF AcquireLease, HeldAt
    <2>2. /\ health'.leaseHolder = e
          /\ health'.leaseUntil = cycle[e].now + LeaseLength
      BY <1>2, <1>h DEF AcquireLease, Health
    <2>3. /\ \A f \in Executions \ {e} : pc'[f] = pc[f]
          /\ pc[e] \in Running
          /\ cycle' = cycle /\ clock' = clock
      BY <1>2 DEF AcquireLease, At, GoTo, Running, world, TypeInv, TypeOK
    <2> QED
      BY <2>1, <2>2, <2>3 DEF LeaseInv
  <1>3. ASSUME NEW e \in Executions, ReleaseLease(e)
        PROVE  LeaseInv'
    <2>1. pc[e] \in Leased
      BY <1>3 DEF ReleaseLease, At, Leased
    <2>2. \A f \in Executions \ {e} : cycle'[f] = cycle[f] /\ pc'[f] = pc[f]
      BY <1>3 DEF ReleaseLease, Return, GoTo, Locals, TypeInv, TypeOK
    <2>3. pc'[e] \notin Running /\ pc'[e] \notin Leased /\ clock' = clock
      BY <1>3
      DEF ReleaseLease, Return, GoTo, TypeInv, TypeOK, Running, Leased, Body, world
    <2> QED
      BY <1>m, <2>1, <2>2, <2>3 DEF LeaseInv
  <1>4. ASSUME NEW e \in Executions, Proceeds(e)
        PROVE  LeaseInv'
    <2>1. PICK label \in Leased \union {"idle"} :
             /\ GoTo(e, label)
             /\ label \in Leased => pc[e] \in Leased /\ cycle'[e].now = cycle[e].now
      BY <1>4 DEF Proceeds
    <2>2. /\ pc'[e] = label
          /\ \A f \in Executions \ {e} : cycle'[f] = cycle[f] /\ pc'[f] = pc[f]
      BY <1>4, <2>1 DEF Proceeds, GoTo, TypeInv, TypeOK
    <2>3. "idle" \notin Running /\ "idle" \notin Leased
      BY DEF Running, Leased, Body
    <2> QED
      BY <1>4, <1>r, <2>1, <2>2, <2>3 DEF Proceeds, LeaseInv
  <1>5. ASSUME Tick
        PROVE  LeaseInv'
    <2>1. /\ clock' = clock + 1
          /\ pc' = pc /\ cycle' = cycle /\ health' = health
          /\ WithinLease
      BY <1>5 DEF Tick, store
    <2> QED
      BY <1>c, <1>n, <2>1, LeaseAssumption DEF WithinLease, LeaseInv
  <1>6. CASE UNCHANGED vars
    BY <1>6 DEF vars, store, world, LeaseInv
  <1> QED
    BY <1>1, <1>2, <1>3, <1>4, <1>5, <1>6, StepsAndTheLease

\* As long as every cycle ends before its lease does, at most one execution is
\* past acquire_lease, however starts, crashes, failed releases and acquisitions
\* interleave, and however late an execution asks.
THEOREM LeaseExcludes ==
    ASSUME MayOutlive = FALSE
    PROVE  Spec => []MutualExclusion
  <1>1. LeaseInv => MutualExclusion
    BY DEF LeaseInv, MutualExclusion
  <1> QED
    BY <1>1, LeaseInit, LeaseStep, TypesAndPlaces, PTL DEF Spec

-----------------------------------------------------------------------------
(* Release, whether or not executions outlive their lease. *)

\* A lease in force ends, other than by expiring, only by the release of the
\* execution that holds it: a straggler never gives up its successor's.
THEOREM HolderReleases == Spec => OnlyTheHolderReleases
  <1> DEFINE GivesUp(e) == /\ health.leaseHolder = e
                           /\ health.leaseUntil # NoValue
                           /\ health'.leaseUntil = NoValue
             OnlyOwn == \A e \in Executions : GivesUp(e) => pc[e] = "release"
  <1>1. TypeInv /\ [Next]_vars => OnlyOwn
    <2> SUFFICES ASSUME TypeInv, [Next]_vars, NEW e \in Executions, GivesUp(e)
                 PROVE  pc[e] = "release"
      OBVIOUS
    <2>1. ASSUME NEW f \in Executions, AcquireLease(f)
          PROVE  FALSE
      <3>1. health'.leaseUntil = cycle[f].now + LeaseLength
        BY <2>1 DEF AcquireLease, TypeInv, TypeOK, Health
      <3>2. cycle[f].now + LeaseLength \in Int
        BY LocalsOf, LeaseAssumption DEF Time
      <3> QED
        BY <3>1, <3>2, NoValueAssumption
    <2>2. ASSUME NEW f \in Executions, ReleaseLease(f)
          PROVE  pc[e] = "release"
      BY <2>2 DEF ReleaseLease, At
    <2>3. ASSUME \/ \E f \in Executions : Start(f) \/ Proceeds(f)
                 \/ Tick
                 \/ UNCHANGED vars
          PROVE  FALSE
      BY <2>3 DEF Start, Proceeds, Tick, vars, store
    <2> QED
      BY <2>1, <2>2, <2>3, StepsAndTheLease
  <1>2. Spec => [][OnlyOwn]_vars
    BY <1>1, TypesAndPlaces, PTL DEF Spec
  <1> QED
    BY <1>2 DEF OnlyTheHolderReleases
=============================================================================
