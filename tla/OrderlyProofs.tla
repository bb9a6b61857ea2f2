----------------------------- MODULE OrderlyProofs -----------------------------
(***************************************************************************)
(* What the lease buys.  As long as cycles take the lease within the slot  *)
(* they start in, and end before the lease does, slots are written in      *)
(* their order: the intervals tile, and the queue names the day each       *)
(* sample waits for.  If, besides, no midnight falls inside a slot, every  *)
(* interval follows from the raw values, stays, and is what an honest      *)
(* counter saw consumed.                                                   *)
(***************************************************************************)
EXTENDS SeriesProofs, FiniteSetTheorems

\* The baseline that a lookup for each slot finds now.
BaseOf == [s \in Slots |-> FindPreviousReading(s)]

\* A stored document was observed in the past, is a baseline if it has energy,
\* and its own baseline is the one that a lookup would find again.
WellBased(s) ==
    telemetry[s] # NoValue =>
        /\ telemetry[s].at <= clock
        /\ telemetry[s].energyOk <=> telemetry[s].value # NoValue
        /\ telemetry[s].previous = BaseOf[s]

\* No midnight falls inside a slot: the interval divides the day.
WholeSlots == \A t, u \in Time : Slot(t) = Slot(u) => Day(t) = Day(u)

\* A queued slot waits for the total of the day of its baseline, the day before.
Settleable(s) ==
    pending[s] # NoValue =>
        /\ telemetry[s] # NoValue
        /\ telemetry[s].energyOk
        /\ telemetry[s].previous # NoValue
        /\ Day(telemetry[s].previous.at) = pending[s].day
        /\ WholeSlots => DayGap(telemetry[s].at, telemetry[s].previous) = 1

\* The item that the loop reads of a queued slot.
Entry(s) == [slot |-> s, day |-> pending[s].day, at |-> pending[s].at]

Handling == {"ask", "query", "load", "apply", "mark", "drop"}
Looping == Handling \union {"next", "outcome"}

\* Nobody asks for the lease of a slot that is over.
OnTime(e) == pc[e] = "acquire" => MySlot(e) = Slot(clock)

\* No slot after that of a leased execution is stored.
Latest(e) ==
    pc[e] \in Leased => \A s \in Slots : telemetry[s] # NoValue => s <= MySlot(e)

\* The baseline a leased execution has found is still the one to be found.
Grounded(e) ==
    pc[e] \in {"total", "history", "write", "backoff", "enqueue"} =>
        cycle[e].previous = BaseOf[MySlot(e)]

\* After the write the slot is stored, with energy if the cycle had any.
Written(e) ==
    /\ pc[e] \in {"backoff", "enqueue"} =>
          /\ telemetry[MySlot(e)] # NoValue
          /\ cycle[e].energy.ok => telemetry[MySlot(e)].energyOk
    /\ pc[e] = "enqueue" =>
          /\ cycle[e].energy.ok
          /\ DayGap(cycle[e].now, cycle[e].previous) = 1

InOrder(e) == OnTime(e) /\ Latest(e) /\ Grounded(e) /\ Written(e)

OrderInv ==
    /\ \A e \in Executions : InOrder(e)
    /\ \A s \in Slots : WellBased(s) /\ Settleable(s)

\* The items that remain are queued as they were read, the one being handled is
\* one of them, and what else is queued is within its window.
ItemsInOrder(e) ==
    /\ pc[e] \in Looping =>
          /\ \A i \in cycle[e].todo : pending[i.slot] # NoValue /\ i = Entry(i.slot)
          /\ \A s \in Queued : \/ Entry(s) \in cycle[e].todo
                               \/ cycle[e].now - pending[s].at < Window
    /\ pc[e] \in Handling => cycle[e].item \in cycle[e].todo
    /\ pc[e] \in {"ask", "query"} => ~Expired(e, cycle[e].item)
    /\ pc[e] = "outcome" => cycle[e].todo = {}

LoopInv == \A e \in Executions : ItemsInOrder(e)

-----------------------------------------------------------------------------

\* The interval of a document follows from its raw values and the cached total.
WellDerived(s) ==
    telemetry[s] # NoValue /\ telemetry[s].interval # NoValue =>
        LET doc == telemetry[s] IN
        /\ doc.value # NoValue
        /\ doc.previous # NoValue
        /\ \/ /\ DayGap(doc.at, doc.previous) = 0
              /\ doc.interval = doc.value - doc.previous.value
           \/ /\ DayGap(doc.at, doc.previous) = 1
              /\ dailyTotals[Day(doc.previous.at)] # NoValue
              /\ doc.final = dailyTotals[Day(doc.previous.at)]
              /\ doc.interval = Reconstruct(doc.final, doc.previous.value, doc.value)

\* The total an execution holds is the cached one, if there is one.
TotalIsCached(e) ==
    /\ pc[e] \in {"total", "history"} => DayGap(cycle[e].now, cycle[e].previous) = 1
    /\ pc[e] = "history" => dailyTotals[PreviousDay(e)] = NoValue
    /\ /\ pc[e] = "write"
       /\ cycle[e].energy.ok
       /\ cycle[e].previous # NoValue
       /\ DayGap(cycle[e].now, cycle[e].previous) = 1
       => cycle[e].final = dailyTotals[PreviousDay(e)]
    /\ pc[e] = "query" => dailyTotals[cycle[e].item.day] = NoValue
    /\ pc[e] \in {"load", "apply", "mark"} =>
          cycle[e].total = dailyTotals[cycle[e].item.day]
    /\ pc[e] = "apply" =>
          cycle[e].interval = ReconciledInterval(telemetry[cycle[e].item.slot], cycle[e].total)

DerivedInv ==
    /\ \A e \in Executions : TotalIsCached(e)
    /\ \A s \in Slots : WellDerived(s)

-----------------------------------------------------------------------------

\* The cached totals are final: their days are over.
TotalsAreFinal ==
    \A d \in Days : dailyTotals[d] # NoValue =>
        d < Day(clock) /\ dailyTotals[d] = used[d]

\* The counter stood at a stored value once, and no lower since.
ValuesArePast ==
    \A s \in Slots : telemetry[s] # NoValue /\ telemetry[s].energyOk =>
        telemetry[s].value <= used[Day(telemetry[s].at)]

\* What the counter answered an execution is not below what it answered before.
EnergyIsPast(e) ==
    /\ pc[e] \in {"acquire", "attempt", "request"} => ~cycle[e].energy.ok
    /\ pc[e] \in {"lookup", "total", "history", "write"} /\ cycle[e].energy.ok =>
          cycle[e].energy.value <= used[Day(cycle[e].now)]
    /\ pc[e] \in {"lookup", "total", "history", "write"} /\ cycle[e].energy.ok =>
          \A s \in Slots :
              /\ s <= MySlot(e)
              /\ telemetry[s] # NoValue
              /\ telemetry[s].energyOk
              /\ Day(telemetry[s].at) = Day(cycle[e].now)
              => telemetry[s].value <= cycle[e].energy.value
    /\ /\ pc[e] \in {"total", "history", "write"}
       /\ cycle[e].energy.ok
       /\ cycle[e].previous # NoValue
       /\ DayGap(cycle[e].now, cycle[e].previous) = 0
       => cycle[e].previous.value <= cycle[e].energy.value

HonestInv ==
    /\ TotalsAreFinal
    /\ ValuesArePast
    /\ \A e \in Executions : EnergyIsPast(e)

-----------------------------------------------------------------------------
(* The lookup of a baseline. *)

\* A baseline that is found is a reading of the newest usable document.
LEMMA FoundIsNewest ==
    ASSUME TypeInv, NEW s \in Slots, FindPreviousReading(s) # NoValue
    PROVE  \E n \in Usable(s) :
              /\ n \in Slots /\ n < s
              /\ telemetry[n] # NoValue
              /\ telemetry[n].energyOk
              /\ \A u \in Usable(s) : u <= n
              /\ FindPreviousReading(s) =
                    [slot |-> n, at |-> telemetry[n].at, value |-> telemetry[n].value]
  <1>1. Usable(s) # {}
    BY DEF FindPreviousReading
  <1> DEFINE newest == CHOOSE n \in Usable(s) : \A u \in Usable(s) : u <= n
  <1>2. Usable(s) \subseteq Slots
    BY DEF Usable, Recent, Earlier
  <1>3. MaxTime \in Time
    BY MaxTimeAssumption DEF Time
  <1>4. \E n \in Usable(s) : \A u \in Usable(s) : u <= n
    BY <1>1, <1>2, <1>3, InstantIsIndexed, NewestExists DEF Slots
  <1>5. newest \in Usable(s) /\ \A u \in Usable(s) : u <= newest
    BY <1>4
  <1>6. FindPreviousReading(s) = AsPreviousReading(newest, telemetry[newest])
    BY <1>1 DEF FindPreviousReading
  <1> HIDE DEF newest
  <1>7. /\ newest \in Slots /\ newest < s /\ telemetry[newest] # NoValue
        /\ AsPreviousReading(newest, telemetry[newest]) # NoValue
    BY <1>5 DEF Usable, Recent, Earlier
  <1>8. /\ telemetry[newest].energyOk
        /\ AsPreviousReading(newest, telemetry[newest]) =
              [slot |-> newest, at |-> telemetry[newest].at,
               value |-> telemetry[newest].value]
    BY <1>7 DEF AsPreviousReading
  <1> QED
    BY <1>5, <1>6, <1>7, <1>8

\* The lookup of a slot depends on the earlier slots, and there only on which
\* documents are stored and what they are as baselines.
LEMMA LookupStable ==
    ASSUME TypeInv, NEW s \in Slots,
           \A u \in Slots : u < s =>
              /\ telemetry'[u] = NoValue <=> telemetry[u] = NoValue
              /\ telemetry[u] # NoValue =>
                    AsPreviousReading(u, telemetry'[u]) = AsPreviousReading(u, telemetry[u])
    PROVE  BaseOf'[s] = BaseOf[s]
  <1>1. Earlier(s)' = Earlier(s)
    BY DEF Earlier
  <1>2. Recent(s)' = Recent(s)
    BY <1>1 DEF Recent
  <1>3. \A u \in Recent(s) :
           AsPreviousReading(u, telemetry'[u]) = AsPreviousReading(u, telemetry[u])
    BY DEF Recent, Earlier
  <1>4. Usable(s)' = Usable(s)
    BY <1>2, <1>3 DEF Usable
  <1>5. FindPreviousReading(s)' = FindPreviousReading(s)
    <2>1. CASE Usable(s) = {}
      BY <1>4, <2>1 DEF FindPreviousReading
    <2>2. CASE Usable(s) # {}
      <3> DEFINE newest == CHOOSE n \in Usable(s) : \A u \in Usable(s) : u <= n
      <3>1. Usable(s) \subseteq Slots
        BY DEF Usable, Recent, Earlier
      <3>2. MaxTime \in Time
        BY MaxTimeAssumption DEF Time
      <3>3. \E n \in Usable(s) : \A u \in Usable(s) : u <= n
        BY <2>2, <3>1, <3>2, InstantIsIndexed, NewestExists DEF Slots
      <3>4. newest \in Recent(s)
        BY <3>3 DEF Usable
      <3>5. FindPreviousReading(s) = AsPreviousReading(newest, telemetry[newest])
        BY <2>2 DEF FindPreviousReading
      <3>6. FindPreviousReading(s)' = AsPreviousReading(newest, telemetry'[newest])
        BY <1>4, <2>2 DEF FindPreviousReading
      <3> QED
        BY <1>3, <3>4, <3>5, <3>6
    <2> QED
      BY <2>1, <2>2
  <1> QED
    BY <1>5 DEF BaseOf

\* A later document than a recent one is recent too.
LEMMA LaterIsRecent ==
    ASSUME NEW s \in Slots, NEW n \in Recent(s), NEW u \in Earlier(s), n <= u
    PROVE  u \in Recent(s)
  <1> DEFINE after(v) == {x \in Earlier(s) : x >= v}
  <1>1. MaxTime \in Time
    BY MaxTimeAssumption DEF Time
  <1>2. IsFiniteSet(Slots) /\ Slots \subseteq Nat
    BY <1>1, InstantIsIndexed, FS_Interval DEF Slots
  <1>3. after(n) \subseteq Slots /\ n \in Slots /\ u \in Slots
    BY DEF Earlier, Recent
  <1>4. after(u) \subseteq after(n)
    <2> SUFFICES ASSUME NEW x \in Earlier(s), x >= u
                 PROVE  x >= n
      OBVIOUS
    <2>1. x \in Nat /\ n \in Nat /\ u \in Nat
      BY <1>2, <1>3 DEF Earlier
    <2> QED
      BY <2>1
  <1>5. IsFiniteSet(after(n))
    BY <1>2, <1>3, FS_Subset
  <1>6. /\ Cardinality(after(u)) <= Cardinality(after(n))
        /\ Cardinality(after(n)) \in Nat /\ Cardinality(after(u)) \in Nat
    BY <1>4, <1>5, FS_Subset, FS_CardinalityType
  <1>7. Cardinality(after(n)) <= Lookback
    BY DEF Recent
  <1>8. Cardinality(after(u)) <= Lookback
    BY <1>6, <1>7, LookbackAssumption
  <1> QED
    BY <1>8 DEF Recent

\* If every document has its newest baseline, the intervals tile.
LEMMA BasedTiles ==
    ASSUME TypeInv, \A s \in Slots : WellBased(s)
    PROVE  IntervalsTile
  <1> SUFFICES ASSUME NEW s \in Slots, telemetry[s] # NoValue,
                      telemetry[s].previous # NoValue
               PROVE  LET base == telemetry[s].previous IN
                      /\ telemetry[base.slot] # NoValue
                      /\ AsPreviousReading(base.slot, telemetry[base.slot]) = base
                      /\ UsableBetween(base.slot, s) = {}
    BY DEF IntervalsTile
  <1>1. telemetry[s].previous = FindPreviousReading(s)
    BY DEF WellBased, BaseOf
  <1>2. PICK n \in Usable(s) :
          /\ n \in Slots /\ n < s
          /\ telemetry[n] # NoValue
          /\ telemetry[n].energyOk
          /\ \A u \in Usable(s) : u <= n
          /\ FindPreviousReading(s) =
                [slot |-> n, at |-> telemetry[n].at, value |-> telemetry[n].value]
    BY <1>1, FoundIsNewest
  <1>3. telemetry[n].value # NoValue
    BY <1>2 DEF WellBased
  <1>4. ASSUME NEW u \in UsableBetween(n, s)
        PROVE  FALSE
    <2>1. /\ u \in Slots /\ n < u /\ u < s
          /\ telemetry[u] # NoValue /\ telemetry[u].energyOk
      BY DEF UsableBetween
    <2>2. telemetry[u].value # NoValue
      BY <2>1 DEF WellBased
    <2>3. n \in Nat /\ u \in Nat
      <3>1. MaxTime \in Time
        BY MaxTimeAssumption DEF Time
      <3> QED
        BY <1>2, <2>1, <3>1, InstantIsIndexed DEF Slots
    <2>4. u \in Earlier(s) /\ n \in Recent(s)
      BY <2>1 DEF Earlier, Usable
    <2>5. u \in Recent(s)
      BY <2>1, <2>3, <2>4, LaterIsRecent
    <2>6. AsPreviousReading(u, telemetry[u]) # NoValue
      <3>1. telemetry[u] \in Document
        BY <2>1 DEF TypeInv, TypeOK, Optional
      <3>2. [slot |-> u, at |-> telemetry[u].at, value |-> telemetry[u].value]
               \in PreviousReading
        BY <2>1, <2>2, <2>3, <3>1 DEF Document, PreviousReading, Optional
      <3> QED
        BY <2>1, <2>2, <3>2, NoDocumentAssumption DEF AsPreviousReading
    <2>7. u \in Usable(s)
      BY <2>5, <2>6 DEF Usable
    <2> QED
      BY <1>2, <2>1, <2>3, <2>7
  <1> QED
    BY <1>1, <1>2, <1>3, <1>4 DEF AsPreviousReading

-----------------------------------------------------------------------------
(* Writes and patches, and what they leave alone. *)

\* A write touches no baseline of its own slot or of an earlier one.
LEMMA WriteKeepsBases ==
    ASSUME TypeInv, NEW e \in Executions, NEW s \in Slots, WritesSlot(e, s),
           NEW u \in Slots, u <= s
    PROVE  BaseOf'[u] = BaseOf[u]
  <1>1. Slots \subseteq Int
    BY DEF Slots
  <1>2. \A x \in Slots : x < u => telemetry'[x] = telemetry[x]
    <2> SUFFICES ASSUME NEW x \in Slots, x < u PROVE telemetry'[x] = telemetry[x]
      OBVIOUS
    <2>1. x # s
      BY <1>1
    <2> QED
      BY <2>1 DEF WritesSlot, TypeInv, TypeOK
  <1> QED
    BY <1>2, LookupStable

\* A patch touches no baseline at all.
LEMMA PatchKeepsBases ==
    ASSUME TypeInv, SeriesInv, NEW e \in Executions, NEW s \in Slots,
           PatchesSlot(e, s), NEW u \in Slots
    PROVE  BaseOf'[u] = BaseOf[u]
  <1>1. \A x \in Slots : x # s => telemetry'[x] = telemetry[x]
    BY DEF PatchesSlot, TypeInv, TypeOK
  <1>2. /\ telemetry[s] # NoValue /\ telemetry'[s] # NoValue
        /\ telemetry'[s].at = telemetry[s].at
        /\ telemetry'[s].energyOk = telemetry[s].energyOk
        /\ telemetry'[s].value = telemetry[s].value
    BY PatchIsRight DEF PatchesSlot, Raw
  <1>3. AsPreviousReading(s, telemetry'[s]) = AsPreviousReading(s, telemetry[s])
    BY <1>2 DEF AsPreviousReading
  <1> QED
    BY <1>1, <1>2, <1>3, LookupStable

\* What a cycle would store waits only for a rollover of exactly one day.
LEMMA UnresolvedCrosses ==
    ASSUME TypeInv, NEW e \in Executions, NeedsReconciliation(e)
    PROVE  /\ cycle[e].energy.ok
           /\ DayGap(cycle[e].now, cycle[e].previous) = 1
  <1> DEFINE c == cycle[e]
             seconds == c.now - c.previous.at
             gap == DayGap(c.now, c.previous)
             o == ComputeInterval(c.energy.value, c.now, c.previous, c.hasPrior, c.final)
  <1>1. o.status = "DAY_ROLLOVER_UNRESOLVED" /\ c.previous # NoValue
    BY DEF NeedsReconciliation, Built, BuildObservation
  <1>2. c \in Frame
    BY LocalsOf
  <1>3. c.energy.value # NoValue
    BY <1>1, NoReadingNoRollover
  <1>4. c.energy.ok
    BY <1>2, <1>3 DEF Frame, EnergyResult
  <1>5. gap \in Int
    BY <1>1, <1>2, InstantIsIndexed
    DEF DayGap, Days, Frame, Optional, PreviousReading
  <1>6. o = CASE gap < 0 -> Outcome(NoValue, seconds, "MISSING_PREVIOUS_SAMPLE",
                                    {}, NoValue)
              [] gap = 0 -> SameDay(c.energy.value, c.previous.value, seconds)
              [] gap = 1 -> DayRollover(c.energy.value, c.previous.value, seconds, c.final)
              [] gap > 1 -> Outcome(NoValue, seconds, "MULTI_DAY_GAP", {}, NoValue)
    BY <1>1, <1>3 DEF ComputeInterval
  <1> HIDE DEF c, seconds, gap, o
  <1>7. gap = 1
    BY <1>1, <1>5, <1>6 DEF Outcome, SameDay
  <1> QED
    BY <1>4, <1>7 DEF c, gap

-----------------------------------------------------------------------------
(* The steps of a leased execution. *)

\* Every step of an execution leaves the items it handles in order.
LEMMA ItemsStep ==
    ASSUME TypeInv, NEW e \in Executions, ItemsInOrder(e),
           \/ Start(e) \/ Step(e) \/ Abandon(e) \/ Raise(e) \/ StoreFails(e) \/ Crash(e)
    PROVE  ItemsInOrder(e)'
  <1>f. /\ cycle[e] \in Frame
        /\ pc[e] \in Handling => cycle[e].item \in Item
    BY LocalsOf DEF Handling
  <1>o. ItemsInOrder(e)
    OBVIOUS
  <1>g. \A label : GoTo(e, label) => pc'[e] = label
    BY DEF GoTo, TypeInv, TypeOK
  <1>l. \A frame : Locals(e, frame) => cycle'[e] = frame
    BY DEF Locals, TypeInv, TypeOK
  <1>k. ASSUME pending' = pending,
               pc[e] \in Looping, pc'[e] \in Looping,
               cycle'[e].now = cycle[e].now,
               cycle'[e].todo \subseteq cycle[e].todo,
               \A i \in cycle[e].todo : i \in cycle'[e].todo \/ ~Expired(e, i),
               pc'[e] \in Handling => cycle'[e].item \in cycle'[e].todo,
               pc'[e] \in {"ask", "query"} => ~Expired(e, cycle'[e].item),
               pc'[e] = "outcome" => cycle'[e].todo = {}
        PROVE  ItemsInOrder(e)'
    <2>1. ASSUME NEW s \in Slots, pending[s] # NoValue
          PROVE  Entry(s) \in cycle'[e].todo \/ cycle[e].now - pending[s].at < Window
      <3>1. \/ Entry(s) \in cycle[e].todo
            \/ cycle[e].now - pending[s].at < Window
        BY <1>k, <1>o, <2>1 DEF ItemsInOrder, Queued
      <3>2. CASE Entry(s) \in cycle[e].todo /\ ~Expired(e, Entry(s))
        <4>1. ~(cycle[e].now - pending[s].at >= Window)
          BY <3>2 DEF Expired, Entry
        <4>2. pending[s].at \in Int /\ cycle[e].now \in Int
          BY <1>f, <2>1 DEF TypeInv, TypeOK, Optional, QueueEntry, Frame, Time
        <4> QED
          BY <4>1, <4>2, WindowAssumption
      <3> QED
        BY <1>k, <3>1, <3>2
    <2> QED
      BY <1>k, <1>o, <2>1 DEF ItemsInOrder, Queued, Entry, Expired
  <1> USE DEF At
  <1>1. CASE ReadPending(e)
    <2> DEFINE items == {[slot |-> s, day |-> pending[s].day, at |-> pending[s].at] :
                            s \in Queued}
    <2>1. /\ cycle'[e].now = cycle[e].now /\ cycle'[e].todo = items
      BY <1>1, <1>f, <1>l DEF ReadPending, Frame
    <2>2. pc[e] = "pending" /\ pc'[e] = "next" /\ pending' = pending
      BY <1>1, <1>g DEF ReadPending, store
    <2>4. /\ \A i \in items : pending[i.slot] # NoValue /\ i = Entry(i.slot)
          /\ \A s \in Queued : Entry(s) \in items
      BY DEF Entry, Queued
    <2> QED
      BY <2>1, <2>2, <2>4 DEF ItemsInOrder, Entry, Queued, Handling
  <1>2. CASE ExpireItem(e)
    <2>1. PICK i \in cycle[e].todo :
             /\ pc[e] = "next"
             /\ cycle'[e] = [cycle[e] EXCEPT !.item = i]
      BY <1>2, <1>l DEF ExpireItem, IsNext
    <2>2. /\ cycle'[e].now = cycle[e].now /\ cycle'[e].todo = cycle[e].todo
          /\ cycle'[e].item = i
      BY <1>f, <2>1 DEF Frame
    <2>3. pc'[e] = "drop" /\ pending' = pending
      BY <1>2, <1>g DEF ExpireItem, store
    <2> QED
      BY <1>k, <2>1, <2>2, <2>3 DEF Looping, Handling
  <1>3. CASE TakeItem(e)
    <2>1. PICK i \in cycle[e].todo :
             /\ pc[e] = "next"
             /\ ~Expired(e, i)
             /\ cycle'[e] = [cycle[e] EXCEPT !.item = i, !.total = dailyTotals[i.day]]
             /\ pc'[e] \in {"load", "ask"}
      BY <1>3, <1>g, <1>l DEF TakeItem, IsNext
    <2>2. /\ cycle'[e].now = cycle[e].now /\ cycle'[e].todo = cycle[e].todo
          /\ cycle'[e].item = i
      BY <1>f, <2>1 DEF Frame
    <2>3. pending' = pending
      BY <1>3 DEF TakeItem, store
    <2> QED
      BY <1>k, <2>1, <2>2, <2>3 DEF Looping, Handling
  <1>4. CASE LeaveItem(e)
    <2>1. PICK i \in cycle[e].todo :
             /\ pc[e] = "next"
             /\ ~Expired(e, i)
             /\ cycle'[e] = Handled(cycle[e], i)
      BY <1>4, <1>l DEF LeaveItem, IsNext
    <2>2. cycle'[e].now = cycle[e].now /\ cycle'[e].todo = cycle[e].todo \ {i}
      BY <1>f, <2>1 DEF Frame, Handled
    <2>3. pc' = pc /\ pending' = pending
      BY <1>4 DEF LeaveItem, store
    <2> QED
      BY <1>k, <2>1, <2>2, <2>3 DEF Looping, Handling
  <1>5. CASE FindTotal(e)
    <2>1. /\ cycle'[e].now = cycle[e].now /\ cycle'[e].todo = cycle[e].todo
          /\ cycle'[e].item = cycle[e].item
      BY <1>5, <1>f, <1>l DEF FindTotal, Frame
    <2>2. /\ pc[e] = "ask" /\ pc'[e] \in {"load", "query"}
          /\ pending' = pending
      BY <1>5, <1>g DEF FindTotal, store
    <2> QED
      BY <1>k, <1>o, <2>1, <2>2 DEF ItemsInOrder, Looping, Handling
  <1>6. CASE AskTotal(e)
    <2>1. /\ pc[e] = "query" /\ pending' = pending
          /\ cycle[e].item \in cycle[e].todo /\ ~Expired(e, cycle[e].item)
      BY <1>6, <1>o DEF AskTotal, ItemsInOrder, Handling
    <2>2. PICK total :
             /\ LET c == [cycle[e] EXCEPT !.asked = TRUE, !.requested = TRUE,
                                          !.total = total]
                IN  cycle'[e] = IF total = NoValue THEN Handled(c, c.item) ELSE c
             /\ pc'[e] = IF total = NoValue THEN "next" ELSE "load"
      BY <1>6, <1>g, <1>l DEF AskTotal
    <2> DEFINE c == [cycle[e] EXCEPT !.asked = TRUE, !.requested = TRUE,
                                     !.total = total]
    <2>3. /\ c.now = cycle[e].now /\ c.todo = cycle[e].todo /\ c.item = cycle[e].item
          /\ Handled(c, c.item).now = c.now
          /\ Handled(c, c.item).todo = c.todo \ {c.item}
      BY <1>f DEF Frame, Handled
    <2>4. cycle'[e] = IF total = NoValue THEN Handled(c, c.item) ELSE c
      BY <2>2
    <2> HIDE DEF c
    <2>5. CASE total = NoValue
      BY <1>k, <2>1, <2>2, <2>3, <2>4, <2>5 DEF Looping, Handling
    <2>6. CASE total # NoValue
      BY <1>k, <2>1, <2>2, <2>3, <2>4, <2>6 DEF Looping, Handling
    <2> QED
      BY <2>5, <2>6
  <1>7. CASE LoadObservation(e)
    <2>1. /\ pc[e] = "load" /\ pc'[e] \in {"drop", "mark", "apply"}
          /\ pending' = pending
      BY <1>7, <1>g DEF LoadObservation, store
    <2>2. \/ cycle' = cycle
          \/ \E n : cycle'[e] = [cycle[e] EXCEPT !.interval = n]
      BY <1>7, <1>l DEF LoadObservation
    <2>3. /\ cycle'[e].now = cycle[e].now /\ cycle'[e].todo = cycle[e].todo
          /\ cycle'[e].item = cycle[e].item
      BY <1>f, <2>2 DEF Frame
    <2> QED
      BY <1>k, <1>o, <2>1, <2>3 DEF ItemsInOrder, Looping, Handling
  <1>8. CASE ApplyReconciliation(e) \/ MarkImplausible(e)
    <2>1. /\ pc[e] \in {"apply", "mark"} /\ pc'[e] = "drop"
          /\ cycle' = cycle /\ pending' = pending
      BY <1>8, <1>g DEF ApplyReconciliation, MarkImplausible
    <2> QED
      BY <1>k, <1>o, <2>1 DEF ItemsInOrder, Looping, Handling
  <1>9. CASE DequeueReconciliation(e)
    <2> DEFINE i == cycle[e].item
    <2>1. /\ pc[e] = "drop" /\ pc'[e] = "next"
          /\ pending' = [pending EXCEPT ![i.slot] = NoValue]
          /\ cycle'[e] = Handled(cycle[e], i)
      BY <1>9, <1>g, <1>l DEF DequeueReconciliation
    <2>2. cycle'[e].now = cycle[e].now /\ cycle'[e].todo = cycle[e].todo \ {i}
      BY <1>f, <2>1 DEF Frame, Handled
    <2>3. /\ \A j \in cycle[e].todo : pending[j.slot] # NoValue /\ j = Entry(j.slot)
          /\ \A s \in Queued : \/ Entry(s) \in cycle[e].todo
                               \/ cycle[e].now - pending[s].at < Window
          /\ i \in cycle[e].todo
      BY <1>o, <2>1 DEF ItemsInOrder, Looping, Handling
    <2>4. i.slot \in Slots /\ cycle[e].todo \subseteq Item
      BY <1>f, <2>1 DEF Item, Frame, Handling
    <2>5. \A s \in Slots : pending'[s] = IF s = i.slot THEN NoValue ELSE pending[s]
      BY <2>1, <2>4 DEF TypeInv, TypeOK
    <2> HIDE DEF i
    <2>6. \A j \in cycle'[e].todo : pending'[j.slot] # NoValue /\ j = Entry(j.slot)'
      <3> SUFFICES ASSUME NEW j \in cycle[e].todo, j # i
                   PROVE  pending'[j.slot] # NoValue /\ j = Entry(j.slot)'
        BY <2>2
      <3>1. j.slot # i.slot /\ j.slot \in Slots
        BY <2>3, <2>4 DEF Item
      <3> QED
        BY <2>3, <2>5, <3>1 DEF Entry
    <2>7. \A s \in Queued' : \/ Entry(s)' \in cycle'[e].todo
                             \/ cycle'[e].now - pending'[s].at < Window
      <3> SUFFICES ASSUME NEW s \in Slots, pending'[s] # NoValue
                   PROVE  \/ Entry(s)' \in cycle'[e].todo
                          \/ cycle'[e].now - pending'[s].at < Window
        BY DEF Queued
      <3>1. s # i.slot /\ pending'[s] = pending[s] /\ s \in Queued
        BY <2>5 DEF Queued
      <3>2. Entry(s)' = Entry(s) /\ Entry(s) # i
        BY <3>1 DEF Entry
      <3> QED
        BY <2>2, <2>3, <3>1, <3>2
    <2> QED
      BY <2>1, <2>6, <2>7 DEF ItemsInOrder, Handling
  <1>10. CASE QueueDone(e)
    <2>1. /\ pc[e] = "next" /\ pc'[e] = "outcome" /\ cycle[e].todo = {}
          /\ cycle' = cycle /\ pending' = pending
      BY <1>10, <1>g DEF QueueDone, store
    <2> QED
      BY <1>k, <2>1 DEF Looping, Handling
  <1>11. CASE \/ Start(e) \/ AcquireLease(e) \/ SkipForLease(e) \/ ReleaseLease(e)
             \/ ReadHealth(e) \/ CooldownRequests(e) \/ Requests(e) \/ ProfileFails(e)
             \/ FindPrevious(e) \/ ReadCachedTotal(e) \/ RequestTotal(e)
             \/ WriteObservation(e) \/ UpdateRateLimitState(e) \/ EnqueueReconciliation(e)
             \/ RecordOutcome(e) \/ RecordError(e) \/ Abandon(e) \/ Raise(e)
             \/ StoreFails(e) \/ Crash(e)
    <2>1. pc'[e] \notin Looping
      BY <1>11, <1>g
      DEF Start, AcquireLease, SkipForLease, ReleaseLease, ReadHealth, CooldownRequests,
          Requests, ProfileFails, FindPrevious, ReadCachedTotal, RequestTotal,
          WriteObservation, UpdateRateLimitState, EnqueueReconciliation, RecordOutcome,
          RecordError, Abandon, Raise, StoreFails, Crash, Return, Looping, Handling
    <2> QED
      BY <2>1 DEF ItemsInOrder, Looping, Handling
  <1> QED
    BY <1>1, <1>2, <1>3, <1>4, <1>5, <1>6, <1>7, <1>8, <1>9, <1>10, <1>11 DEF Step

\* Every step of an execution leaves it in order.
LEMMA InOrderStep ==
    ASSUME TypeInv, SeriesInv, OrderInv, NEW e \in Executions,
           \/ Start(e) \/ Step(e) \/ Abandon(e) \/ Raise(e) \/ StoreFails(e) \/ Crash(e)
    PROVE  InOrder(e)'
  <1> DEFINE NothingNew == \A u \in Slots : telemetry'[u] # NoValue => telemetry[u] # NoValue
             Grounds == {"total", "history", "write", "backoff", "enqueue"}
  <1>f. cycle[e] \in Frame /\ MySlot(e) \in Slots
    BY LocalsOf
  <1>o. OnTime(e) /\ Latest(e) /\ Grounded(e) /\ Written(e)
    BY DEF OrderInv, InOrder
  <1>g. \A label : GoTo(e, label) => pc'[e] = label
    BY DEF GoTo, TypeInv, TypeOK
  <1>l. \A frame : Locals(e, frame) => cycle'[e] = frame
    BY DEF Locals, TypeInv, TypeOK
  <1>a. ASSUME pc[e] \in Leased, cycle'[e].now = cycle[e].now, NothingNew
        PROVE  Latest(e)'
    BY <1>a, <1>o DEF Latest, MySlot
  <1>b. ASSUME Proceeds(e), pc'[e] \notin Grounds, NothingNew
        PROVE  InOrder(e)'
    <2>1. PICK label \in Leased \union {"idle"} :
             /\ pc'[e] = label
             /\ label \in Leased => pc[e] \in Leased /\ cycle'[e].now = cycle[e].now
      BY <1>b, <1>g DEF Proceeds
    <2>2. Latest(e)'
      BY <1>a, <1>b, <2>1 DEF Latest
    <2> QED
      BY <1>b, <2>1, <2>2 DEF InOrder, OnTime, Grounded, Written, Leased, Body
  <1> USE DEF At
  <1>1. CASE Start(e)
    <2>1. pc'[e] = "acquire" /\ cycle'[e].now = clock /\ clock' = clock
      BY <1>1, <1>g, <1>l DEF Start, NewFrame, world
    <2> QED
      BY <2>1 DEF InOrder, OnTime, Latest, Grounded, Written, Leased, Body, MySlot
  <1>2. CASE AcquireLease(e)
    <2>1. /\ pc'[e] = "attempt" /\ pc[e] = "acquire"
          /\ cycle' = cycle /\ telemetry' = telemetry
      BY <1>2, <1>g DEF AcquireLease
    <2>2. MySlot(e) = Slot(clock)
      BY <1>o, <2>1 DEF OnTime
    <2>3. ASSUME NEW s \in Slots, telemetry[s] # NoValue
          PROVE  s <= MySlot(e)
      <3>1. /\ telemetry[s].at \in Time /\ clock \in Time
            /\ telemetry[s].at <= clock /\ Slot(telemetry[s].at) = s
        BY <2>3
        DEF OrderInv, WellBased, SeriesInv, Documented, TypeInv, TypeOK, Document, Optional
      <3>2. ~(MySlot(e) < s)
        BY <2>2, <3>1, SlotsFollowTime DEF Time
      <3> QED
        BY <1>f, <3>2 DEF Slots
    <2>4. Latest(e)'
      BY <2>1, <2>3 DEF Latest, MySlot
    <2> QED
      BY <2>1, <2>4 DEF InOrder, OnTime, Grounded, Written
  <1>3. CASE ReleaseLease(e)
    <2>1. pc'[e] = "idle"
      BY <1>3, <1>g DEF ReleaseLease, Return
    <2> QED
      BY <2>1 DEF InOrder, OnTime, Latest, Grounded, Written, Leased, Body
  <1>4. CASE FindPrevious(e)
    <2>1. /\ cycle'[e].now = cycle[e].now
          /\ cycle'[e].previous = FindPreviousReading(MySlot(e))
      BY <1>4, <1>f, <1>l DEF FindPrevious, Frame
    <2>2. /\ pc[e] = "lookup" /\ pc'[e] \in {"total", "write"}
          /\ telemetry' = telemetry
      BY <1>4, <1>g DEF FindPrevious, store
    <2>3. cycle'[e].previous = BaseOf'[MySlot(e)]
      BY <1>f, <2>1, <2>2, LookupStable DEF BaseOf
    <2>4. Latest(e)'
      BY <1>a, <2>1, <2>2 DEF Leased, Body
    <2> QED
      BY <2>1, <2>2, <2>3, <2>4
      DEF InOrder, OnTime, Grounded, Written, MySlot
  <1>5. CASE ReadCachedTotal(e) \/ RequestTotal(e)
    <2>1. cycle'[e].now = cycle[e].now /\ cycle'[e].previous = cycle[e].previous
      BY <1>5, <1>f, <1>l DEF ReadCachedTotal, RequestTotal, Frame
    <2>2. /\ pc[e] \in {"total", "history"} /\ pc'[e] \in {"write", "history"}
          /\ telemetry' = telemetry
      BY <1>5, <1>g DEF ReadCachedTotal, RequestTotal, store
    <2>3. cycle[e].previous = BaseOf[MySlot(e)]
      BY <1>o, <2>2 DEF Grounded
    <2>4. cycle'[e].previous = BaseOf'[MySlot(e)]
      BY <1>f, <2>1, <2>2, <2>3, LookupStable
    <2>5. Latest(e)'
      BY <1>a, <2>1, <2>2 DEF Leased, Body
    <2> QED
      BY <2>1, <2>2, <2>4, <2>5
      DEF InOrder, OnTime, Grounded, Written, MySlot
  <1>6. CASE WriteObservation(e)
    <2> DEFINE s == MySlot(e)
               writes == Supersedes(Built(e), telemetry[s])
    <2>1. /\ cycle'[e].now = cycle[e].now /\ cycle'[e].previous = cycle[e].previous
          /\ cycle'[e].energy = cycle[e].energy
      BY <1>6, <1>f, <1>l DEF WriteObservation, Frame
    <2>2. /\ pc[e] = "write" /\ pc'[e] = "backoff"
          /\ telemetry' = IF writes THEN [telemetry EXCEPT ![s] = Built(e)]
                          ELSE telemetry
      BY <1>6, <1>g DEF WriteObservation
    <2>3. writes => WritesSlot(e, s)
      BY <2>2 DEF WritesSlot
    <2> HIDE DEF writes
    <2>4. telemetry \in [Slots -> Optional(Document)] /\ s \in Slots
      BY <1>f DEF TypeInv, TypeOK
    <2>5. Built(e) \in Document /\ Built(e) # NoValue /\ Built(e).energyOk = cycle[e].energy.ok
      BY BuiltTyped, NoDocumentAssumption DEF Built, BuildObservation
    <2> HIDE DEF s
    <2>6. /\ telemetry'[s] # NoValue
          /\ cycle[e].energy.ok => telemetry'[s].energyOk
      <3>1. CASE writes
        BY <2>2, <2>4, <2>5, <3>1
      <3>2. CASE ~writes
        <4>1. telemetry[s] \in Document /\ telemetry[s] # NoValue
          BY <2>4, <3>2 DEF writes, Supersedes, Optional
        <4>2. ~(Completeness(Built(e)) > Completeness(telemetry[s]))
          BY <3>2 DEF writes, Supersedes
        <4>3. Built(e).energyOk => telemetry[s].energyOk
          BY <2>5, <4>1, <4>2 DEF Completeness, Document
        <4> QED
          BY <2>2, <2>5, <3>2, <4>1, <4>3
      <3> QED
        BY <3>1, <3>2
    <2>7. BaseOf'[s] = BaseOf[s]
      <3>1. s \in Int
        BY <2>4 DEF Slots
      <3>2. CASE writes
        BY <2>3, <2>4, <3>1, <3>2, WriteKeepsBases
      <3>3. CASE ~writes
        BY <2>2, <2>4, <3>3, LookupStable
      <3> QED
        BY <3>2, <3>3
    <2>8. cycle[e].previous = BaseOf[s]
      BY <1>o, <2>2 DEF Grounded, s
    <2>9. Latest(e)'
      <3>1. \A u \in Slots : telemetry'[u] # NoValue => telemetry[u] # NoValue \/ u = s
        BY <2>2, <2>4
      <3>2. s <= s
        BY <2>4 DEF Slots
      <3>3. \A u \in Slots : telemetry[u] # NoValue => u <= s
        BY <1>o, <2>2 DEF Latest, s, Leased, Body
      <3> QED
        BY <2>1, <3>1, <3>2, <3>3 DEF Latest, MySlot, s
    <2>10. MySlot(e)' = s
      BY <2>1 DEF MySlot, s
    <2>11. Written(e)'
      BY <2>1, <2>2, <2>6, <2>10 DEF Written
    <2>12. Grounded(e)'
      BY <2>1, <2>7, <2>8, <2>10 DEF Grounded
    <2> QED
      BY <2>2, <2>9, <2>11, <2>12 DEF InOrder, OnTime
  <1>7. CASE UpdateRateLimitState(e)
    <2>1. /\ cycle' = cycle /\ telemetry' = telemetry /\ pc[e] = "backoff"
          /\ \/ pc'[e] = "pending"
             \/ pc'[e] = "enqueue" /\ NeedsReconciliation(e)
      BY <1>7, <1>g DEF UpdateRateLimitState
    <2>2. CASE pc'[e] = "pending"
      <3>1. Proceeds(e)
        BY <1>7, <2>1, StepProceeds DEF Step, AcquireLease, ReleaseLease
      <3> QED
        BY <1>b, <2>1, <2>2, <3>1
    <2>3. CASE pc'[e] = "enqueue" /\ NeedsReconciliation(e)
      <3>1. cycle[e].energy.ok /\ DayGap(cycle[e].now, cycle[e].previous) = 1
        BY <2>3, UnresolvedCrosses
      <3>2. Written(e)'
        BY <1>o, <2>1, <2>3, <3>1 DEF Written, MySlot, DayGap
      <3>3. BaseOf'[MySlot(e)] = BaseOf[MySlot(e)]
        BY <1>f, <2>1, LookupStable
      <3>4. Grounded(e)'
        BY <1>o, <2>1, <3>3 DEF Grounded, MySlot
      <3>5. Latest(e)'
        BY <1>a, <2>1 DEF Leased, Body
      <3> QED
        BY <2>3, <3>2, <3>4, <3>5 DEF InOrder, OnTime
    <2> QED
      BY <2>1, <2>2, <2>3
  <1>8. CASE /\ ~AcquireLease(e) /\ ~ReleaseLease(e)
            /\ \/ SkipForLease(e) \/ ReadHealth(e) \/ CooldownRequests(e) \/ Requests(e)
               \/ ProfileFails(e) \/ EnqueueReconciliation(e) \/ ReadPending(e)
               \/ ExpireItem(e) \/ TakeItem(e) \/ LeaveItem(e) \/ FindTotal(e)
               \/ AskTotal(e) \/ LoadObservation(e) \/ ApplyReconciliation(e)
               \/ MarkImplausible(e) \/ DequeueReconciliation(e) \/ QueueDone(e)
               \/ RecordOutcome(e) \/ RecordError(e) \/ Abandon(e) \/ Raise(e)
               \/ StoreFails(e) \/ Crash(e)
    <2>1. Proceeds(e)
      BY <1>8, StepProceeds DEF Step
    <2>2. pc'[e] \notin Grounds
      BY <1>8, <1>g
      DEF SkipForLease, ReadHealth, CooldownRequests, Requests, ProfileFails,
          EnqueueReconciliation, ReadPending, ExpireItem, TakeItem, LeaveItem, IsNext,
          FindTotal, AskTotal, LoadObservation, ApplyReconciliation, MarkImplausible,
          DequeueReconciliation, QueueDone, RecordOutcome, RecordError, Abandon, Raise,
          StoreFails, Crash, Return
    <2>3. NothingNew
      BY <1>8
      DEF SkipForLease, ReadHealth, CooldownRequests, Requests, ProfileFails,
          EnqueueReconciliation, ReadPending, ExpireItem, TakeItem, LeaveItem,
          FindTotal, AskTotal, LoadObservation, ApplyReconciliation, MarkImplausible,
          UpdateDocument, DequeueReconciliation, QueueDone, RecordOutcome, RecordError,
          Abandon, Raise, StoreFails, Crash, store, TypeInv, TypeOK
    <2> QED
      BY <1>b, <2>1, <2>2, <2>3
  <1> QED
    BY <1>1, <1>2, <1>3, <1>4, <1>5, <1>6, <1>7, <1>8 DEF Step

\* A step of one execution leaves the locals of another alone, and the store too
\* if the other is leased.
LEMMA OthersStay ==
    ASSUME TypeInv, LeaseInv, LeaseInv', NEW e \in Executions,
           \/ Start(e) \/ Step(e) \/ Abandon(e) \/ Raise(e) \/ StoreFails(e) \/ Crash(e),
           NEW f \in Executions, f # e
    PROVE  /\ pc'[f] = pc[f] /\ cycle'[f] = cycle[f] /\ clock' = clock
           /\ pc[f] \in Leased =>
                 telemetry' = telemetry /\ pending' = pending /\ dailyTotals' = dailyTotals
  <1>1. pc'[f] = pc[f] /\ cycle'[f] = cycle[f] /\ clock' = clock
    <2>1. CASE Start(e) \/ AcquireLease(e) \/ ReleaseLease(e)
      BY <2>1
      DEF Start, AcquireLease, ReleaseLease, Return, GoTo, Locals, world, TypeInv, TypeOK
    <2>2. CASE ~(Start(e) \/ AcquireLease(e) \/ ReleaseLease(e))
      <3>1. Proceeds(e)
        BY <2>2, StepProceeds
      <3> QED
        BY <3>1 DEF Proceeds, GoTo, TypeInv, TypeOK
    <2> QED
      BY <2>1, <2>2
  <1>2. ASSUME pc[f] \in Leased
        PROVE  telemetry' = telemetry /\ pending' = pending /\ dailyTotals' = dailyTotals
    <2>1. pc[e] \notin Leased /\ pc'[e] \notin Leased
      BY <1>1, <1>2 DEF LeaseInv
    <2>2. pc[e] \in {"idle", "acquire"}
      BY <2>1 DEF TypeInv, TypeOK, PC, Running
    <2>3. ~AcquireLease(e)
      BY <2>1 DEF AcquireLease, GoTo, TypeInv, TypeOK, Leased, Body
    <2>4. \/ Start(e) \/ SkipForLease(e) \/ StoreFails(e) \/ Crash(e)
      BY <2>2, <2>3
      DEF Step, At, ReadHealth, CooldownRequests, Requests, ProfileFails,
          FindPrevious, ReadCachedTotal, RequestTotal, WriteObservation,
          UpdateRateLimitState, EnqueueReconciliation, ReadPending, ExpireItem,
          TakeItem, LeaveItem, IsNext, FindTotal, AskTotal, LoadObservation,
          ApplyReconciliation, MarkImplausible, DequeueReconciliation, QueueDone,
          RecordOutcome, RecordError, ReleaseLease, Abandon, Raise, Body
    <2> QED
      BY <2>4 DEF Start, SkipForLease, StoreFails, Crash, store
  <1> QED
    BY <1>1, <1>2

\* So it leaves the others in order.
LEMMA OthersInOrder ==
    ASSUME TypeInv, LeaseInv, LeaseInv', OrderInv, NEW e \in Executions,
           \/ Start(e) \/ Step(e) \/ Abandon(e) \/ Raise(e) \/ StoreFails(e) \/ Crash(e),
           NEW f \in Executions, f # e
    PROVE  InOrder(f)'
  <1>1. pc'[f] = pc[f] /\ cycle'[f] = cycle[f] /\ clock' = clock
    BY OthersStay
  <1>2. InOrder(f)
    BY DEF OrderInv
  <1>3. CASE pc[f] \notin Leased
    BY <1>1, <1>2, <1>3
    DEF InOrder, OnTime, Latest, Grounded, Written, Leased, Body, MySlot
  <1>4. CASE pc[f] \in Leased
    <2>1. telemetry' = telemetry /\ pending' = pending
      BY <1>4, OthersStay
    <2>2. BaseOf' = BaseOf
      <3>1. \A s \in Slots : BaseOf'[s] = BaseOf[s]
        BY <2>1, LookupStable
      <3> QED
        BY <3>1 DEF BaseOf
    <2> QED
      BY <1>1, <1>2, <2>1, <2>2
      DEF InOrder, OnTime, Latest, Grounded, Written, MySlot
  <1> QED
    BY <1>3, <1>4

-----------------------------------------------------------------------------
(* The documents and the queue. *)

\* Only a cycle that enqueues its slot adds to the queue.
LEMMA StepsAndTheQueue ==
    ASSUME TypeInv, [Next]_vars, NEW s \in Slots, pending'[s] # NoValue
    PROVE  \/ pending'[s] = pending[s]
           \/ \E e \in Executions :
                 /\ EnqueueReconciliation(e)
                 /\ s = MySlot(e)
                 /\ pending'[s].day = PreviousDay(e)
  <1>1. ASSUME NEW e \in Executions, EnqueueReconciliation(e)
        PROVE  \/ pending'[s] = pending[s]
               \/ s = MySlot(e) /\ pending'[s].day = PreviousDay(e)
    BY <1>1 DEF EnqueueReconciliation, TypeInv, TypeOK
  <1>2. ASSUME NEW e \in Executions, DequeueReconciliation(e)
        PROVE  pending'[s] = pending[s]
    BY <1>2 DEF DequeueReconciliation, TypeInv, TypeOK
  <1>3. ASSUME NEW e \in Executions,
               \/ Start(e) \/ AcquireLease(e) \/ SkipForLease(e) \/ ReadHealth(e)
               \/ CooldownRequests(e) \/ Requests(e) \/ ProfileFails(e) \/ FindPrevious(e)
               \/ ReadCachedTotal(e) \/ RequestTotal(e) \/ WriteObservation(e)
               \/ UpdateRateLimitState(e) \/ ReadPending(e) \/ ExpireItem(e)
               \/ TakeItem(e) \/ LeaveItem(e) \/ FindTotal(e) \/ AskTotal(e)
               \/ LoadObservation(e) \/ ApplyReconciliation(e) \/ MarkImplausible(e)
               \/ QueueDone(e) \/ RecordOutcome(e)
               \/ RecordError(e) \/ ReleaseLease(e) \/ Abandon(e) \/ Raise(e)
               \/ StoreFails(e) \/ Crash(e)
        PROVE  pending' = pending
    BY <1>3
    DEF Start, AcquireLease, SkipForLease, ReadHealth, CooldownRequests, Requests,
        ProfileFails, FindPrevious, ReadCachedTotal, RequestTotal, WriteObservation,
        UpdateRateLimitState, ReadPending, ExpireItem, TakeItem, LeaveItem, FindTotal,
        AskTotal, LoadObservation, ApplyReconciliation, MarkImplausible, QueueDone,
        RecordOutcome, RecordError, ReleaseLease, Abandon, Raise, StoreFails, Crash, store
  <1>4. CASE Tick \/ UNCHANGED vars
    BY <1>4 DEF Tick, vars, store
  <1> QED
    BY <1>1, <1>2, <1>3, <1>4 DEF Next, Step

\* The clock never goes back.
LEMMA ClockRises ==
    ASSUME TypeInv, [Next]_vars
    PROVE  clock' >= clock
  <1>1. clock \in Int
    BY DEF TypeInv, TypeOK, Time
  <1>2. ASSUME NEW e \in Executions, Start(e) \/ AcquireLease(e) \/ ReleaseLease(e)
        PROVE  clock' = clock
    BY <1>2 DEF Start, AcquireLease, ReleaseLease, world
  <1> QED
    BY <1>1, <1>2, StepsAndTheLease DEF Proceeds, Tick, vars, world

\* A stored document keeps its raw values, or is replaced by the observation of
\* the leased execution, with the same baseline and no less energy.
LEMMA DocumentsKeep ==
    ASSUME TypeInv, SeriesInv, LeaseInv, OrderInv, [Next]_vars,
           NEW u \in Slots, telemetry[u] # NoValue
    PROVE  /\ telemetry'[u] # NoValue
           /\ telemetry'[u].previous = telemetry[u].previous
           /\ telemetry[u].energyOk => telemetry'[u].energyOk
           /\ Slot(telemetry'[u].at) = Slot(telemetry[u].at)
           /\ telemetry'[u].at \in Time /\ telemetry[u].at \in Time
  <1>1. telemetry \in [Slots -> Optional(Document)]
    BY DEF TypeInv, TypeOK
  <1>2. telemetry[u] \in Document /\ Slot(telemetry[u].at) = u
    BY <1>1 DEF Optional, SeriesInv, Documented
  <1>3. ASSUME NEW e \in Executions, WritesSlot(e, u)
        PROVE  /\ telemetry'[u] # NoValue
               /\ telemetry'[u].previous = telemetry[u].previous
               /\ telemetry[u].energyOk => telemetry'[u].energyOk
               /\ Slot(telemetry'[u].at) = u /\ telemetry'[u].at \in Time
    <2>1. telemetry'[u] = Built(e) /\ Built(e) \in Document /\ Built(e) # NoValue
      BY <1>1, <1>3, BuiltTyped, NoDocumentAssumption DEF WritesSlot
    <2>2. Built(e).previous = cycle[e].previous /\ Built(e).at = cycle[e].now
      BY DEF Built, BuildObservation
    <2>3. cycle[e].previous = BaseOf[u]
      BY <1>3 DEF WritesSlot, At, OrderInv, InOrder, Grounded
    <2>4. telemetry[u].previous = BaseOf[u]
      BY DEF OrderInv, WellBased
    <2>5. Completeness(Built(e)) > Completeness(telemetry[u])
      BY <1>3 DEF WritesSlot, Supersedes
    <2>6. telemetry[u].energyOk => Built(e).energyOk
      BY <1>2, <2>1, <2>5 DEF Completeness, Document
    <2> QED
      BY <1>3, <2>1, <2>2, <2>3, <2>4, <2>6, LocalsOf DEF WritesSlot, MySlot
  <1>4. ASSUME NEW e \in Executions, PatchesSlot(e, u)
        PROVE  telemetry'[u] # NoValue /\ Raw(telemetry'[u]) = Raw(telemetry[u])
    BY <1>4, PatchIsRight
  <1>5. ASSUME NEW e \in Executions, NEW s \in Slots,
               WritesSlot(e, s) \/ PatchesSlot(e, s), s # u
        PROVE  telemetry'[u] = telemetry[u]
    BY <1>1, <1>5 DEF WritesSlot, PatchesSlot
  <1>6. telemetry[u].at \in Time
    BY <1>2 DEF Document
  <1> QED
    BY <1>2, <1>3, <1>4, <1>5, <1>6, StepsAndTheSeries DEF Raw

\* Every step keeps the documents based on what a lookup finds.
LEMMA BasedStep ==
    ASSUME TypeInv, SeriesInv, LeaseInv, OrderInv, [Next]_vars, NEW u \in Slots
    PROVE  WellBased(u)'
  <1>1. telemetry \in [Slots -> Optional(Document)] /\ Slots \subseteq Int
    BY DEF TypeInv, TypeOK, Slots
  <1>2. clock' >= clock /\ clock' \in Int /\ clock \in Int
    BY ClockRises, TypeStep DEF TypeInv, TypeOK, Time
  <1>3. WellBased(u)
    BY DEF OrderInv
  <1>4. telemetry[u] # NoValue => telemetry[u].at \in Int
    BY <1>1 DEF Optional, Document, Time
  <1>5. ASSUME telemetry'[u] = telemetry[u], BaseOf'[u] = BaseOf[u]
        PROVE  WellBased(u)'
    BY <1>2, <1>3, <1>4, <1>5 DEF WellBased
  <1>6. ASSUME NEW e \in Executions, NEW s \in Slots, WritesSlot(e, s)
        PROVE  WellBased(u)'
    <2>1. pc[e] = "write" /\ s = MySlot(e)
      BY <1>6 DEF WritesSlot, At
    <2>2. CASE u = s
      <3>1. telemetry'[u] = Built(e)
        BY <1>1, <1>6, <2>2 DEF WritesSlot
      <3>2. /\ Built(e).at = cycle[e].now
            /\ Built(e).energyOk = cycle[e].energy.ok
            /\ Built(e).value = cycle[e].energy.value
            /\ Built(e).previous = cycle[e].previous
        BY DEF Built, BuildObservation
      <3>3. cycle[e].energy \in EnergyResult /\ cycle[e].now \in Int
        BY LocalsOf DEF Frame, Time
      <3>4. cycle[e].now <= clock
        BY <2>1 DEF LeaseInv, Running, Leased, Body
      <3>5. cycle[e].previous = BaseOf'[u]
        <4>1. cycle[e].previous = BaseOf[u]
          BY <2>1, <2>2 DEF OrderInv, InOrder, Grounded
        <4>2. u <= s
          BY <1>1, <2>2
        <4> QED
          BY <1>6, <4>1, <4>2, WriteKeepsBases
      <3> QED
        BY <1>2, <3>1, <3>2, <3>3, <3>4, <3>5 DEF WellBased, EnergyResult
    <2>3. CASE u # s
      <3>1. telemetry'[u] = telemetry[u]
        BY <1>1, <1>6, <2>3 DEF WritesSlot
      <3>2. telemetry[u] # NoValue => u <= s
        BY <2>1 DEF OrderInv, InOrder, Latest, Leased, Body
      <3>3. telemetry[u] # NoValue => BaseOf'[u] = BaseOf[u]
        BY <1>6, <3>2, WriteKeepsBases
      <3> QED
        BY <1>5, <3>1, <3>3 DEF WellBased
    <2> QED
      BY <2>2, <2>3
  <1>7. ASSUME NEW e \in Executions, NEW s \in Slots, PatchesSlot(e, s)
        PROVE  WellBased(u)'
    <2>1. BaseOf'[u] = BaseOf[u]
      BY <1>7, PatchKeepsBases
    <2>2. CASE u = s
      <3>1. telemetry[u] # NoValue /\ Raw(telemetry'[u]) = Raw(telemetry[u])
        BY <1>7, <2>2, PatchIsRight DEF PatchesSlot
      <3> QED
        BY <1>2, <1>3, <1>4, <2>1, <3>1 DEF WellBased, Raw
    <2>3. CASE u # s
      BY <1>1, <1>5, <1>7, <2>1, <2>3 DEF PatchesSlot
    <2> QED
      BY <2>2, <2>3
  <1>8. ASSUME telemetry' = telemetry
        PROVE  WellBased(u)'
    BY <1>5, <1>8, LookupStable
  <1> QED
    BY <1>6, <1>7, <1>8, StepsAndTheSeries

\* Every step keeps the queued slots settleable.
LEMMA SettleableStep ==
    ASSUME TypeInv, SeriesInv, LeaseInv, OrderInv, [Next]_vars, NEW u \in Slots
    PROVE  Settleable(u)'
  <1> SUFFICES ASSUME pending'[u] # NoValue PROVE Settleable(u)'
    BY DEF Settleable
  <1>1. ASSUME telemetry[u] # NoValue, telemetry[u].energyOk,
               telemetry[u].previous # NoValue,
               Day(telemetry[u].previous.at) = pending'[u].day,
               WholeSlots => \E t \in Time :
                   /\ Slot(t) = Slot(telemetry[u].at)
                   /\ DayGap(t, telemetry[u].previous) = 1
        PROVE  Settleable(u)'
    <2>1. /\ telemetry'[u] # NoValue
          /\ telemetry'[u].previous = telemetry[u].previous
          /\ telemetry'[u].energyOk
          /\ Slot(telemetry'[u].at) = Slot(telemetry[u].at)
          /\ telemetry'[u].at \in Time
      BY <1>1, DocumentsKeep
    <2>2. WholeSlots => DayGap(telemetry'[u].at, telemetry'[u].previous) = 1
      <3> SUFFICES ASSUME WholeSlots
                   PROVE  DayGap(telemetry'[u].at, telemetry'[u].previous) = 1
        OBVIOUS
      <3>1. PICK t \in Time : /\ Slot(t) = Slot(telemetry[u].at)
                              /\ DayGap(t, telemetry[u].previous) = 1
        BY <1>1
      <3>2. Day(telemetry'[u].at) = Day(t)
        BY <2>1, <3>1 DEF WholeSlots
      <3> QED
        BY <2>1, <3>1, <3>2 DEF DayGap
    <2> QED
      BY <1>1, <2>1, <2>2 DEF Settleable, WholeSlots
  <1>2. CASE pending'[u] = pending[u]
    <2>1. /\ telemetry[u] # NoValue
          /\ telemetry[u].energyOk
          /\ telemetry[u].previous # NoValue
          /\ Day(telemetry[u].previous.at) = pending'[u].day
          /\ WholeSlots => DayGap(telemetry[u].at, telemetry[u].previous) = 1
      BY <1>2 DEF OrderInv, Settleable
    <2>2. telemetry[u].at \in Time
      BY <2>1 DEF TypeInv, TypeOK, Optional, Document
    <2> QED
      BY <1>1, <2>1, <2>2
  <1>3. ASSUME NEW e \in Executions, EnqueueReconciliation(e), u = MySlot(e),
               pending'[u].day = PreviousDay(e)
        PROVE  Settleable(u)'
    <2>1. pc[e] = "enqueue"
      BY <1>3 DEF EnqueueReconciliation, At
    <2>2. /\ telemetry[u] # NoValue /\ telemetry[u].energyOk
          /\ cycle[e].previous = BaseOf[u]
          /\ DayGap(cycle[e].now, cycle[e].previous) = 1
      BY <1>3, <2>1 DEF OrderInv, InOrder, Written, Grounded
    <2>3. telemetry[u].previous = cycle[e].previous
      BY <2>2 DEF OrderInv, WellBased
    <2>4. cycle[e].previous # NoValue /\ cycle[e].now \in Time
      BY <2>1, LocalsOf DEF Placed
    <2>5. Slot(cycle[e].now) = Slot(telemetry[u].at)
      BY <1>3, <2>2 DEF MySlot, SeriesInv, Documented
    <2> QED
      BY <1>1, <1>3, <2>2, <2>3, <2>4, <2>5 DEF PreviousDay
  <1> QED
    BY <1>2, <1>3, StepsAndTheQueue

-----------------------------------------------------------------------------

\* At first nothing is stored and nobody runs.
LEMMA OrderInit == Init => OrderInv
  <1> SUFFICES ASSUME Init PROVE OrderInv
    OBVIOUS
  <1>1. \A s \in Slots : WellBased(s) /\ Settleable(s)
    BY DEF Init, WellBased, Settleable
  <1>2. \A e \in Executions : InOrder(e)
    BY DEF Init, InOrder, OnTime, Latest, Grounded, Written, Leased, Body
  <1> QED
    BY <1>1, <1>2 DEF OrderInv

\* Every step keeps the order, as long as cycles end within their lease and take
\* it within the slot they start in.
LEMMA OrderStep ==
    ASSUME MayOutlive = FALSE, MayLag = FALSE
    PROVE  TypeInv /\ SeriesInv /\ LeaseInv /\ OrderInv /\ [Next]_vars => OrderInv'
  <1> SUFFICES ASSUME TypeInv, SeriesInv, LeaseInv, OrderInv, [Next]_vars
               PROVE  OrderInv'
    OBVIOUS
  <1>1. LeaseInv'
    BY LeaseStep
  <1>2. \A u \in Slots : WellBased(u)' /\ Settleable(u)'
    BY BasedStep, SettleableStep
  <1>3. ASSUME NEW e \in Executions,
               \/ Start(e) \/ Step(e) \/ Abandon(e) \/ Raise(e) \/ StoreFails(e) \/ Crash(e),
               NEW f \in Executions
        PROVE  InOrder(f)'
    BY <1>1, <1>3, InOrderStep, OthersInOrder
  <1>4. ASSUME Tick \/ UNCHANGED vars, NEW f \in Executions
        PROVE  InOrder(f)'
    <2>1. /\ telemetry' = telemetry /\ pending' = pending
          /\ pc' = pc /\ cycle' = cycle
          /\ clock' = clock \/ (pc[f] = "acquire" => MySlot(f) = Slot(clock'))
      BY <1>4 DEF Tick, NoneLags, At, vars, store, world
    <2>2. BaseOf' = BaseOf
      <3>1. \A s \in Slots : BaseOf'[s] = BaseOf[s]
        BY <2>1, LookupStable
      <3> QED
        BY <3>1 DEF BaseOf
    <2>3. InOrder(f)
      BY DEF OrderInv
    <2> QED
      BY <2>1, <2>2, <2>3
      DEF InOrder, OnTime, Latest, Grounded, Written, MySlot
  <1> QED
    BY <1>2, <1>3, <1>4 DEF Next, OrderInv

\* Cycles that end within their lease and take it within the slot they start in
\* are in order, always.
LEMMA OrderAlways ==
    ASSUME MayOutlive = FALSE, MayLag = FALSE
    PROVE  Spec => []OrderInv
  <1> QED
    BY OrderInit, OrderStep, LeaseInit, LeaseStep, TypesAndPlaces, SeriesIsRight, PTL
    DEF Spec

\* The intervals tile: under the lease, the baseline of every stored document is
\* still stored as it was and still the newest usable one, for any number of
\* executions, failures, crashes and duplicate deliveries.
THEOREM IntervalsAlwaysTile ==
    ASSUME MayOutlive = FALSE, MayLag = FALSE
    PROVE  Spec => []IntervalsTile
  <1>1. TypeInv /\ OrderInv => IntervalsTile
    BY BasedTiles DEF OrderInv
  <1> QED
    BY <1>1, OrderAlways, TypesAndPlaces, PTL

\* Every queued slot can be settled: it is stored, and the day it waits for is
\* the day of its baseline.
THEOREM QueueIsRight ==
    ASSUME MayOutlive = FALSE, MayLag = FALSE
    PROVE  Spec => []QueueNamesTheDay
  <1>1. OrderInv => QueueNamesTheDay
    BY DEF OrderInv, Settleable, QueueNamesTheDay, Queued
  <1> QED
    BY <1>1, OrderAlways, PTL

\* The items in the loop of a leased execution are in order, always.
LEMMA LoopAlways ==
    ASSUME MayOutlive = FALSE
    PROVE  Spec => []LoopInv
  <1>1. Init => LoopInv
    BY DEF Init, LoopInv, ItemsInOrder, Looping, Handling
  <1>2. TypeInv /\ LeaseInv /\ LoopInv /\ [Next]_vars => LoopInv'
    <2> SUFFICES ASSUME TypeInv, LeaseInv, LoopInv, [Next]_vars, NEW f \in Executions
                 PROVE  ItemsInOrder(f)'
      BY DEF LoopInv
    <2>1. LeaseInv'
      BY LeaseStep
    <2>2. ItemsInOrder(f)
      BY DEF LoopInv
    <2>3. ASSUME pc'[f] = pc[f], cycle'[f] = cycle[f], pc[f] \in Leased => pending' = pending
          PROVE  ItemsInOrder(f)'
      BY <2>2, <2>3 DEF ItemsInOrder, Entry, Queued, Expired, Looping, Handling, Leased, Body
    <2>4. ASSUME NEW e \in Executions,
                 \/ Start(e) \/ Step(e) \/ Abandon(e) \/ Raise(e) \/ StoreFails(e) \/ Crash(e)
          PROVE  ItemsInOrder(f)'
      BY <2>1, <2>2, <2>3, <2>4, ItemsStep, OthersStay
    <2>5. CASE Tick \/ UNCHANGED vars
      BY <2>3, <2>5 DEF Tick, vars, store
    <2> QED
      BY <2>4, <2>5 DEF Next
  <1> QED
    BY <1>1, <1>2, LeaseInit, LeaseStep, TypesAndPlaces, PTL DEF Spec

\* A cycle that completes leaves no entry older than the window in the queue, as
\* long as every cycle ends before its lease does, however late it asks for it.
THEOREM QueueStaysBounded ==
    ASSUME MayOutlive = FALSE
    PROVE  Spec => QueueIsBounded
  <1> DEFINE Bounded ==
        \A e \in Executions : pc[e] = "outcome" /\ pc'[e] = "release" =>
          \A s \in Queued : cycle[e].now - pending[s].at < Window
  <1>1. LoopInv => Bounded
    BY DEF LoopInv, ItemsInOrder, Looping
  <1>2. Spec => [][Bounded]_vars
    BY <1>1, LoopAlways, PTL DEF Spec
  <1> QED
    BY <1>2 DEF QueueIsBounded

-----------------------------------------------------------------------------
(* The derived numbers. *)

\* The number of a built observation follows from its raw values and the total.
LEMMA BuiltIsDerived ==
    ASSUME TypeInv, NEW e \in Executions, Built(e).interval # NoValue
    PROVE  /\ cycle[e].energy.ok
           /\ cycle[e].energy.value # NoValue
           /\ cycle[e].previous # NoValue
           /\ \/ /\ DayGap(cycle[e].now, cycle[e].previous) = 0
                 /\ Built(e).interval = cycle[e].energy.value - cycle[e].previous.value
              \/ /\ DayGap(cycle[e].now, cycle[e].previous) = 1
                 /\ cycle[e].final # NoValue
                 /\ Built(e).final = cycle[e].final
                 /\ Built(e).interval =
                      Reconstruct(cycle[e].final, cycle[e].previous.value,
                                  cycle[e].energy.value)
  <1> DEFINE c == cycle[e]
             seconds == c.now - c.previous.at
             gap == DayGap(c.now, c.previous)
             o == ComputeInterval(c.energy.value, c.now, c.previous, c.hasPrior, c.final)
  <1>1. Built(e).interval = o.value /\ Built(e).final = o.final
    BY DEF Built, BuildObservation
  <1>2. c \in Frame
    BY LocalsOf
  <1>3. c.energy.value # NoValue /\ c.previous # NoValue
    BY <1>1 DEF ComputeInterval, Outcome
  <1>4. c.energy.ok
    BY <1>2, <1>3 DEF Frame, EnergyResult
  <1>5. gap \in Int
    BY <1>2, <1>3, InstantIsIndexed
    DEF DayGap, Days, Frame, Optional, PreviousReading
  <1>6. o = CASE gap < 0 -> Outcome(NoValue, seconds, "MISSING_PREVIOUS_SAMPLE",
                                    {}, NoValue)
              [] gap = 0 -> SameDay(c.energy.value, c.previous.value, seconds)
              [] gap = 1 -> DayRollover(c.energy.value, c.previous.value, seconds, c.final)
              [] gap > 1 -> Outcome(NoValue, seconds, "MULTI_DAY_GAP", {}, NoValue)
    BY <1>3 DEF ComputeInterval
  <1> HIDE DEF c, seconds, gap, o
  <1>7. gap = 0 \/ gap = 1
    BY <1>1, <1>5, <1>6 DEF Outcome
  <1>8. gap = 0 => o.value = c.energy.value - c.previous.value
    BY <1>1, <1>6 DEF Outcome, SameDay
  <1>9. gap = 1 => /\ c.final # NoValue
                   /\ o.final = c.final
                   /\ o.value = Reconstruct(c.final, c.previous.value, c.energy.value)
    BY <1>1, <1>6 DEF Outcome, DayRollover
  <1> QED
    BY <1>1, <1>3, <1>4, <1>7, <1>8, <1>9 DEF c, gap

\* Every step of an execution leaves the total it holds the cached one.
LEMMA TotalIsCachedStep ==
    ASSUME TypeInv, NEW e \in Executions, TotalIsCached(e),
           \/ Start(e) \/ Step(e) \/ Abandon(e) \/ Raise(e) \/ StoreFails(e) \/ Crash(e)
    PROVE  TotalIsCached(e)'
  <1> DEFINE Held == {"total", "history", "write", "query", "load", "apply", "mark"}
  <1>f. /\ cycle[e] \in Frame
        /\ pc[e] \in {"total", "history"} => PreviousDay(e) \in Days
        /\ pc[e] \in {"ask", "query", "load"} => cycle[e].item \in Item
    BY LocalsOf
  <1>t. dailyTotals \in [Days -> Optional(Reading)]
    BY DEF TypeInv, TypeOK
  <1>o. TotalIsCached(e)
    OBVIOUS
  <1>g. \A label : GoTo(e, label) => pc'[e] = label
    BY DEF GoTo, TypeInv, TypeOK
  <1>l. \A frame : Locals(e, frame) => cycle'[e] = frame
    BY DEF Locals, TypeInv, TypeOK
  <1> USE DEF At
  <1>1. CASE FindPrevious(e)
    <2> DEFINE previous == FindPreviousReading(MySlot(e))
               goes == /\ previous # NoValue
                       /\ DayGap(cycle[e].now, previous) = 1
                       /\ cycle[e].energy.ok
    <2>1. /\ cycle'[e].now = cycle[e].now /\ cycle'[e].previous = previous
          /\ cycle'[e].energy = cycle[e].energy
      BY <1>1, <1>f, <1>l DEF FindPrevious, Frame
    <2>2. pc'[e] = IF goes THEN "total" ELSE "write"
      BY <1>1, <1>g DEF FindPrevious
    <2> HIDE DEF previous
    <2> QED
      BY <2>1, <2>2 DEF TotalIsCached, DayGap
  <1>2. CASE ReadCachedTotal(e)
    <2> DEFINE cached == dailyTotals[PreviousDay(e)]
    <2>1. /\ cycle'[e].now = cycle[e].now /\ cycle'[e].previous = cycle[e].previous
          /\ cycle'[e].final = cached
      BY <1>2, <1>f, <1>l DEF ReadCachedTotal, Frame
    <2>2. /\ pc[e] = "total" /\ pc'[e] = IF cached # NoValue THEN "write" ELSE "history"
          /\ dailyTotals' = dailyTotals
      BY <1>2, <1>g DEF ReadCachedTotal, store
    <2>3. DayGap(cycle[e].now, cycle[e].previous) = 1
      BY <1>o, <2>2 DEF TotalIsCached
    <2>4. dailyTotals'[PreviousDay(e)'] = cached
      BY <2>1, <2>2 DEF PreviousDay
    <2> HIDE DEF cached
    <2> QED
      BY <2>1, <2>2, <2>3, <2>4 DEF TotalIsCached, DayGap
  <1>3. CASE RequestTotal(e)
    <2>1. PICK total :
             /\ CacheTotal(PreviousDay(e), total)
             /\ cycle'[e] = [cycle[e] EXCEPT !.final = total, !.requested = TRUE]
      BY <1>3, <1>l DEF RequestTotal
    <2>2. pc[e] = "history" /\ pc'[e] = "write"
      BY <1>3, <1>g DEF RequestTotal
    <2>3. cycle'[e].previous = cycle[e].previous /\ cycle'[e].final = total
      BY <1>f, <2>1 DEF Frame
    <2>4. dailyTotals[PreviousDay(e)] = NoValue /\ PreviousDay(e) \in Days
      BY <1>f, <1>o, <2>2 DEF TotalIsCached
    <2>5. dailyTotals'[PreviousDay(e)] = total
      BY <1>t, <2>1, <2>4 DEF CacheTotal
    <2>6. PreviousDay(e)' = PreviousDay(e)
      BY <2>3 DEF PreviousDay
    <2> QED
      BY <2>2, <2>3, <2>5, <2>6 DEF TotalIsCached
  <1>4. CASE TakeItem(e)
    <2>1. PICK i \in cycle[e].todo :
             /\ cycle'[e] = [cycle[e] EXCEPT !.item = i, !.total = dailyTotals[i.day]]
             /\ pc'[e] \in {"load", "ask"}
      BY <1>4, <1>g, <1>l DEF TakeItem
    <2>2. cycle'[e].item = i /\ cycle'[e].total = dailyTotals[i.day]
      BY <1>f, <2>1 DEF Frame
    <2>3. dailyTotals' = dailyTotals
      BY <1>4 DEF TakeItem, store
    <2> QED
      BY <2>1, <2>2, <2>3 DEF TotalIsCached
  <1>5. CASE FindTotal(e)
    <2>1. /\ cycle'[e].item = cycle[e].item
          /\ cycle'[e].total = dailyTotals[cycle[e].item.day]
      BY <1>5, <1>f, <1>l DEF FindTotal, Frame
    <2>2. /\ pc'[e] = IF dailyTotals[cycle[e].item.day] # NoValue THEN "load" ELSE "query"
          /\ dailyTotals' = dailyTotals
      BY <1>5, <1>g DEF FindTotal, store
    <2> QED
      BY <2>1, <2>2 DEF TotalIsCached
  <1>6. CASE AskTotal(e)
    <2>1. PICK total :
             /\ CacheTotal(cycle[e].item.day, total)
             /\ LET c == [cycle[e] EXCEPT !.asked = TRUE, !.requested = TRUE,
                                          !.total = total]
                IN  cycle'[e] = IF total = NoValue THEN Handled(c, c.item) ELSE c
             /\ pc'[e] = IF total = NoValue THEN "next" ELSE "load"
      BY <1>6, <1>g, <1>l DEF AskTotal
    <2>2. CASE total = NoValue
      BY <2>1, <2>2 DEF TotalIsCached
    <2>3. CASE total # NoValue
      <3>1. cycle'[e].item = cycle[e].item /\ cycle'[e].total = total
        BY <1>f, <2>1, <2>3 DEF Frame
      <3>2. cycle[e].item.day \in Days
        BY <1>6, <1>f DEF AskTotal, Item
      <3>3. dailyTotals'[cycle[e].item.day] = total
        BY <1>t, <2>1, <2>3, <3>2 DEF CacheTotal
      <3> QED
        BY <2>1, <2>3, <3>1, <3>3 DEF TotalIsCached
    <2> QED
      BY <2>2, <2>3
  <1>7. CASE LoadObservation(e)
    <2>1. /\ pc[e] = "load" /\ pc'[e] \in {"drop", "mark", "apply"}
          /\ dailyTotals' = dailyTotals /\ telemetry' = telemetry
      BY <1>7, <1>g DEF LoadObservation, store
    <2>2. cycle[e].total = dailyTotals[cycle[e].item.day]
      BY <1>o, <2>1 DEF TotalIsCached
    <2>3. CASE pc'[e] # "apply"
      <3>1. cycle' = cycle
        BY <1>7, <1>g, <2>3 DEF LoadObservation
      <3> QED
        BY <2>1, <2>2, <2>3, <3>1 DEF TotalIsCached
    <2>4. CASE pc'[e] = "apply"
      <3> DEFINE n == ReconciledInterval(telemetry[cycle[e].item.slot], cycle[e].total)
      <3>1. cycle'[e] = [cycle[e] EXCEPT !.interval = n]
        BY <1>7, <1>g, <1>l, <2>4 DEF LoadObservation
      <3>2. /\ cycle'[e].item = cycle[e].item /\ cycle'[e].total = cycle[e].total
            /\ cycle'[e].interval = n
        BY <1>f, <3>1 DEF Frame
      <3> QED
        BY <2>1, <2>2, <2>4, <3>2 DEF TotalIsCached, ReconciledInterval
    <2> QED
      BY <2>3, <2>4
  <1>8. CASE \/ Start(e) \/ AcquireLease(e) \/ SkipForLease(e) \/ ReleaseLease(e)
             \/ ReadHealth(e) \/ CooldownRequests(e) \/ Requests(e) \/ ProfileFails(e)
             \/ WriteObservation(e) \/ UpdateRateLimitState(e) \/ EnqueueReconciliation(e)
             \/ ReadPending(e) \/ ExpireItem(e) \/ LeaveItem(e) \/ ApplyReconciliation(e)
             \/ MarkImplausible(e) \/ DequeueReconciliation(e) \/ QueueDone(e)
             \/ RecordOutcome(e) \/ RecordError(e) \/ Abandon(e) \/ Raise(e)
             \/ StoreFails(e) \/ Crash(e)
    <2>1. pc'[e] \notin Held
      BY <1>8, <1>g
      DEF Start, AcquireLease, SkipForLease, ReleaseLease, ReadHealth, CooldownRequests,
          Requests, ProfileFails, WriteObservation, UpdateRateLimitState,
          EnqueueReconciliation, ReadPending, ExpireItem, LeaveItem, IsNext,
          ApplyReconciliation, MarkImplausible, DequeueReconciliation, QueueDone,
          RecordOutcome, RecordError, Abandon, Raise, StoreFails, Crash, Return
    <2> QED
      BY <2>1 DEF TotalIsCached
  <1> QED
    BY <1>1, <1>2, <1>3, <1>4, <1>5, <1>6, <1>7, <1>8 DEF Step

\* Only the two requests for a total write the cache.
LEMMA StepsAndTheCache ==
    ASSUME TypeInv, [Next]_vars
    PROVE  \/ dailyTotals' = dailyTotals
           \/ \E e \in Executions :
                 \/ /\ pc[e] = "history"
                    /\ \E total \in TotalAnswers(PreviousDay(e)) :
                          CacheTotal(PreviousDay(e), total)
                 \/ /\ pc[e] = "query"
                    /\ \E total \in TotalAnswers(cycle[e].item.day) :
                          CacheTotal(cycle[e].item.day, total)
  <1>1. ASSUME NEW e \in Executions, RequestTotal(e)
        PROVE  /\ pc[e] = "history"
               /\ \E total \in TotalAnswers(PreviousDay(e)) :
                     CacheTotal(PreviousDay(e), total)
    BY <1>1 DEF RequestTotal, At
  <1>2. ASSUME NEW e \in Executions, AskTotal(e)
        PROVE  /\ pc[e] = "query"
               /\ \E total \in TotalAnswers(cycle[e].item.day) :
                     CacheTotal(cycle[e].item.day, total)
    BY <1>2 DEF AskTotal, At
  <1>3. ASSUME NEW e \in Executions,
               \/ Start(e) \/ AcquireLease(e) \/ SkipForLease(e) \/ ReadHealth(e)
               \/ CooldownRequests(e) \/ Requests(e) \/ ProfileFails(e) \/ FindPrevious(e)
               \/ ReadCachedTotal(e) \/ WriteObservation(e) \/ UpdateRateLimitState(e)
               \/ EnqueueReconciliation(e) \/ ReadPending(e) \/ ExpireItem(e)
               \/ TakeItem(e) \/ LeaveItem(e) \/ FindTotal(e) \/ LoadObservation(e)
               \/ ApplyReconciliation(e) \/ MarkImplausible(e)
               \/ DequeueReconciliation(e) \/ QueueDone(e) \/ RecordOutcome(e)
               \/ RecordError(e) \/ ReleaseLease(e) \/ Abandon(e) \/ Raise(e)
               \/ StoreFails(e) \/ Crash(e)
        PROVE  dailyTotals' = dailyTotals
    BY <1>3
    DEF Start, AcquireLease, SkipForLease, ReadHealth, CooldownRequests, Requests,
        ProfileFails, FindPrevious, ReadCachedTotal, WriteObservation,
        UpdateRateLimitState, EnqueueReconciliation, ReadPending, ExpireItem, TakeItem,
        LeaveItem, FindTotal, LoadObservation, ApplyReconciliation, MarkImplausible,
        DequeueReconciliation, QueueDone, RecordOutcome, RecordError, ReleaseLease,
        Abandon, Raise, StoreFails, Crash, store
  <1>4. CASE Tick \/ UNCHANGED vars
    BY <1>4 DEF Tick, vars, store
  <1> QED
    BY <1>1, <1>2, <1>3, <1>4 DEF Next, Step

\* A cached total stays as it is.
LEMMA TotalsStay ==
    ASSUME TypeInv, \A e \in Executions : TotalIsCached(e), [Next]_vars,
           NEW d \in Days, dailyTotals[d] # NoValue
    PROVE  dailyTotals'[d] = dailyTotals[d]
  <1>1. ASSUME NEW c, NEW total, dailyTotals[c] = NoValue, CacheTotal(c, total)
        PROVE  dailyTotals'[d] = dailyTotals[d]
    BY <1>1 DEF CacheTotal, TypeInv, TypeOK
  <1>2. ASSUME NEW e \in Executions
        PROVE  /\ pc[e] = "history" => dailyTotals[PreviousDay(e)] = NoValue
               /\ pc[e] = "query" => dailyTotals[cycle[e].item.day] = NoValue
    BY DEF TotalIsCached
  <1> QED
    BY <1>1, <1>2, StepsAndTheCache

\* The slot that a patch updates crosses midnight, and the patch is the interval
\* and the total of the day before.
LEMMA PatchIsDerived ==
    ASSUME WholeSlots, TypeInv, OrderInv, LoopInv, DerivedInv,
           NEW e \in Executions, NEW s \in Slots, PatchesSlot(e, s)
    PROVE  /\ telemetry[s].value # NoValue
           /\ telemetry[s].previous # NoValue
           /\ DayGap(telemetry[s].at, telemetry[s].previous) = 1
           /\ cycle[e].total # NoValue
           /\ cycle[e].total = dailyTotals[Day(telemetry[s].previous.at)]
           /\ pc[e] = "apply" =>
                 cycle[e].interval = ReconciledInterval(telemetry[s], cycle[e].total)
  <1>1. pc[e] \in {"apply", "mark"} /\ s = cycle[e].item.slot
    BY DEF PatchesSlot, At
  <1>2. pending[s] # NoValue /\ cycle[e].item = Entry(s)
    BY <1>1 DEF LoopInv, ItemsInOrder, Looping, Handling
  <1>3. /\ telemetry[s] # NoValue /\ telemetry[s].energyOk
        /\ telemetry[s].previous # NoValue
        /\ Day(telemetry[s].previous.at) = pending[s].day
        /\ DayGap(telemetry[s].at, telemetry[s].previous) = 1
    BY <1>2 DEF OrderInv, Settleable
  <1>4. telemetry[s].value # NoValue
    BY <1>3 DEF OrderInv, WellBased
  <1>5. cycle[e].item.day = pending[s].day
    BY <1>2 DEF Entry
  <1>6. /\ cycle[e].total = dailyTotals[cycle[e].item.day]
        /\ pc[e] = "apply" =>
              cycle[e].interval = ReconciledInterval(telemetry[s], cycle[e].total)
    BY <1>1 DEF DerivedInv, TotalIsCached
  <1>7. cycle[e].total # NoValue
    BY <1>1, LocalsOf DEF Placed
  <1> QED
    BY <1>3, <1>4, <1>5, <1>6, <1>7

\* A patch stores its total, and its interval unless the total is implausible.
LEMMA PatchFields ==
    ASSUME TypeInv, NEW e \in Executions, NEW s \in Slots, PatchesSlot(e, s)
    PROVE  /\ telemetry'[s].final = cycle[e].total
           /\ \/ At(e, "apply") /\ telemetry'[s].interval = cycle[e].interval
              \/ telemetry'[s].interval = telemetry[s].interval
  <1> DEFINE doc == telemetry[s]
  <1>1. doc \in Document
    BY DEF PatchesSlot, TypeInv, TypeOK, Optional
  <1>2. CASE At(e, "apply")
    <2>1. telemetry'[s] = Patched(doc, cycle[e].interval, cycle[e].total)
      BY <1>2 DEF PatchesSlot, At, TypeInv, TypeOK
    <2> HIDE DEF doc
    <2>2. /\ Patched(doc, cycle[e].interval, cycle[e].total).final = cycle[e].total
          /\ Patched(doc, cycle[e].interval, cycle[e].total).interval = cycle[e].interval
      BY <1>1 DEF Patched, Document
    <2> QED
      BY <1>2, <2>1, <2>2
  <1>3. CASE At(e, "mark")
    <2>1. telemetry'[s] = MarkedImplausible(doc, cycle[e].total)
      BY <1>3 DEF PatchesSlot, At, TypeInv, TypeOK
    <2> HIDE DEF doc
    <2>2. /\ MarkedImplausible(doc, cycle[e].total).final = cycle[e].total
          /\ MarkedImplausible(doc, cycle[e].total).interval = doc.interval
      BY <1>1 DEF MarkedImplausible, Document
    <2> QED
      BY <2>1, <2>2 DEF doc
  <1> QED
    BY <1>2, <1>3 DEF PatchesSlot

\* Every step keeps the numbers derived.
LEMMA WellDerivedStep ==
    ASSUME WholeSlots, TypeInv, SeriesInv, OrderInv, LoopInv, DerivedInv, [Next]_vars,
           NEW u \in Slots
    PROVE  WellDerived(u)'
  <1>1. telemetry \in [Slots -> Optional(Document)]
    BY DEF TypeInv, TypeOK
  <1>2. WellDerived(u) /\ \A e \in Executions : TotalIsCached(e)
    BY DEF DerivedInv
  <1>3. ASSUME telemetry[u] # NoValue, telemetry[u].previous # NoValue
        PROVE  Day(telemetry[u].previous.at) \in Days
    <2>1. telemetry[u].previous \in PreviousReading
      BY <1>1, <1>3 DEF Optional, Document
    <2> QED
      BY <2>1, InstantIsIndexed DEF PreviousReading
  <1>4. ASSUME telemetry'[u] = telemetry[u]
        PROVE  WellDerived(u)'
    <2> SUFFICES ASSUME telemetry[u] # NoValue, telemetry[u].interval # NoValue
                 PROVE  WellDerived(u)'
      BY <1>4 DEF WellDerived
    <2>1. telemetry[u].previous # NoValue
      BY <1>2 DEF WellDerived
    <2>2. dailyTotals[Day(telemetry[u].previous.at)] # NoValue =>
             dailyTotals'[Day(telemetry[u].previous.at)] =
                dailyTotals[Day(telemetry[u].previous.at)]
      BY <1>2, <1>3, <2>1, TotalsStay
    <2> QED
      BY <1>2, <1>4, <2>2 DEF WellDerived
  <1>5. ASSUME NEW e \in Executions, WritesSlot(e, u)
        PROVE  WellDerived(u)'
    <2>1. telemetry'[u] = Built(e) /\ pc[e] = "write"
      BY <1>1, <1>5 DEF WritesSlot, At
    <2>2. /\ Built(e).at = cycle[e].now
          /\ Built(e).value = cycle[e].energy.value
          /\ Built(e).previous = cycle[e].previous
      BY DEF Built, BuildObservation
    <2> SUFFICES ASSUME Built(e).interval # NoValue
                 PROVE  WellDerived(u)'
      BY <2>1 DEF WellDerived
    <2>3. cycle[e].previous \in PreviousReading
      BY BuiltIsDerived, LocalsOf DEF Frame, Optional
    <2>4. DayGap(cycle[e].now, cycle[e].previous) = 1 =>
             /\ dailyTotals[Day(cycle[e].previous.at)] # NoValue
             /\ cycle[e].final = dailyTotals[Day(cycle[e].previous.at)]
      BY <1>2, <2>1, BuiltIsDerived DEF TotalIsCached, PreviousDay
    <2>5. Day(cycle[e].previous.at) \in Days
      BY <2>3, InstantIsIndexed DEF PreviousReading
    <2>6. DayGap(cycle[e].now, cycle[e].previous) = 1 =>
             dailyTotals'[Day(cycle[e].previous.at)] = dailyTotals[Day(cycle[e].previous.at)]
      BY <1>2, <2>4, <2>5, TotalsStay
    <2> QED
      BY <2>1, <2>2, <2>4, <2>6, BuiltIsDerived DEF WellDerived
  <1>6. ASSUME NEW e \in Executions, PatchesSlot(e, u)
        PROVE  WellDerived(u)'
    <2>1. /\ telemetry[u].value # NoValue
          /\ telemetry[u].previous # NoValue
          /\ DayGap(telemetry[u].at, telemetry[u].previous) = 1
          /\ cycle[e].total # NoValue
          /\ cycle[e].total = dailyTotals[Day(telemetry[u].previous.at)]
          /\ pc[e] = "apply" =>
                cycle[e].interval = ReconciledInterval(telemetry[u], cycle[e].total)
      BY <1>6, PatchIsDerived
    <2>2. telemetry[u] \in Document /\ telemetry[u] # NoValue
      BY <1>1, <1>6 DEF PatchesSlot, Optional
    <2>3. dailyTotals'[Day(telemetry[u].previous.at)] = cycle[e].total
      BY <1>2, <1>3, <2>1, <2>2, TotalsStay
    <2>4. /\ telemetry'[u].at = telemetry[u].at
          /\ telemetry'[u].value = telemetry[u].value
          /\ telemetry'[u].previous = telemetry[u].previous
      BY <1>6, PatchIsRight DEF Raw
    <2>5. /\ telemetry'[u].final = cycle[e].total
          /\ \/ telemetry'[u].interval = ReconciledInterval(telemetry[u], cycle[e].total)
             \/ telemetry'[u].interval = telemetry[u].interval
      BY <1>6, <2>1, PatchFields DEF At
    <2>7. telemetry[u].interval # NoValue =>
             telemetry[u].interval = ReconciledInterval(telemetry[u], cycle[e].total)
      BY <1>2, <2>1, <2>2 DEF WellDerived, ReconciledInterval
    <2>8. telemetry'[u].interval # NoValue =>
             telemetry'[u].interval = ReconciledInterval(telemetry[u], cycle[e].total)
      BY <2>5, <2>7
    <2> QED
      BY <2>1, <2>3, <2>4, <2>5, <2>8 DEF WellDerived, ReconciledInterval
  <1>7. ASSUME NEW e \in Executions, NEW s \in Slots,
               WritesSlot(e, s) \/ PatchesSlot(e, s), s # u
        PROVE  telemetry'[u] = telemetry[u]
    BY <1>1, <1>7 DEF WritesSlot, PatchesSlot
  <1> QED
    BY <1>4, <1>5, <1>6, <1>7, StepsAndTheSeries

\* The numbers of cycles in order are derived, always.
LEMMA DerivedAlways ==
    ASSUME MayOutlive = FALSE, MayLag = FALSE, WholeSlots
    PROVE  Spec => []DerivedInv
  <1>1. Init => DerivedInv
    BY DEF Init, DerivedInv, TotalIsCached, WellDerived
  <1>2. TypeInv /\ SeriesInv /\ LeaseInv /\ OrderInv /\ LoopInv /\ DerivedInv /\ [Next]_vars
            => DerivedInv'
    <2> SUFFICES ASSUME TypeInv, SeriesInv, LeaseInv, OrderInv, LoopInv, DerivedInv,
                        [Next]_vars
                 PROVE  DerivedInv'
      OBVIOUS
    <2>1. \A u \in Slots : WellDerived(u)'
      BY WellDerivedStep
    <2>2. LeaseInv'
      BY LeaseStep
    <2>3. ASSUME NEW f \in Executions
          PROVE  TotalIsCached(f)'
      <3>1. TotalIsCached(f)
        BY DEF DerivedInv
      <3>2. ASSUME pc'[f] = pc[f], cycle'[f] = cycle[f],
                   pc[f] \in Leased => telemetry' = telemetry /\ dailyTotals' = dailyTotals
            PROVE  TotalIsCached(f)'
        BY <3>1, <3>2 DEF TotalIsCached, PreviousDay, Leased, Body
      <3>3. ASSUME NEW e \in Executions,
                   \/ Start(e) \/ Step(e) \/ Abandon(e) \/ Raise(e) \/ StoreFails(e) \/ Crash(e)
            PROVE  TotalIsCached(f)'
        BY <2>2, <3>1, <3>2, <3>3, TotalIsCachedStep, OthersStay
      <3>4. CASE Tick \/ UNCHANGED vars
        BY <3>2, <3>4 DEF Tick, vars, store
      <3> QED
        BY <3>3, <3>4 DEF Next
    <2> QED
      BY <2>1, <2>3 DEF DerivedInv
  <1> QED
    BY <1>1, <1>2, LeaseInit, LeaseStep, OrderAlways, LoopAlways, TypesAndPlaces,
       SeriesIsRight, PTL
    DEF Spec

\* Every stored number, reconciled or not, is what the raw values of its own
\* document and the total it carries give, if cycles hold their lease and no
\* midnight falls inside a slot.
THEOREM NumbersFollowFromRaw ==
    ASSUME MayOutlive = FALSE, MayLag = FALSE, WholeSlots
    PROVE  Spec => []DerivedFromRaw
  <1>1. TypeInv /\ DerivedInv => DerivedFromRaw
    <2> SUFFICES ASSUME TypeInv, DerivedInv, NEW s \in Slots,
                        telemetry[s] # NoValue, telemetry[s].interval # NoValue
                 PROVE  Recomputable(telemetry[s])
      BY DEF DerivedFromRaw, Recomputable
    <2>1. WellDerived(s)
      BY DEF DerivedInv
    <2>2. telemetry[s] \in Document
      BY DEF TypeInv, TypeOK, Optional
    <2>3. telemetry[s].previous \in PreviousReading
      BY <2>1, <2>2 DEF WellDerived, Document, Optional
    <2>4. /\ Day(telemetry[s].at) \in Int
          /\ Day(telemetry[s].previous.at) \in Int
      BY <2>2, <2>3, InstantIsIndexed DEF Document, PreviousReading, Days
    <2> QED
      BY <2>1, <2>4 DEF WellDerived, Recomputable, DayGap
  <1> QED
    BY <1>1, DerivedAlways, TypesAndPlaces, PTL
-----------------------------------------------------------------------------
(* What an honest counter says. *)

\* Days follow time.
LEMMA DaysFollowTime ==
    ASSUME NEW t \in Time, NEW u \in Time, t <= u
    PROVE  /\ Day(t) <= Day(u)
           /\ Day(t) \in Days /\ Day(u) \in Days
           /\ Day(t) \in Int /\ Day(u) \in Int
  BY IndicesFollowTime, InstantIsIndexed

\* An honest answer about a day is the count of that day, or no number at all,
\* in whatever shape it comes.
LEMMA HonestReadings ==
    ASSUME Honest, TypeInv, NEW d \in Days, NEW v \in Readings(d)
    PROVE  v = used[d] \/ v = NoValue
  <1> DEFINE n == used[d]
  <1>1. n \in Nat /\ d \in Int /\ d # NoValue /\ NoValue \notin Nat
    BY NoValueAssumption DEF TypeInv, TypeOK, Days
  <1>2. PICK shape \in Shapes : v = ExtractEnergyReading(Payload(shape, d, n), d)
    BY DEF Readings, CounterAnswers
  <1> HIDE DEF n
  <1> DEFINE payload == Payload(shape, d, n)
  <1>3. ToDecimal(n) = n /\ ToDecimal(NoValue) = NoValue
    BY <1>1 DEF ToDecimal, Reading
  <1>4. CASE shape = "single"
    BY <1>2, <1>3, <1>4
    DEF ExtractEnergyReading, Payload, Record, RecordValue, n
  <1>5. CASE shape = "dated"
    <2>1. payload.single = FALSE /\ payload.records = <<Record(d, n), Record(d + 1, n + 1)>>
      BY <1>5 DEF Payload
    <2> HIDE DEF payload
    <2>2. About(payload.records, d) = {1}
      BY <1>1, <2>1 DEF About, Dated, Record
    <2>3. First({1}) = 1
      BY DEF First
    <2>4. ExtractEnergyReading(payload, d) = RecordValue(payload.records[1])
      BY <2>1, <2>2, <2>3 DEF ExtractEnergyReading
    <2> QED
      BY <1>2, <1>3, <2>1, <2>4 DEF RecordValue, Record, payload, n
  <1>6. CASE shape = "undated"
    <2>1. /\ payload.single = FALSE
          /\ payload.records = <<Record(NoValue, n + 1), Record(NoValue, n)>>
      BY <1>6 DEF Payload
    <2> HIDE DEF payload
    <2>2. Dated(payload.records) = {} /\ About(payload.records, d) = {}
      BY <2>1 DEF About, Dated, Record
    <2>3. ExtractEnergyReading(payload, d) = RecordValue(payload.records[2])
      BY <2>1, <2>2 DEF ExtractEnergyReading
    <2> QED
      BY <1>2, <1>3, <2>1, <2>3 DEF RecordValue, Record, payload, n
  <1>7. CASE shape = "otherDay"
    <2>1. payload.single = FALSE /\ payload.records = <<Record(d + 1, n + 1)>>
      BY <1>7 DEF Payload
    <2> HIDE DEF payload
    <2>2. d + 1 # NoValue
      BY <1>1, NoValueAssumption
    <2>3. 1 \in Dated(payload.records) /\ About(payload.records, d) = {}
      BY <1>1, <2>1, <2>2 DEF About, Dated, Record
    <2>4. ExtractEnergyReading(payload, d) = NoValue
      BY <2>1, <2>3 DEF ExtractEnergyReading
    <2> QED
      BY <1>2, <2>4 DEF payload
  <1>8. CASE shape = "unreadable"
    <2>1. payload.single = FALSE /\ payload.records = <<Record(d, NoValue)>>
      BY <1>8 DEF Payload
    <2> HIDE DEF payload
    <2>2. About(payload.records, d) = {1}
      BY <1>1, <2>1 DEF About, Dated, Record
    <2>3. First({1}) = 1
      BY DEF First
    <2>4. ExtractEnergyReading(payload, d) = RecordValue(payload.records[1])
      BY <2>1, <2>2, <2>3 DEF ExtractEnergyReading
    <2> QED
      BY <1>2, <1>3, <2>1, <2>4 DEF RecordValue, Record, payload
  <1>9. CASE shape = "empty"
    <2>1. payload.single = FALSE /\ payload.records = <<>>
      BY <1>9 DEF Payload
    <2> HIDE DEF payload
    <2>2. About(payload.records, d) = {}
      BY <2>1 DEF About, Dated
    <2>3. ExtractEnergyReading(payload, d) = NoValue
      BY <2>1, <2>2 DEF ExtractEnergyReading
    <2> QED
      BY <1>2, <2>3 DEF payload
  <1> QED
    BY <1>4, <1>5, <1>6, <1>7, <1>8, <1>9, ShapesAssumption

\* The counters only rise, and only that of the current day does.
LEMMA CountersRise ==
    ASSUME TypeInv, [Next]_vars, NEW d \in Days
    PROVE  /\ used'[d] \in Nat /\ used[d] \in Nat
           /\ used[d] <= used'[d]
           /\ d < Day(clock) => used'[d] = used[d]
  <1>1. used \in [Days -> Nat] /\ d \in Int /\ Day(clock) \in Int
    BY InstantIsIndexed DEF TypeInv, TypeOK, Days
  <1>2. ASSUME NEW e \in Executions,
               \/ Start(e) \/ Step(e) \/ Abandon(e) \/ Raise(e) \/ StoreFails(e) \/ Crash(e)
        PROVE  used' = used
    BY <1>2
    DEF Start, Step, Abandon, Raise, StoreFails, Crash, AcquireLease, SkipForLease,
        ReadHealth, CooldownRequests, Requests, ProfileFails, FindPrevious,
        ReadCachedTotal, RequestTotal, WriteObservation, UpdateRateLimitState,
        EnqueueReconciliation, ReadPending, ExpireItem, TakeItem, LeaveItem, FindTotal,
        AskTotal, LoadObservation, ApplyReconciliation, MarkImplausible,
        DequeueReconciliation, QueueDone, RecordOutcome, RecordError, ReleaseLease, world
  <1>3. CASE Tick
    <2>1. PICK n \in Uses : used' = [used EXCEPT ![Day(clock)] = @ + n]
      BY <1>3 DEF Tick
    <2>2. n \in Nat
      BY BoundsAssumption
    <2> QED
      BY <1>1, <2>1, <2>2
  <1>4. CASE UNCHANGED vars
    BY <1>1, <1>4 DEF vars, world
  <1> QED
    BY <1>1, <1>2, <1>3, <1>4 DEF Next

\* A total is asked of a day that is over.
LEMMA AskedDayIsOver ==
    ASSUME WholeSlots, TypeInv, LeaseInv, OrderInv, LoopInv, DerivedInv,
           NEW e \in Executions
    PROVE  /\ pc[e] = "history" => PreviousDay(e) \in Days /\ PreviousDay(e) < Day(clock)
           /\ pc[e] = "query" =>
                 cycle[e].item.day \in Days /\ cycle[e].item.day < Day(clock)
  <1>1. clock \in Time
    BY DEF TypeInv, TypeOK
  <1>2. CASE pc[e] = "history"
    <2>1. cycle[e].now \in Time /\ cycle[e].now <= clock /\ PreviousDay(e) \in Days
      BY <1>2, LocalsOf DEF LeaseInv, Running, Leased, Body
    <2>2. DayGap(cycle[e].now, cycle[e].previous) = 1
      BY <1>2 DEF DerivedInv, TotalIsCached
    <2>3. Day(cycle[e].now) <= Day(clock) /\ Day(cycle[e].now) \in Int /\ Day(clock) \in Int
      BY <1>1, <2>1, DaysFollowTime
    <2>4. PreviousDay(e) \in Int
      BY <2>1 DEF Days
    <2> QED
      BY <1>2, <2>1, <2>2, <2>3, <2>4 DEF DayGap, PreviousDay
  <1>3. CASE pc[e] = "query"
    <2> DEFINE i == cycle[e].item
               doc == telemetry[i.slot]
    <2>1. i \in Item /\ pending[i.slot] # NoValue /\ i = Entry(i.slot)
      BY <1>3, LocalsOf DEF LoopInv, ItemsInOrder, Looping, Handling
    <2>2. i.slot \in Slots /\ i.day \in Days /\ i.day = pending[i.slot].day
      BY <2>1 DEF Item, Entry
    <2> HIDE DEF i
    <2>3. /\ doc # NoValue /\ doc.previous # NoValue
          /\ Day(doc.previous.at) = i.day
          /\ DayGap(doc.at, doc.previous) = 1
      BY <2>1, <2>2 DEF OrderInv, Settleable
    <2>4. doc.at \in Time /\ doc.at <= clock
      BY <2>2, <2>3 DEF OrderInv, WellBased, TypeInv, TypeOK, Optional, Document
    <2>5. Day(doc.at) <= Day(clock) /\ Day(doc.at) \in Int /\ Day(clock) \in Int
      BY <1>1, <2>4, DaysFollowTime
    <2>6. i.day \in Int
      BY <2>2 DEF Days
    <2> HIDE DEF doc
    <2> QED
      BY <1>3, <2>2, <2>3, <2>5, <2>6 DEF DayGap, i
  <1> QED
    BY <1>2, <1>3

\* What is cached of an honest counter is final.
LEMMA TotalsAreFinalStep ==
    ASSUME Honest, WholeSlots, TypeInv, LeaseInv, OrderInv, LoopInv, DerivedInv,
           TotalsAreFinal, [Next]_vars
    PROVE  TotalsAreFinal'
  <1> SUFFICES ASSUME NEW d \in Days, dailyTotals'[d] # NoValue
               PROVE  d < Day(clock)' /\ dailyTotals'[d] = used'[d]
    BY DEF TotalsAreFinal
  <1>1. /\ clock' \in Time /\ clock \in Time /\ clock <= clock'
        /\ dailyTotals \in [Days -> Optional(Reading)]
    BY TypeStep, ClockRises DEF TypeInv, TypeOK
  <1>2. Day(clock) <= Day(clock') /\ Day(clock) \in Int /\ Day(clock') \in Int /\ d \in Int
    BY <1>1, DaysFollowTime DEF Days
  <1>3. d < Day(clock) /\ dailyTotals'[d] = used[d]
    <2>1. CASE dailyTotals[d] # NoValue
      <3>1. dailyTotals'[d] = dailyTotals[d]
        BY <2>1, TotalsStay DEF DerivedInv
      <3> QED
        BY <2>1, <3>1 DEF TotalsAreFinal
    <2>2. CASE dailyTotals[d] = NoValue
      <3>1. PICK c \in Days :
               c < Day(clock) /\ \E total \in TotalAnswers(c) : CacheTotal(c, total)
        BY <2>2, StepsAndTheCache, AskedDayIsOver
      <3> PICK total \in TotalAnswers(c) : CacheTotal(c, total)
        BY <3>1
      <3>2. c = d /\ dailyTotals'[d] = total
        BY <1>1, <2>2, <3>1 DEF CacheTotal
      <3>3. total = used[d]
        BY <3>1, <3>2, HonestReadings DEF TotalAnswers
      <3> QED
        BY <3>1, <3>2, <3>3
    <2> QED
      BY <2>1, <2>2
  <1>4. used'[d] = used[d]
    BY <1>3, CountersRise
  <1> QED
    BY <1>2, <1>3, <1>4

\* No step stores a value that the counter has not reached.
LEMMA ValuesArePastStep ==
    ASSUME TypeInv, SeriesInv, OrderInv, HonestInv, [Next]_vars
    PROVE  ValuesArePast'
  <1> SUFFICES ASSUME NEW u \in Slots, telemetry'[u] # NoValue, telemetry'[u].energyOk
               PROVE  telemetry'[u].value <= used'[Day(telemetry'[u].at)]
    BY DEF ValuesArePast
  <1>1. telemetry \in [Slots -> Optional(Document)]
    BY DEF TypeInv, TypeOK
  <1>2. ASSUME NEW v \in Nat, NEW t \in Time, v <= used[Day(t)]
        PROVE  v <= used'[Day(t)]
    BY <1>2, CountersRise, InstantIsIndexed
  <1>3. ASSUME Raw(telemetry'[u]) = Raw(telemetry[u]), telemetry[u] # NoValue
        PROVE  telemetry'[u].value <= used'[Day(telemetry'[u].at)]
    <2>1. /\ telemetry'[u].value = telemetry[u].value
          /\ telemetry'[u].at = telemetry[u].at
          /\ telemetry'[u].energyOk = telemetry[u].energyOk
      BY <1>3 DEF Raw
    <2>2. telemetry[u].value <= used[Day(telemetry[u].at)]
      BY <1>3, <2>1 DEF HonestInv, ValuesArePast
    <2>3. telemetry[u].value \in Nat /\ telemetry[u].at \in Time
      BY <1>1, <1>3, <2>1 DEF OrderInv, WellBased, Optional, Document, Reading
    <2> QED
      BY <1>2, <2>1, <2>2, <2>3
  <1>4. ASSUME NEW e \in Executions, WritesSlot(e, u)
        PROVE  telemetry'[u].value <= used'[Day(telemetry'[u].at)]
    <2>1. telemetry'[u] = Built(e) /\ pc[e] = "write"
      BY <1>1, <1>4 DEF WritesSlot, At
    <2>2. /\ telemetry'[u].value = cycle[e].energy.value
          /\ telemetry'[u].at = cycle[e].now
          /\ cycle[e].energy.ok
      BY <2>1 DEF Built, BuildObservation
    <2>3. cycle[e].energy.value \in Nat /\ cycle[e].now \in Time
      BY <2>2, LocalsOf DEF Frame, EnergyResult, RequestResult, Optional, Reading
    <2>4. cycle[e].energy.value <= used[Day(cycle[e].now)]
      BY <2>1, <2>2 DEF HonestInv, EnergyIsPast
    <2> QED
      BY <1>2, <2>2, <2>3, <2>4
  <1>5. ASSUME NEW e \in Executions, PatchesSlot(e, u)
        PROVE  Raw(telemetry'[u]) = Raw(telemetry[u]) /\ telemetry[u] # NoValue
    BY <1>5, PatchIsRight DEF PatchesSlot
  <1>6. ASSUME NEW e \in Executions, NEW s \in Slots,
               WritesSlot(e, s) \/ PatchesSlot(e, s), s # u
        PROVE  telemetry'[u] = telemetry[u]
    BY <1>1, <1>6 DEF WritesSlot, PatchesSlot
  <1> QED
    BY <1>3, <1>4, <1>5, <1>6, StepsAndTheSeries
\* Every step of an execution leaves what it was answered in the past.
LEMMA EnergyIsPastStep ==
    ASSUME Honest, TypeInv, OrderInv, HonestInv, [Next]_vars, NEW e \in Executions,
           \/ Start(e) \/ Step(e) \/ Abandon(e) \/ Raise(e) \/ StoreFails(e) \/ Crash(e)
    PROVE  EnergyIsPast(e)'
  <1> DEFINE Early == {"acquire", "attempt", "request"}
             Later == {"lookup", "total", "history", "write"}
  <1>f. cycle[e] \in Frame /\ cycle[e].now \in Time /\ Day(cycle[e].now) \in Days
    BY LocalsOf, InstantIsIndexed
  <1>o. EnergyIsPast(e)
    BY DEF HonestInv
  <1>g. \A label : GoTo(e, label) => pc'[e] = label
    BY DEF GoTo, TypeInv, TypeOK
  <1>l. \A frame : Locals(e, frame) => cycle'[e] = frame
    BY DEF Locals, TypeInv, TypeOK
  <1>n. ASSUME ~cycle'[e].energy.ok
        PROVE  EnergyIsPast(e)'
    BY <1>n DEF EnergyIsPast
  <1>u. ASSUME cycle[e].energy.ok, cycle[e].energy.value <= used[Day(cycle[e].now)]
        PROVE  cycle[e].energy.value <= used'[Day(cycle[e].now)]
    <2>1. cycle[e].energy.value \in Nat
      BY <1>f, <1>u DEF Frame, EnergyResult, RequestResult, Optional, Reading
    <2> QED
      BY <1>f, <1>u, <2>1, CountersRise
  <1> USE DEF At
  <1>1. CASE Start(e)
    BY <1>1, <1>l, <1>n DEF Start, NewFrame, Failed
  <1>2. CASE AcquireLease(e)
    <2>1. cycle' = cycle /\ pc[e] = "acquire"
      BY <1>2 DEF AcquireLease
    <2> QED
      BY <1>n, <1>o, <2>1 DEF EnergyIsPast
  <1>3. CASE ReadHealth(e)
    <2>1. cycle'[e].energy = cycle[e].energy /\ pc[e] = "attempt"
      BY <1>3, <1>f, <1>l DEF ReadHealth, Frame
    <2> QED
      BY <1>n, <1>o, <2>1 DEF EnergyIsPast
  <1>4. CASE CooldownRequests(e)
    <2>1. cycle'[e].energy = CooldownFailure
      BY <1>4, <1>f, <1>l DEF CooldownRequests, Frame
    <2> QED
      BY <1>n, <2>1 DEF CooldownFailure, Failed
  <1>5. CASE Requests(e)
    <2> DEFINE today == Day(cycle[e].now)
    <2>1. PICK energy \in EnergyAnswers(today), state \in StateAnswers :
             cycle'[e] = [cycle[e] EXCEPT !.energy = energy, !.state = state,
                                          !.requested = TRUE]
      BY <1>5, <1>l DEF Requests
    <2>2. cycle'[e].energy = energy /\ cycle'[e].now = cycle[e].now
      BY <1>f, <2>1 DEF Frame
    <2>3. pc'[e] = "lookup" /\ telemetry' = telemetry /\ used' = used
      BY <1>5, <1>g DEF Requests, world
    <2> SUFFICES ASSUME energy.ok PROVE EnergyIsPast(e)'
      BY <1>n, <2>2
    <2>4. energy.value = used[today]
      <3>1. PICK v \in Readings(today) : v # NoValue /\ energy = Success(v)
        BY DEF EnergyAnswers, Failed
      <3> QED
        BY <1>f, <3>1, HonestReadings DEF Success
    <2>5. used[today] \in Nat
      BY <1>f DEF TypeInv, TypeOK
    <2>6. \A s \in Slots : telemetry[s] # NoValue /\ telemetry[s].energyOk =>
             telemetry[s].value <= used[Day(telemetry[s].at)]
      BY DEF HonestInv, ValuesArePast
    <2>7. used[today] <= used[today]
      BY <2>5
    <2> QED
      BY <2>2, <2>3, <2>4, <2>6, <2>7 DEF EnergyIsPast, MySlot
  <1>6. CASE FindPrevious(e)
    <2> DEFINE p == FindPreviousReading(MySlot(e))
    <2>1. /\ cycle'[e].now = cycle[e].now /\ cycle'[e].previous = p
          /\ cycle'[e].energy = cycle[e].energy
      BY <1>6, <1>f, <1>l DEF FindPrevious, Frame
    <2>2. /\ pc[e] = "lookup" /\ pc'[e] \in {"total", "write"}
          /\ telemetry' = telemetry
      BY <1>6, <1>g DEF FindPrevious, store
    <2> SUFFICES ASSUME cycle[e].energy.ok PROVE EnergyIsPast(e)'
      BY <1>n, <2>1
    <2>3. cycle[e].energy.value <= used'[Day(cycle[e].now)]
      BY <1>o, <1>u, <2>2 DEF EnergyIsPast
    <2>4. p # NoValue /\ DayGap(cycle[e].now, p) = 0 => p.value <= cycle[e].energy.value
      <3> SUFFICES ASSUME p # NoValue, DayGap(cycle[e].now, p) = 0
                   PROVE  p.value <= cycle[e].energy.value
        OBVIOUS
      <3>1. PICK n \in Slots :
               /\ n < MySlot(e) /\ telemetry[n] # NoValue /\ telemetry[n].energyOk
               /\ p = [slot |-> n, at |-> telemetry[n].at, value |-> telemetry[n].value]
        BY LocalsOf, FoundIsNewest
      <3>2. telemetry[n].at \in Time
        BY <3>1 DEF TypeInv, TypeOK, Optional, Document
      <3>3. Day(telemetry[n].at) = Day(cycle[e].now)
        BY <1>f, <3>1, <3>2, DaysFollowTime, InstantIsIndexed DEF DayGap, Days
      <3>4. n <= MySlot(e)
        <4>1. MySlot(e) \in Slots
          BY LocalsOf
        <4>2. Slots \subseteq Nat
          BY MaxTimeAssumption, InstantIsIndexed DEF Time, Slots
        <4>3. n < MySlot(e) /\ n \in Slots
          BY <3>1
        <4>4. n \in Nat /\ MySlot(e) \in Nat
          BY <4>1, <4>2, <4>3
        <4> QED
          BY <4>3, <4>4
      <3> QED
        BY <1>o, <2>2, <3>1, <3>3, <3>4 DEF EnergyIsPast
    <2> HIDE DEF p
    <2> QED
      BY <1>o, <2>1, <2>2, <2>3, <2>4 DEF EnergyIsPast, DayGap, MySlot
  <1>7. CASE ReadCachedTotal(e) \/ RequestTotal(e)
    <2>1. /\ cycle'[e].now = cycle[e].now /\ cycle'[e].previous = cycle[e].previous
          /\ cycle'[e].energy = cycle[e].energy
      BY <1>7, <1>f, <1>l DEF ReadCachedTotal, RequestTotal, Frame
    <2>2. /\ pc[e] \in {"total", "history"} /\ pc'[e] \in {"history", "write"}
          /\ telemetry' = telemetry
      BY <1>7, <1>g DEF ReadCachedTotal, RequestTotal, store
    <2> SUFFICES ASSUME cycle[e].energy.ok PROVE EnergyIsPast(e)'
      BY <1>n, <2>1
    <2>3. cycle[e].energy.value <= used'[Day(cycle[e].now)]
      BY <1>o, <1>u, <2>2 DEF EnergyIsPast
    <2> QED
      BY <1>o, <2>1, <2>2, <2>3 DEF EnergyIsPast, DayGap, MySlot
  <1>8. CASE \/ SkipForLease(e) \/ ReleaseLease(e) \/ ProfileFails(e)
             \/ WriteObservation(e) \/ UpdateRateLimitState(e) \/ EnqueueReconciliation(e)
             \/ ReadPending(e) \/ ExpireItem(e) \/ TakeItem(e) \/ LeaveItem(e)
             \/ FindTotal(e) \/ AskTotal(e) \/ LoadObservation(e)
             \/ ApplyReconciliation(e) \/ MarkImplausible(e) \/ DequeueReconciliation(e)
             \/ QueueDone(e) \/ RecordOutcome(e) \/ RecordError(e) \/ Abandon(e)
             \/ Raise(e) \/ StoreFails(e) \/ Crash(e)
    <2>1. pc'[e] \notin Early \union Later
      BY <1>8, <1>g
      DEF SkipForLease, ReleaseLease, ProfileFails, WriteObservation,
          UpdateRateLimitState, EnqueueReconciliation, ReadPending, ExpireItem, TakeItem,
          LeaveItem, IsNext, FindTotal, AskTotal, LoadObservation, ApplyReconciliation,
          MarkImplausible, DequeueReconciliation, QueueDone, RecordOutcome, RecordError,
          Abandon, Raise, StoreFails, Crash, Return
    <2> QED
      BY <2>1 DEF EnergyIsPast
  <1> QED
    BY <1>1, <1>2, <1>3, <1>4, <1>5, <1>6, <1>7, <1>8 DEF Step

\* Nor does a step of anything else change that.
LEMMA EnergyStaysPast ==
    ASSUME TypeInv, HonestInv, [Next]_vars, NEW f \in Executions,
           pc'[f] = pc[f], cycle'[f] = cycle[f], pc[f] \in Leased => telemetry' = telemetry
    PROVE  EnergyIsPast(f)'
  <1>1. EnergyIsPast(f)
    BY DEF HonestInv
  <1>2. cycle[f].now \in Time /\ Day(cycle[f].now) \in Days
    BY LocalsOf, InstantIsIndexed
  <1>3. cycle[f].energy.ok => cycle[f].energy.value \in Nat
    BY LocalsOf DEF Frame, EnergyResult, RequestResult, Optional, Reading
  <1>4. used[Day(cycle[f].now)] <= used'[Day(cycle[f].now)]
        /\ used[Day(cycle[f].now)] \in Nat /\ used'[Day(cycle[f].now)] \in Nat
    BY <1>2, CountersRise
  <1> QED
    BY <1>1, <1>3, <1>4 DEF EnergyIsPast, MySlot, DayGap, Leased, Body

\* Of an honest counter, what is stored, cached and held stays true.
LEMMA HonestAlways ==
    ASSUME MayOutlive = FALSE, MayLag = FALSE, WholeSlots, Honest
    PROVE  Spec => []HonestInv
  <1>1. Init => HonestInv
    BY DEF Init, HonestInv, TotalsAreFinal, ValuesArePast, EnergyIsPast
  <1>2. TypeInv /\ SeriesInv /\ LeaseInv /\ OrderInv /\ LoopInv /\ DerivedInv /\ HonestInv
            /\ [Next]_vars => HonestInv'
    <2> SUFFICES ASSUME TypeInv, SeriesInv, LeaseInv, OrderInv, LoopInv, DerivedInv,
                        HonestInv, [Next]_vars
                 PROVE  HonestInv'
      OBVIOUS
    <2>1. TotalsAreFinal' /\ ValuesArePast'
      BY TotalsAreFinalStep, ValuesArePastStep DEF HonestInv
    <2>2. LeaseInv'
      BY LeaseStep
    <2>3. ASSUME NEW f \in Executions
          PROVE  EnergyIsPast(f)'
      <3>1. ASSUME NEW e \in Executions,
                   \/ Start(e) \/ Step(e) \/ Abandon(e) \/ Raise(e) \/ StoreFails(e) \/ Crash(e)
            PROVE  EnergyIsPast(f)'
        <4>1. CASE f = e
          BY <3>1, <4>1, EnergyIsPastStep
        <4>2. CASE f # e
          BY <2>2, <3>1, <4>2, OthersStay, EnergyStaysPast
        <4> QED
          BY <4>1, <4>2
      <3>2. CASE Tick \/ UNCHANGED vars
        BY <3>2, EnergyStaysPast DEF Tick, vars, store
      <3> QED
        BY <3>1, <3>2 DEF Next
    <2> QED
      BY <2>1, <2>3 DEF HonestInv
  <1> QED
    BY <1>1, <1>2, DerivedAlways, OrderAlways, LoopAlways, LeaseInit, LeaseStep,
       TypesAndPlaces, SeriesIsRight, PTL
    DEF Spec

\* Every stored interval, reconciled or not, is what the air conditioner used
\* between its two readings, if the counter is honest, cycles hold their lease,
\* and no midnight falls inside a slot.
THEOREM IntervalsAreConsumption ==
    ASSUME MayOutlive = FALSE, MayLag = FALSE, WholeSlots
    PROVE  Spec => []IntervalsAreTrue
  <1>1. TypeInv /\ DerivedInv /\ (Honest => HonestInv) => IntervalsAreTrue
    <2> SUFFICES ASSUME TypeInv, DerivedInv, HonestInv, NEW s \in Slots,
                        telemetry[s] # NoValue, telemetry[s].interval # NoValue
                 PROVE  telemetry[s].interval = Consumed(telemetry[s])
      BY DEF IntervalsAreTrue
    <2>1. WellDerived(s)
      BY DEF DerivedInv
    <2>2. telemetry[s] \in Document
      BY DEF TypeInv, TypeOK, Optional
    <2>3. telemetry[s].previous \in PreviousReading
      BY <2>1, <2>2 DEF WellDerived, Document, Optional
    <2>4. /\ Day(telemetry[s].at) \in Int
          /\ Day(telemetry[s].previous.at) \in Int
          /\ Day(telemetry[s].previous.at) \in Days
      BY <2>2, <2>3, InstantIsIndexed DEF Document, PreviousReading, Days
    <2> QED
      BY <2>1, <2>4
      DEF WellDerived, Consumed, Reconstruct, DayGap, HonestInv, TotalsAreFinal
  <1>2. CASE Honest
    BY <1>1, <1>2, HonestAlways, DerivedAlways, TypesAndPlaces, PTL
  <1>3. CASE ~Honest
    BY <1>1, <1>3, DerivedAlways, TypesAndPlaces, PTL
  <1> QED
    BY <1>2, <1>3

\* A better observation of a slot has a number if the one it replaces had one, and
\* one that is not below it.
LEMMA NumberIsFoundAgain ==
    ASSUME WholeSlots, TypeInv, SeriesInv, OrderInv, DerivedInv, HonestInv,
           NEW e \in Executions, NEW u \in Slots, WritesSlot(e, u),
           telemetry[u] # NoValue, telemetry[u].interval # NoValue
    PROVE  /\ Built(e).interval # NoValue
           /\ Built(e).interval >= telemetry[u].interval
           /\ Raw(Built(e)) # Raw(telemetry[u])
  <1> DEFINE doc == telemetry[u]
             c == cycle[e]
  <1>1. /\ doc \in Document /\ Slot(doc.at) = u /\ doc.at \in Time
        /\ pc[e] = "write" /\ u = MySlot(e)
        /\ Completeness(Built(e)) > Completeness(doc)
    BY DEF WritesSlot, Supersedes, At, TypeInv, TypeOK, Optional, Document, SeriesInv,
           Documented
  <1>2. c \in Frame /\ c.now \in Time /\ Slot(c.now) = u
    BY <1>1, LocalsOf DEF MySlot
  <1>3. doc.energyOk /\ doc.previous # NoValue /\ doc.previous = c.previous
    BY <1>1 DEF OrderInv, InOrder, Grounded, WellBased, DerivedInv, WellDerived
  <1>4. c.energy.ok
    <2>1. Built(e).energyOk = c.energy.ok /\ c.energy.ok \in BOOLEAN /\ Built(e).stateOk \in BOOLEAN
      BY <1>2, BuiltTyped DEF Built, BuildObservation, Document, Frame, EnergyResult, RequestResult
    <2> QED
      BY <1>1, <1>3, <2>1 DEF Completeness, Document
  <1>5. c.energy.value \in Nat /\ c.previous \in PreviousReading
    BY <1>1, <1>2, <1>3, <1>4
    DEF Frame, EnergyResult, RequestResult, Optional, Reading
  <1>6. DayGap(c.now, c.previous) = DayGap(doc.at, doc.previous)
    BY <1>1, <1>2, <1>3 DEF WholeSlots, DayGap
  <1>7. ASSUME DayGap(c.now, c.previous) = 0
        PROVE  Built(e).interval # NoValue
    <2>1. c.previous.value <= c.energy.value
      BY <1>1, <1>3, <1>4, <1>7 DEF HonestInv, EnergyIsPast
    <2> QED
      BY <1>3, <1>5, <1>7, <2>1, NoValueAssumption
      DEF Built, BuildObservation, ComputeInterval, SameDay, Outcome, PreviousReading,
          Reading
  <1>8. ASSUME DayGap(c.now, c.previous) = 1
        PROVE  Built(e).interval # NoValue
    <2> DEFINE d == Day(c.previous.at)
    <2>1. dailyTotals[d] # NoValue /\ c.final = dailyTotals[d]
      <3>1. WellDerived(u) /\ TotalIsCached(e)
        BY DEF DerivedInv
      <3>2. dailyTotals[Day(doc.previous.at)] # NoValue
        BY <1>6, <1>8, <3>1 DEF WellDerived
      <3>3. c.final = dailyTotals[PreviousDay(e)]
        BY <1>1, <1>3, <1>4, <1>8, <3>1 DEF TotalIsCached
      <3> QED
        BY <1>3, <3>2, <3>3 DEF PreviousDay
    <2>2. d \in Days /\ c.previous.at \in Time
      BY <1>5, InstantIsIndexed DEF PreviousReading
    <2>3. c.final = used[d] /\ c.final \in Nat
      BY <2>1, <2>2 DEF HonestInv, TotalsAreFinal, TypeInv, TypeOK
    <2>4. c.previous.value <= used[d]
      <3>1. c.previous = FindPreviousReading(u)
        BY <1>1 DEF OrderInv, InOrder, Grounded, BaseOf
      <3>2. PICK n \in Slots :
               /\ telemetry[n] # NoValue /\ telemetry[n].energyOk
               /\ c.previous = [slot |-> n, at |-> telemetry[n].at,
                                value |-> telemetry[n].value]
        BY <1>3, <3>1, FoundIsNewest
      <3> QED
        BY <3>2 DEF HonestInv, ValuesArePast
    <2> QED
      BY <1>3, <1>5, <1>8, <2>1, <2>3, <2>4, NoValueAssumption
      DEF Built, BuildObservation, ComputeInterval, DayRollover, Reconstruct, Outcome,
          PreviousReading, Reading
  <1>9. Built(e).interval # NoValue
    BY <1>6, <1>7, <1>8 DEF DerivedInv, WellDerived
  <1>10. doc.value \in Nat /\ doc.value <= c.energy.value
    <2>1. WellDerived(u) /\ EnergyIsPast(e)
      BY DEF DerivedInv, HonestInv
    <2>2. doc.value \in Nat
      BY <1>1, <2>1 DEF WellDerived, Document, Optional, Reading
    <2>3. Day(doc.at) = Day(c.now)
      BY <1>1, <1>2 DEF WholeSlots
    <2>4. u <= MySlot(e)
      BY <1>1, MaxTimeAssumption, InstantIsIndexed DEF Time, Slots
    <2> QED
      BY <1>1, <1>3, <1>4, <2>1, <2>2, <2>3, <2>4 DEF EnergyIsPast
  <1>11. Built(e).interval >= doc.interval
    <2>1. WellDerived(u) /\ TotalIsCached(e)
      BY DEF DerivedInv
    <2>2. c.previous.value \in Nat
      BY <1>5 DEF PreviousReading, Reading
    <2>3. CASE DayGap(c.now, c.previous) = 0
      <3>1. Built(e).interval = c.energy.value - c.previous.value
        BY <1>9, <2>3, BuiltIsDerived
      <3>2. doc.interval = doc.value - c.previous.value
        BY <1>3, <1>6, <2>1, <2>3 DEF WellDerived
      <3> QED
        BY <1>5, <1>10, <2>2, <3>1, <3>2
    <2>4. CASE DayGap(c.now, c.previous) = 1
      <3>1. Built(e).interval =
               Reconstruct(c.final, c.previous.value, c.energy.value)
        BY <1>9, <2>4, BuiltIsDerived
      <3>2. /\ doc.final = dailyTotals[Day(c.previous.at)]
            /\ doc.interval = Reconstruct(doc.final, c.previous.value, doc.value)
        BY <1>3, <1>6, <2>1, <2>4 DEF WellDerived
      <3>3. c.final = doc.final
        BY <1>1, <1>3, <1>4, <2>1, <2>4, <3>2 DEF TotalIsCached, PreviousDay
      <3>4. c.final \in Nat
        <4>1. Day(c.previous.at) \in Days
          BY <1>5, InstantIsIndexed DEF PreviousReading
        <4>2. dailyTotals[Day(c.previous.at)] # NoValue
          BY <1>3, <1>6, <2>1, <2>4 DEF WellDerived
        <4> QED
          BY <3>2, <3>3, <4>1, <4>2 DEF TypeInv, TypeOK, Optional, Reading
      <3> QED
        BY <1>5, <1>10, <2>2, <3>1, <3>2, <3>3, <3>4 DEF Reconstruct
    <2> QED
      BY <1>6, <2>1, <2>3, <2>4, <1>3 DEF WellDerived
  <1>12. Raw(Built(e)) # Raw(doc)
    <2> SUFFICES ASSUME Raw(Built(e)) = Raw(doc) PROVE FALSE
      OBVIOUS
    <2>1. Built(e).energyOk = doc.energyOk /\ Built(e).stateOk = doc.stateOk
      BY DEF Raw
    <2>2. Completeness(Built(e)) = Completeness(doc) /\ Completeness(doc) \in Int
      BY <2>1 DEF Completeness
    <2> QED
      BY <1>1, <2>2
  <1> QED
    BY <1>9, <1>11, <1>12

\* A patch gives a number that is already there once more.
LEMMA NumberIsMadeAgain ==
    ASSUME WholeSlots, TypeInv, SeriesInv, OrderInv, LoopInv, DerivedInv,
           NEW e \in Executions, NEW u \in Slots, PatchesSlot(e, u),
           telemetry[u] # NoValue, telemetry[u].interval # NoValue
    PROVE  telemetry'[u].interval = telemetry[u].interval
  <1>1. /\ DayGap(telemetry[u].at, telemetry[u].previous) = 1
        /\ cycle[e].total = dailyTotals[Day(telemetry[u].previous.at)]
        /\ pc[e] = "apply" =>
              cycle[e].interval = ReconciledInterval(telemetry[u], cycle[e].total)
    BY PatchIsDerived
  <1>2. telemetry[u].interval = ReconciledInterval(telemetry[u], cycle[e].total)
    BY <1>1 DEF DerivedInv, WellDerived, ReconciledInterval
  <1> QED
    BY <1>1, <1>2, PatchFields DEF At

\* A stored number stays: a patch makes the same one, and a better observation
\* of its slot comes with one that is not below it.
THEOREM NumbersStay ==
    ASSUME MayOutlive = FALSE, MayLag = FALSE, WholeSlots
    PROVE  Spec => NumberStays
  <1> DEFINE StaysAt(s) ==
        /\ telemetry'[s].interval # NoValue
        /\ telemetry'[s].interval >= telemetry[s].interval
        /\ Raw(telemetry'[s]) = Raw(telemetry[s]) =>
              telemetry'[s].interval = telemetry[s].interval
      Stays ==
        \A s \in Slots :
            telemetry[s] # NoValue /\ telemetry[s].interval # NoValue => StaysAt(s)
  <1>1. TypeInv /\ SeriesInv /\ OrderInv /\ LoopInv /\ DerivedInv /\ HonestInv /\ [Next]_vars
            => Stays
    <2> SUFFICES ASSUME TypeInv, SeriesInv, OrderInv, LoopInv, DerivedInv, HonestInv,
                        [Next]_vars, NEW u \in Slots,
                        telemetry[u] # NoValue, telemetry[u].interval # NoValue
                 PROVE  StaysAt(u)
      OBVIOUS
    <2>1. /\ telemetry \in [Slots -> Optional(Document)]
          /\ telemetry[u].interval \in Int
      <3>1. telemetry \in [Slots -> Optional(Document)]
        BY DEF TypeInv, TypeOK
      <3> QED
        BY <3>1 DEF SeriesInv, Documented, Numbered, Optional, Document
    <2>2. ASSUME NEW e \in Executions, WritesSlot(e, u)
          PROVE  StaysAt(u)
      <3>1. telemetry'[u] = Built(e)
        BY <2>1, <2>2 DEF WritesSlot
      <3> QED
        BY <2>2, <3>1, NumberIsFoundAgain
    <2>3. ASSUME telemetry'[u].interval = telemetry[u].interval
          PROVE  StaysAt(u)
      BY <2>1, <2>3
    <2>4. ASSUME NEW e \in Executions, PatchesSlot(e, u)
          PROVE  StaysAt(u)
      BY <2>3, <2>4, NumberIsMadeAgain
    <2>5. ASSUME NEW e \in Executions, NEW s \in Slots,
                 WritesSlot(e, s) \/ PatchesSlot(e, s), s # u
          PROVE  telemetry'[u] = telemetry[u]
      BY <2>1, <2>5 DEF WritesSlot, PatchesSlot
    <2> HIDE DEF StaysAt
    <2> QED
      BY <2>2, <2>3, <2>4, <2>5, StepsAndTheSeries
  <1>2. CASE Honest
    <2>1. Stays => (Honest => Stays)
      OBVIOUS
    <2> QED
      BY <1>1, <1>2, HonestAlways, DerivedAlways, LoopAlways, OrderAlways, SeriesIsRight,
         TypesAndPlaces, PTL
      DEF Spec, NumberStays
  <1>3. CASE ~Honest
    BY <1>3, PTL DEF Spec, NumberStays
  <1> QED
    BY <1>2, <1>3
=============================================================================
