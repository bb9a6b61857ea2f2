----------------------------- MODULE PollerProofs -----------------------------
(***************************************************************************)
(* For every interval, however early its timers fire: the poller loop      *)
(* stops promptly, and skips no more than one slot as long as a cycle is   *)
(* no longer than an interval and a timer later than none. And of every    *)
(* series that it leaves, whatever the window: what the pages call         *)
(* complete is, the bars add up to the total, and the total is what was    *)
(* consumed.                                                               *)
(***************************************************************************)
EXTENDS RangeView, ObservationProofs, FiniteSetTheorems

\* The instant c after a cycle that started at `now` from which the loop waited.
AfterCycle(c) == c \in Nat /\ now <= c /\ c <= now + MaxCycle

\* What each place of the loop knows of the signal, the last cycle and the wait:
\* time passes at the top of the loop never, and in the wait only unsignalled.
LoopInv ==
    /\ clock \in Nat
    /\ loop \in Loop
    /\ now # NoValue => now \in Nat /\ now <= clock
    /\ shutdown # NoValue => shutdown \in Nat
    /\ loop = "off" => shutdown = NoValue /\ now = NoValue
    /\ loop \in {"top", "wait"} => (shutdown # NoValue => shutdown = clock)
    /\ loop \in {"cycle", "tail"} =>
           /\ now # NoValue
           /\ clock <= now + MaxCycle
           /\ shutdown # NoValue => now <= shutdown
    /\ loop = "wait" =>
           /\ now # NoValue
           /\ \E c \in Nat : AfterCycle(c) /\ wake = NextSlot(c)
           /\ clock <= wake + MaxLate
    /\ loop = "top" /\ now # NoValue =>
           \E c \in Nat : AfterCycle(c) /\ clock <= NextSlot(c) + MaxLate

-----------------------------------------------------------------------------
(* Slots and instants. *)

\* A slot begins no later than any instant in it, and the next one after it.
LEMMA SlotBounds ==
    ASSUME NEW t \in Nat
    PROVE  /\ Slot(t) \in Nat
           /\ Slot(t) * Interval <= t
           /\ t < (Slot(t) + 1) * Interval
  <1>1. \A a \in Nat, b \in Nat \ {0} :
            /\ a \div b \in Nat
            /\ (a \div b) * b <= a
            /\ a < ((a \div b) + 1) * b
    OBVIOUS
  <1> QED
    BY <1>1, IntervalAssumption DEF Slot

\* An instant before the end of slot s lies in s or before it.
LEMMA SlotBefore ==
    ASSUME NEW t \in Nat, NEW s \in Nat, t < (s + 1) * Interval
    PROVE  Slot(t) <= s
  <1>1. \A m \in Nat, n \in Nat, b \in Nat \ {0} : m >= n + 1 => m * b >= (n + 1) * b
    OBVIOUS
  <1>2. Slot(t) \in Nat /\ Slot(t) * Interval <= t
    BY SlotBounds
  <1>3. Slot(t) >= s + 1 => Slot(t) * Interval >= (s + 1) * Interval
    BY <1>1, <1>2, IntervalAssumption
  <1>4. (s + 1) * Interval \in Nat /\ Slot(t) * Interval \in Nat
    BY <1>2, IntervalAssumption
  <1> DEFINE a == Slot(t) * Interval
             b == (s + 1) * Interval
  <1>5. a \in Nat /\ b \in Nat /\ a <= t /\ t < b /\ (Slot(t) >= s + 1 => a >= b)
    BY <1>2, <1>3, <1>4
  <1> HIDE DEF a, b
  <1> QED
    BY <1>2, <1>5

\* Later instants lie in later slots, or the same.
LEMMA SlotMonotone ==
    ASSUME NEW t \in Nat, NEW u \in Nat, t <= u
    PROVE  Slot(t) <= Slot(u)
  <1>1. t < (Slot(u) + 1) * Interval
    <2>1. (Slot(u) + 1) * Interval \in Nat
      BY SlotBounds, IntervalAssumption
    <2> QED
      BY <2>1, SlotBounds
  <1> QED
    BY <1>1, SlotBefore, SlotBounds

-----------------------------------------------------------------------------
(* The invariant. *)

\* Nothing has started.
LEMMA LoopInit == Init => LoopInv
  BY DEF Init, LoopInv, Loop

\* Every step of the loop, the operator and the clock keeps the invariant.
LEMMA LoopStep == LoopInv /\ [Next]_vars => LoopInv'
  <1> SUFFICES ASSUME LoopInv, [Next]_vars
               PROVE  LoopInv'
    OBVIOUS
  <1> USE NoValueAssumption, CycleAssumption, TimerAssumption DEF Loop
  <1>1. CASE Start
    BY <1>1 DEF Start, LoopInv
  <1>2. CASE BeginCycle
    BY <1>2 DEF BeginCycle, LoopInv
  <1>3. CASE Observe
    BY <1>3 DEF Observe, LoopInv
  <1>4. CASE Abandon
    BY <1>4 DEF Abandon, LoopInv
  <1>5. CASE Stop \/ Kill
    BY <1>5 DEF Stop, Kill, Ended, LoopInv
  <1>6. CASE WaitForSlot
    <2>1. /\ loop = "tail" /\ shutdown = NoValue /\ loop' = "wait"
          /\ wake' = NextSlot(clock)
          /\ UNCHANGED <<shutdown, now, clock>>
      BY <1>6 DEF WaitForSlot
    <2>2. AfterCycle(clock)
      BY <2>1 DEF LoopInv, AfterCycle
    <2>3. NextSlot(clock) \in Nat /\ clock < NextSlot(clock)
      BY SlotBounds, IntervalAssumption DEF NextSlot, LoopInv
    <2>4. clock' <= wake' + MaxLate
      BY <2>1, <2>3 DEF LoopInv
    <2>5. (\E c \in Nat : AfterCycle(c) /\ wake = NextSlot(c))'
      BY <2>1, <2>2 DEF LoopInv, AfterCycle, NextSlot
    <2> QED
      BY <2>1, <2>4, <2>5 DEF LoopInv
  <1>7. CASE WakeUp
    <2>1. PICK c \in Nat : AfterCycle(c) /\ wake = NextSlot(c)
      BY <1>7 DEF WakeUp, LoopInv
    <2>2. /\ loop = "wait" /\ loop' = "top"
          /\ UNCHANGED <<shutdown, now, wake, clock>>
      BY <1>7 DEF WakeUp
    <2>3. (\E d \in Nat : AfterCycle(d) /\ clock <= NextSlot(d) + MaxLate)'
      BY <2>1, <2>2 DEF LoopInv, AfterCycle, NextSlot
    <2> QED
      BY <2>2, <2>3 DEF LoopInv
  <1>8. CASE Signal
    BY <1>8 DEF Signal, LoopInv, AfterCycle
  <1>9. CASE Tick
    <2>1. /\ MayPass
          /\ clock' = clock + 1
          /\ UNCHANGED <<loop, shutdown, now, wake>>
      BY <1>9 DEF Tick
    <2>2. CASE loop = "wait"
      <3>1. shutdown = NoValue /\ ~(clock - MaxLate >= wake)
        BY <2>1, <2>2 DEF MayPass, WaitIsOver
      <3>2. PICK c \in Nat : AfterCycle(c) /\ wake = NextSlot(c)
        BY <2>2 DEF LoopInv
      <3>3. wake \in Nat
        BY <3>2, SlotBounds, IntervalAssumption DEF NextSlot
      <3>4. (\E d \in Nat : AfterCycle(d) /\ wake = NextSlot(d))'
        BY <2>1, <3>2 DEF AfterCycle, NextSlot
      <3> QED
        BY <2>1, <2>2, <3>1, <3>3, <3>4 DEF LoopInv
    <2>3. CASE loop \in {"cycle", "tail"}
      <3>1. clock < now + MaxCycle
        BY <2>1, <2>3 DEF MayPass
      <3>2. /\ loop' \in {"cycle", "tail"} /\ loop' \notin {"off", "top", "wait"}
            /\ now' = now /\ shutdown' = shutdown
        BY <2>1, <2>3
      <3> QED
        BY <2>1, <2>3, <3>1, <3>2 DEF LoopInv
    <2>4. CASE loop = "off"
      BY <2>1, <2>4 DEF LoopInv
    <2>5. loop # "top"
      BY <2>1 DEF MayPass
    <2> QED
      BY <2>2, <2>3, <2>4, <2>5 DEF LoopInv
  <1>10. CASE UNCHANGED vars
    BY <1>10 DEF vars, LoopInv, AfterCycle, NextSlot
  <1> QED
    BY <1>1, <1>2, <1>3, <1>4, <1>5, <1>6, <1>7, <1>8, <1>9, <1>10 DEF Next, Step

\* The invariant holds in every reachable state.
THEOREM LoopIsRight == Spec => []LoopInv
  <1> QED
    BY LoopInit, LoopStep, PTL DEF Spec

-----------------------------------------------------------------------------
(* The series. *)

\* A document is stored in the slot it was observed in.
Sampled == \A s \in Stored : Slot(telemetry[s].at) = s

\* What the loop knows, and what it leaves behind.
PollerInv == LoopInv /\ TypeOK /\ Sampled

\* The slot of an instant up to the bound is one of the slots.
LEMMA SlotIsOne ==
    ASSUME NEW t \in Time
    PROVE  t \in Nat /\ Slot(t) \in Slots
  <1>1. t \in Nat /\ MaxTime \in Nat /\ t <= MaxTime
    BY MaxTimeAssumption DEF Time
  <1> QED
    BY <1>1, SlotBounds, SlotMonotone DEF Slots

\* The baseline of a slot, when there is one, is a reading of a stored document.
LEMMA BaselineTyped ==
    ASSUME TypeOK, NEW slot
    PROVE  Baseline(slot) \in Optional(PreviousReading)
  <1> DEFINE usable == {s \in Stored : s < slot /\ telemetry[s].energyOk}
  <1>1. CASE usable = {}
    BY <1>1 DEF Baseline, Optional
  <1>2. CASE usable # {}
    <2> DEFINE newest == CHOOSE s \in usable : \A u \in usable : u <= s
    <2>1. usable \subseteq 0..Slot(MaxTime) /\ Slot(MaxTime) \in Nat
      BY MaxTimeAssumption, SlotBounds DEF Stored, Slots
    <2>2. \E s \in usable : \A u \in usable : u <= s
      BY <1>2, <2>1, NewestExists
    <2>3. newest \in usable
      BY <2>2
    <2>4. Baseline(slot) = AsPreviousReading(newest, telemetry[newest])
      BY <1>2 DEF Baseline
    <2> HIDE DEF newest
    <2>5. newest \in Nat /\ telemetry[newest] \in Document
      BY <2>3, <2>1 DEF TypeOK, Stored, Optional, Slots
    <2> QED
      BY <2>4, <2>5 DEF AsPreviousReading, Document, PreviousReading, Optional
  <1> QED
    BY <1>1, <1>2

\* What a cycle may store is a document, observed when the cycle started.
LEMMA ObservationsTyped ==
    ASSUME TypeOK, NEW t \in Time
    PROVE  \A doc \in Observations(t) : doc \in Document /\ doc.at = t
  <1> DEFINE hasPrior == \E s \in Stored : s < Slot(t)
  <1>1. \A a \in Nat, b \in Nat \ {0} : a % b \in Nat
    OBVIOUS
  <1>2. Counter(t) \in Nat /\ Counter(t) # NoValue
    BY <1>1, SlotIsOne, DayLengthAssumption, NoValueAssumption DEF Counter
  <1>3. /\ Success(Counter(t)) \in EnergyResult
        /\ Failed("OTHER") \in EnergyResult
        /\ Success(NoValue) \in StateResult
    BY <1>2
    DEF Success, Failed, EnergyResult, StateResult, RequestResult, Optional, Reading,
        FailureClass
  <1>4. {NoValue, DayLength} \subseteq Optional(Reading)
    BY DayLengthAssumption DEF Optional, Reading
  <1>5. hasPrior \in BOOLEAN
    OBVIOUS
  <1>6. Observations(t) =
          {BuildObservation(t, energy, Success(NoValue), Baseline(Slot(t)),
                            hasPrior, final) :
             energy \in {Success(Counter(t)), Failed("OTHER")},
             final \in {NoValue, DayLength}}
    BY DEF Observations
  <1> HIDE DEF hasPrior
  <1> DEFINE build(energy, final) ==
               BuildObservation(t, energy, Success(NoValue), Baseline(Slot(t)),
                                hasPrior, final)
  <1>7. \A energy \in EnergyResult, final \in Optional(Reading) :
           build(energy, final) \in Document /\ build(energy, final).at = t
    <2> SUFFICES ASSUME NEW energy \in EnergyResult, NEW final \in Optional(Reading)
                 PROVE  build(energy, final) \in Document /\ build(energy, final).at = t
      OBVIOUS
    <2>1. build(energy, final) \in Document
      BY <1>3, <1>5, BaselineTyped, ObservationTyped
    <2>2. build(energy, final).at = t
      BY DEF BuildObservation
    <2> QED
      BY <2>1, <2>2
  <1>8. Observations(t) = {build(energy, final) :
                             energy \in {Success(Counter(t)), Failed("OTHER")},
                             final \in {NoValue, DayLength}}
    BY <1>6
  <1> HIDE DEF build
  <1> QED
    BY <1>3, <1>4, <1>7, <1>8

\* Nothing is stored.
LEMMA SeriesInit == Init => TypeOK /\ Sampled
  <1>1. 0 \in Time /\ 0 \in 0..(Slot(MaxTime) + 1) /\ 0 = 0 * Interval
    BY MaxTimeAssumption, SlotBounds, IntervalAssumption DEF Time
  <1> QED
    BY <1>1 DEF Init, TypeOK, Sampled, Stored, Optional, Loop

\* A write creates or upgrades the document of the slot, or leaves the series.
LEMMA ObserveWrites ==
    ASSUME Observe, telemetry \in [Slots -> Optional(Document)]
    PROVE  \E doc \in Observations(now) :
              telemetry' = IF \/ telemetry[Slot(now)] = NoValue
                              \/ Completeness(doc) > Completeness(telemetry[Slot(now)])
                           THEN [telemetry EXCEPT ![Slot(now)] = doc]
                           ELSE telemetry
  <1>1. PICK doc \in Observations(now) :
           telemetry' = [telemetry EXCEPT ![Slot(now)] = Written(telemetry[Slot(now)], doc)]
    BY DEF Observe
  <1>2. [telemetry EXCEPT ![Slot(now)] = telemetry[Slot(now)]] = telemetry
    OBVIOUS
  <1> QED
    BY <1>1, <1>2 DEF Written

\* A write keeps the series, and every other step leaves it alone.
LEMMA SeriesStep == PollerInv /\ [Next]_vars => TypeOK' /\ Sampled'
  <1> SUFFICES ASSUME PollerInv, [Next]_vars
               PROVE  TypeOK' /\ Sampled'
    OBVIOUS
  <1> USE DEF PollerInv
  <1>t. /\ telemetry \in [Slots -> Optional(Document)]
        /\ shutdown \in Optional(Time)
        /\ now \in Optional(Time)
        /\ wake \in {s * Interval : s \in 0..(Slot(MaxTime) + 1)}
        /\ clock \in Time
    BY DEF TypeOK
  <1>z. 0 \in {s * Interval : s \in 0..(Slot(MaxTime) + 1)}
    <2>1. 0 \in 0..(Slot(MaxTime) + 1) /\ 0 = 0 * Interval
      BY MaxTimeAssumption, SlotBounds, IntervalAssumption
    <2> QED
      BY <2>1
  <1>1. CASE Observe
    <2>1. PICK doc \in Observations(now) :
             telemetry' = IF \/ telemetry[Slot(now)] = NoValue
                             \/ Completeness(doc) > Completeness(telemetry[Slot(now)])
                          THEN [telemetry EXCEPT ![Slot(now)] = doc]
                          ELSE telemetry
      BY <1>1, <1>t, ObserveWrites
    <2>2. loop' = "tail" /\ UNCHANGED <<shutdown, now, wake, clock>>
      BY <1>1 DEF Observe
    <2>3. now \in Time
      BY <1>1, <1>t DEF Observe, LoopInv, Optional
    <2>4. Slot(now) \in Slots /\ doc \in Document /\ doc.at = now
      BY <2>1, <2>3, SlotIsOne, ObservationsTyped
    <2>5. telemetry' \in [Slots -> Optional(Document)]
      BY <2>1, <2>4, <1>t DEF Optional
    <2>6. TypeOK'
      BY <2>2, <2>5, <1>t DEF TypeOK, Loop
    <2>7. Sampled'
      <3> SUFFICES ASSUME NEW s \in Slots, telemetry'[s] # NoValue
                   PROVE  Slot(telemetry'[s].at) = s
        BY DEF Sampled, Stored
      <3>1. \/ s = Slot(now) /\ telemetry'[s] = doc
            \/ telemetry'[s] = telemetry[s]
        BY <2>1, <2>4, <1>t
      <3> QED
        BY <2>4, <3>1 DEF Sampled, Stored
    <2> QED
      BY <2>6, <2>7
  <1>2. CASE WaitForSlot
    <2>1. NextSlot(clock) \in {s * Interval : s \in 0..(Slot(MaxTime) + 1)}
      <3>1. Slot(clock) \in 0..Slot(MaxTime) /\ Slot(MaxTime) \in Nat
        BY <1>t, SlotIsOne, MaxTimeAssumption, SlotBounds DEF Slots
      <3>2. \A n \in Nat : \A m \in 0..n : m + 1 \in 0..(n + 1)
        OBVIOUS
      <3>3. Slot(clock) + 1 \in 0..(Slot(MaxTime) + 1)
        BY <3>1, <3>2
      <3> QED
        BY <3>3 DEF NextSlot
    <2> QED
      BY <1>2, <1>t, <2>1 DEF WaitForSlot, TypeOK, Sampled, Stored, Loop
  <1>3. CASE Tick
    <2>1. clock' \in Time
      BY <1>3, <1>t, MaxTimeAssumption DEF Tick, Time
    <2> QED
      BY <1>3, <1>t, <2>1 DEF Tick, TypeOK, Sampled, Stored, Loop
  <1>4. CASE Stop \/ Kill
    BY <1>4, <1>t, <1>z DEF Stop, Kill, Ended, TypeOK, Sampled, Stored, Loop, Optional
  <1>5. CASE BeginCycle \/ Abandon \/ WakeUp \/ Start
    BY <1>5, <1>t
    DEF BeginCycle, Abandon, WakeUp, Start, TypeOK, Sampled, Stored, Loop, Optional
  <1>6. CASE Signal
    BY <1>6, <1>t DEF Signal, TypeOK, Sampled, Stored, Loop, Optional
  <1>7. CASE UNCHANGED vars
    BY <1>7, <1>t DEF vars, TypeOK, Sampled, Stored
  <1> QED
    BY <1>1, <1>2, <1>3, <1>4, <1>5, <1>6, <1>7 DEF Next, Step

\* The loop and its series are right in every reachable state.
THEOREM PollerIsRight == Spec => []PollerInv
  <1>1. Init => PollerInv
    BY LoopInit, SeriesInit DEF PollerInv
  <1>2. PollerInv /\ [Next]_vars => PollerInv'
    BY LoopStep, SeriesStep DEF PollerInv
  <1> QED
    BY <1>1, <1>2, PTL DEF Spec

\* Types: the series, the place in the loop, the signal, the last cycle, the wait.
THEOREM TypeCorrect == Spec => []TypeOK
  <1>1. PollerInv => TypeOK
    BY DEF PollerInv
  <1> QED
    BY <1>1, PollerIsRight, PTL

-----------------------------------------------------------------------------

\* After a signal the process is gone within one cycle: no wait is sat out, and
\* no cycle begins, wherever in the loop the signal comes.
THEOREM StopsPromptly == Spec => []StopIsPrompt
  <1>1. LoopInv => StopIsPrompt
    <2> SUFFICES ASSUME LoopInv, loop # "off", shutdown # NoValue
                 PROVE  clock <= shutdown + MaxCycle
      BY DEF StopIsPrompt
    <2>1. CASE loop \in {"top", "wait"}
      BY <2>1, CycleAssumption DEF LoopInv
    <2>2. CASE loop \in {"cycle", "tail"}
      BY <2>2, CycleAssumption DEF LoopInv
    <2> QED
      BY <2>1, <2>2 DEF LoopInv, Loop
  <1> QED
    BY <1>1, LoopIsRight, PTL

\* As long as a cycle is no longer than an interval, and a timer less than one
\* late, a process that polls on skips no more than one slot, and that one only
\* if it began before the cycle had to be over.
THEOREM SkipsFew ==
    ASSUME MaxCycle <= Interval, MaxLate < Interval
    PROVE  Spec => SkipsAtMostOneSlot
  <1> DEFINE Skips ==
        BeginCycle /\ now # NoValue =>
          /\ Slot(now) <= Slot(clock)
          /\ Slot(clock) <= Slot(now) + 2
          /\ Slot(clock) = Slot(now) + 2 => Slot(now + MaxCycle) > Slot(now)
  <1>1. LoopInv => Skips
    <2> SUFFICES ASSUME LoopInv, BeginCycle, now # NoValue
                 PROVE  /\ Slot(now) <= Slot(clock)
                        /\ Slot(clock) <= Slot(now) + 2
                        /\ Slot(clock) = Slot(now) + 2 => Slot(now + MaxCycle) > Slot(now)
      OBVIOUS
    <2> USE CycleAssumption, TimerAssumption, IntervalAssumption
    <2>1. now \in Nat /\ clock \in Nat /\ now <= clock
      BY DEF LoopInv
    <2>2. PICK c \in Nat : AfterCycle(c) /\ clock <= NextSlot(c) + MaxLate
      BY DEF LoopInv, BeginCycle
    <2> DEFINE last == now + MaxCycle
    <2>3. last \in Nat /\ c <= last /\ last <= now + Interval
      BY <2>1, <2>2 DEF AfterCycle
    <2>4. /\ Slot(now) \in Nat /\ Slot(c) \in Nat /\ Slot(last) \in Nat
          /\ Slot(clock) \in Nat
      BY <2>1, <2>3, SlotBounds
    <2>5. Slot(now) <= Slot(clock)
      BY <2>1, SlotMonotone
    <2> HIDE DEF last
    <2>6. Slot(c) <= Slot(last)
      BY <2>3, SlotMonotone
    <2>7. Slot(last) <= Slot(now) + 1
      <3>1. now < (Slot(now) + 1) * Interval
        BY <2>1, SlotBounds
      <3>2. (Slot(now) + 2) * Interval = (Slot(now) + 1) * Interval + Interval
        BY <2>4
      <3>3. (Slot(now) + 1) * Interval \in Nat
        BY <2>4
      <3>4. last < (Slot(now) + 1 + 1) * Interval
        BY <2>1, <2>3, <2>4, <3>1, <3>2, <3>3
      <3> QED
        BY <2>3, <2>4, <3>4, SlotBefore
    <2>8. Slot(clock) <= Slot(c) + 1
      <3>1. (Slot(c) + 2) * Interval = (Slot(c) + 1) * Interval + Interval
        BY <2>4
      <3>2. (Slot(c) + 1) * Interval \in Nat
        BY <2>4
      <3>3. clock < (Slot(c) + 1 + 1) * Interval
        BY <2>1, <2>2, <2>4, <3>1, <3>2 DEF NextSlot
      <3> QED
        BY <2>1, <2>4, <3>3, SlotBefore
    <2> QED
      BY <2>4, <2>5, <2>6, <2>7, <2>8 DEF last
  <1>2. Spec => [][Skips]_vars
    BY <1>1, LoopIsRight, PTL
  <1> QED
    BY <1>2 DEF SkipsAtMostOneSlot

-----------------------------------------------------------------------------
(* What the pages make of the series. *)

\* Multiples of the interval are ordered as their factors are.
LEMMA Scaled ==
    ASSUME NEW a \in Nat, NEW b \in Nat
    PROVE  /\ a * Interval \in Nat
           /\ a * Interval <= b * Interval <=> a <= b
  <1>1. \A m \in Nat, n \in Nat, i \in Nat \ {0} :
            /\ m * i \in Nat
            /\ m <= n => m * i <= n * i
            /\ m >= n + 1 => m * i >= n * i + i
    OBVIOUS
  <1> DEFINE x == a * Interval
             y == b * Interval
  <1>2. /\ x \in Nat /\ y \in Nat
        /\ a <= b => x <= y
        /\ a >= b + 1 => x >= y + Interval
    BY <1>1, IntervalAssumption
  <1> HIDE DEF x, y
  <1>3. x \in Nat /\ (x <= y <=> a <= b)
    BY <1>2, IntervalAssumption
  <1> QED
    BY <1>3 DEF x, y

\* An instant from the beginning of slot s on lies in s or after it.
LEMMA SlotAfter ==
    ASSUME NEW t \in Nat, NEW s \in Nat, s * Interval <= t
    PROVE  s <= Slot(t)
  <1> DEFINE x == s * Interval
             y == (Slot(t) + 1) * Interval
  <1>1. Slot(t) \in Nat /\ t < y /\ x <= t
    BY SlotBounds
  <1>2. x \in Nat /\ y \in Nat /\ (y <= x <=> Slot(t) + 1 <= s)
    BY <1>1, Scaled
  <1> HIDE DEF x, y
  <1> QED
    BY <1>1, <1>2

\* A slot has one document, so that the documents of some slots are no more than
\* the slots that are not absent.
LEMMA OnePerSlot ==
    ASSUME NEW docs, NEW slots, NEW absent, IsFiniteSet(slots), absent \subseteq slots,
           \A doc \in docs : /\ Slot(doc.at) \in slots \ absent
                             /\ doc = telemetry[Slot(doc.at)]
    PROVE  /\ Cardinality(docs) \in Nat
           /\ Cardinality(absent) \in Nat
           /\ Cardinality(docs) + Cardinality(absent) <= Cardinality(slots)
  <1> DEFINE f == [doc \in docs |-> Slot(doc.at)]
             present == slots \ absent
  <1>1. f \in Injection(docs, present)
    BY DEF Injection, IsInjective
  <1>2. /\ IsFiniteSet(present)
        /\ Cardinality(present) = Cardinality(slots) - Cardinality(slots \cap absent)
    BY FS_Difference
  <1>3. slots \cap absent = absent
    OBVIOUS
  <1>4. IsFiniteSet(absent)
    BY FS_Subset
  <1> HIDE DEF f, present
  <1>5. IsFiniteSet(docs) /\ Cardinality(docs) <= Cardinality(present)
    BY <1>1, <1>2, FS_Injection
  <1>6. /\ Cardinality(docs) \in Nat
        /\ Cardinality(absent) \in Nat
        /\ Cardinality(slots) \in Nat
    BY <1>4, <1>5, FS_CardinalityType
  <1>7. Cardinality(present) = Cardinality(slots) - Cardinality(absent)
    BY <1>2, <1>3
  <1> QED
    BY <1>5, <1>6, <1>7

\* What a window holds was observed in it, and is what its slot holds.
LEMMA ObservedTyped ==
    ASSUME PollerInv, NEW since, NEW until, NEW doc \in ObservedIn(since, until)
    PROVE  /\ doc \in Document
           /\ doc.at \in Nat
           /\ since <= doc.at
           /\ doc.at < until
           /\ Slot(doc.at) \in Slots
           /\ doc = telemetry[Slot(doc.at)]
  <1>1. PICK s \in Stored : /\ doc = telemetry[s]
                            /\ since <= telemetry[s].at
                            /\ telemetry[s].at < until
    BY DEF ObservedIn
  <1>2. s \in Slots /\ telemetry[s] \in Document
    BY <1>1 DEF PollerInv, TypeOK, Stored, Optional
  <1>3. doc.at \in Time
    BY <1>1, <1>2 DEF Document
  <1> QED
    BY <1>1, <1>2, <1>3, SlotIsOne DEF PollerInv, Sampled

\* A slot whose document is shown with a number is not absent.
LEMMA ShownIsPresent ==
    ASSUME PollerInv, NEW since, NEW until, NEW doc \in HasNumber(ObservedIn(since, until)),
           NEW from, NEW to
    PROVE  ~IsAbsent(Slot(doc.at), from, to)
  <1>1. doc \in ObservedIn(since, until) /\ doc.interval # NoValue
    BY DEF HasNumber
  <1> QED
    BY <1>1, ObservedTyped, NoDocumentAssumption DEF IsAbsent, Stored

\* The instants of a bucket, its first one the one the bucket is named by.
LEMMA BucketBounds ==
    ASSUME NEW t \in Nat, NEW since \in Nat, since <= t, NEW width \in Nat \ {0}
    PROVE  /\ BucketOf(t, since, width) <= t
           /\ t < BucketOf(t, since, width) + width
           /\ Day(since) \in Nat
           /\ \E q \in Nat :
                 BucketOf(t, since, width) = Day(since) * DayLength + q * width
  <1>1. \A a \in Nat, b \in Nat \ {0} :
            /\ a \div b \in Nat
            /\ (a \div b) * b \in Nat
            /\ (a \div b) * b <= a
            /\ a < (a \div b) * b + b
    OBVIOUS
  <1> DEFINE anchor == Day(since) * DayLength
             q == (t - anchor) \div width
             x == q * width
  <1>2. Day(since) \in Nat /\ anchor \in Nat /\ anchor <= since
    BY <1>1, DayLengthAssumption DEF Day
  <1>3. BucketOf(t, since, width) = anchor + x
    BY DEF BucketOf
  <1> HIDE DEF anchor
  <1>4. t - anchor \in Nat
    BY <1>2
  <1>5. q \in Nat /\ x \in Nat /\ x <= t - anchor /\ t - anchor < x + width
    BY <1>1, <1>4
  <1> HIDE DEF q, x
  <1>6. anchor + x <= t /\ t < anchor + x + width
    BY <1>2, <1>5
  <1> QED
    BY <1>2, <1>3, <1>5, <1>6 DEF anchor, x

\* A width that the slots divide is a number of slots, the number of samples
\* that its buckets are expected to have.
LEMMA WidthInSlots ==
    ASSUME NEW width \in Nat \ {0}, width % Interval = 0
    PROVE  \E k \in Nat \ {0} : width = k * Interval /\ ExpectedSamples(width) = k
  <1> DEFINE k == width \div Interval
  <1>1. \A a \in Nat \ {0}, b \in Nat \ {0} :
            a % b = 0 => a \div b \in Nat \ {0} /\ a = (a \div b) * b
    <2> SUFFICES ASSUME NEW a \in Nat \ {0}, NEW b \in Nat \ {0}, a % b = 0
                 PROVE  a \div b \in Nat \ {0} /\ a = (a \div b) * b
      OBVIOUS
    <2>1. a = b * (a \div b) + (a % b) /\ a \div b \in Nat
      OBVIOUS
    <2> QED
      BY <2>1
  <1>2. k \in Nat \ {0} /\ width = k * Interval
    BY <1>1, IntervalAssumption
  <1>3. Round(width, Interval) = k
    BY IntervalAssumption DEF Round
  <1> HIDE DEF k
  <1>4. ExpectedSamples(width) = k
    BY <1>2, <1>3 DEF ExpectedSamples, AtLeastOne
  <1> QED
    BY <1>2, <1>4


\* Every bucket that holds a sample begins with a slot, wherever the window does.
LEMMA BucketBegins ==
    ASSUME NEW t \in Nat, NEW since \in Nat, since <= t,
           NEW width \in Nat \ {0}, width % Interval = 0, DayLength % width = 0
    PROVE  \E m \in Nat : BucketOf(t, since, width) = m * Interval
  <1>1. PICK k \in Nat \ {0} : width = k * Interval
    BY WidthInSlots
  <1>2. PICK j \in Nat : DayLength = j * width
    <2>1. \A a \in Nat, b \in Nat \ {0} :
              a % b = 0 => a \div b \in Nat /\ a = (a \div b) * b
      <3> SUFFICES ASSUME NEW a \in Nat, NEW b \in Nat \ {0}, a % b = 0
                   PROVE  a \div b \in Nat /\ a = (a \div b) * b
        OBVIOUS
      <3>1. a = b * (a \div b) + (a % b) /\ a \div b \in Nat
        OBVIOUS
      <3> QED
        BY <3>1
    <2> QED
      BY <2>1, DayLengthAssumption
  <1>d. /\ Day(since) \in Nat
        /\ \E q \in Nat :
              BucketOf(t, since, width) = Day(since) * DayLength + q * width
    BY BucketBounds
  <1>3. PICK q \in Nat :
           BucketOf(t, since, width) = Day(since) * DayLength + q * width
    BY <1>d
  <1> DEFINE m == (Day(since) * j + q) * k
  <1>4. m \in Nat
    BY <1>1, <1>2, <1>3, <1>d
  <1>5. \A d \in Nat, x \in Nat, y \in Nat, f \in Nat, i \in Nat :
           d * (x * (f * i)) + y * (f * i) = ((d * x + y) * f) * i
    OBVIOUS
  <1>6. BucketOf(t, since, width) = m * Interval
    BY <1>1, <1>2, <1>3, <1>d, <1>5, IntervalAssumption
  <1> QED
    BY <1>4, <1>6

\* A bar marked Complete has a number for each of its slots: its samples have a
\* slot each, all inside the bar, and are as many as its slots.
THEOREM CompleteBars == Spec => []CompleteBarIsWhole
  <1>1. PollerInv => CompleteBarIsWhole
    <2> SUFFICES ASSUME PollerInv,
                        NEW since \in 0..clock, NEW until \in 0..clock,
                        NEW width \in Widths,
                        width % Interval = 0, DayLength % width = 0,
                        NEW b \in DOMAIN BucketSeries(ObservedIn(since, until),
                                                      since, until, width),
                        BucketSeries(ObservedIn(since, until),
                                     since, until, width)[b].state = "Complete",
                        NEW s \in Slots, IsAbsent(s, b, b + width)
                 PROVE  FALSE
      BY DEF CompleteBarIsWhole
    <2> DEFINE docs == ObservedIn(since, until)
               own == {doc \in docs : BucketOf(doc.at, since, width) = b}
               numbers == HasNumber(own)
    <2>1. since \in Nat /\ until \in Nat /\ width \in Nat \ {0}
      BY WidthsAssumption DEF PollerInv, LoopInv
    <2>2. BucketState(own, width) = "Complete"
      BY DEF BucketSeries
    <2>3. numbers # {} /\ ~(Cardinality(numbers) < ExpectedSamples(width))
      BY <2>2 DEF BucketState
    <2>4. PICK k \in Nat \ {0} : width = k * Interval /\ ExpectedSamples(width) = k
      BY <2>1, WidthInSlots
    <2>5. \A doc \in numbers : /\ doc \in HasNumber(docs)
                               /\ doc.at \in Nat
                               /\ since <= doc.at
                               /\ BucketOf(doc.at, since, width) = b
                               /\ doc = telemetry[Slot(doc.at)]
      BY ObservedTyped DEF HasNumber
    <2>6. PICK m \in Nat : b = m * Interval
      <3>1. PICK doc \in numbers : TRUE
        BY <2>3
      <3> QED
        BY <3>1, <2>1, <2>5, BucketBegins
    <2> DEFINE slots == m..(m + k - 1)
    <2>7. b + width = (m + k) * Interval /\ m + k - 1 \in Nat
      BY <2>4, <2>6, IntervalAssumption
    <2>8. \A doc \in numbers : Slot(doc.at) \in slots \ {s}
      <3> SUFFICES ASSUME NEW doc \in numbers
                   PROVE  Slot(doc.at) \in slots \ {s}
        OBVIOUS
      <3>1. b <= doc.at /\ doc.at < b + width /\ Slot(doc.at) \in Nat
        <4>1. /\ doc.at \in Nat /\ since <= doc.at
              /\ BucketOf(doc.at, since, width) = b
          BY <2>5
        <4>2. /\ BucketOf(doc.at, since, width) <= doc.at
              /\ doc.at < BucketOf(doc.at, since, width) + width
          BY <2>1, <4>1, BucketBounds
        <4> QED
          BY <4>1, <4>2, SlotBounds
      <3>2. m <= Slot(doc.at)
        BY <3>1, <2>5, <2>6, SlotAfter
      <3>3. Slot(doc.at) <= m + k - 1
        <4>1. (m + k - 1) + 1 = m + k
          BY <2>4, <2>6
        <4> QED
          BY <3>1, <2>5, <2>7, <4>1, SlotBefore
      <3>4. Slot(doc.at) # s
        BY <2>5, ShownIsPresent
      <3> QED
        BY <3>1, <3>2, <3>3, <3>4, <2>4
    <2>9. s \in slots
      <3>1. s \in Nat /\ m * Interval <= s * Interval /\ (s + 1) * Interval <= (m + k) * Interval
        BY <2>6, <2>7 DEF IsAbsent, Slots
      <3>2. m <= s /\ s + 1 <= m + k
        BY <3>1, <2>4, Scaled
      <3> QED
        BY <3>1, <3>2, <2>4
    <2> HIDE DEF numbers
    <2>10. IsFiniteSet(slots) /\ Cardinality(slots) = k
      BY <2>4, <2>7, FS_Interval
    <2>11. Cardinality({s}) = 1
      BY FS_Singleton
    <2> HIDE DEF slots
    <2>12. /\ Cardinality(numbers) \in Nat
           /\ Cardinality(numbers) + Cardinality({s}) <= Cardinality(slots)
      BY <2>5, <2>8, <2>9, <2>10, OnePerSlot
    <2> QED
      BY <2>3, <2>4, <2>10, <2>11, <2>12
  <1> QED
    BY <1>1, PollerIsRight, PTL


\* A window meets one slot more than are expected of it at most, and none when an
\* edge lies on a slot's boundary.
LEMMA WindowSlots ==
    ASSUME NEW since \in Nat, NEW until \in Nat, since < until
    PROVE  /\ Slot(since) \in Nat /\ Slot(until - 1) \in Nat
           /\ ExpectedSlots(since, until) \in Nat
           /\ Slot(since) <= Slot(until - 1)
           /\ Slot(until - 1) - Slot(since) <= ExpectedSlots(since, until)
           /\ since % Interval = 0 \/ until % Interval = 0 =>
                  Slot(until - 1) - Slot(since) + 1 <= ExpectedSlots(since, until)
  <1> DEFINE a == Slot(since)
             z == Slot(until - 1)
             e == ExpectedSlots(since, until)
             x == a * Interval
             y == z * Interval
             w == e * Interval
             rest == until - since + Interval - 1
  <1>1. rest \in Nat /\ until - 1 \in Nat /\ since <= until - 1
    BY IntervalAssumption
  <1>2. e = Slot(rest)
    BY DEF ExpectedSlots, Slot
  <1>3. \A n \in Nat : (n + 1) * Interval = n * Interval + Interval
    BY IntervalAssumption
  <1>4. /\ a \in Nat /\ x <= since /\ since < x + Interval
        /\ z \in Nat /\ y <= until - 1 /\ until - 1 < y + Interval
        /\ e \in Nat /\ rest < w + Interval
        /\ a <= z
    BY <1>1, <1>2, <1>3, SlotBounds, SlotMonotone
  <1>5. x \in Nat /\ y \in Nat /\ w \in Nat
    BY <1>4, Scaled
  <1>6. /\ z >= a + e + 1 => y >= x + w + Interval
        /\ z >= a + e => y >= x + w
    <2>1. \A n \in Nat : n * Interval \in Nat
      BY IntervalAssumption
    <2>2. (a + e + 1) * Interval = x + w + Interval /\ (a + e) * Interval = x + w
      BY <1>4, IntervalAssumption
    <2> QED
      BY <2>2, <1>4, Scaled
  <1>7. since % Interval = 0 => since = x
    BY IntervalAssumption DEF Slot
  <1>8. until % Interval = 0 => until = y + Interval
    <2> SUFFICES ASSUME until % Interval = 0
                 PROVE  until = y + Interval
      OBVIOUS
    <2> DEFINE u == until \div Interval
               v == u * Interval
    <2>1. u \in Nat /\ v = until
      BY IntervalAssumption
    <2>2. (z + 1) * Interval = y + Interval
      BY <1>3, <1>4
    <2>3. v <= y + Interval <=> u <= z + 1
      BY <2>1, <2>2, <1>4, Scaled
    <2>4. v <= y <=> u <= z
      BY <2>1, <1>4, Scaled
    <2>5. u = z + 1 => v = y + Interval
      BY <2>2
    <2> HIDE DEF u, v
    <2> HIDE DEF z, y
    <2> QED
      BY <2>1, <2>3, <2>4, <2>5, <1>4, <1>5, IntervalAssumption
  <1> HIDE DEF a, z, e, x, y, w
  <1>9. z - a <= e
    BY <1>4, <1>5, <1>6, IntervalAssumption
  <1>10. since % Interval = 0 \/ until % Interval = 0 => z - a + 1 <= e
    BY <1>4, <1>5, <1>6, <1>7, <1>8, IntervalAssumption
  <1> QED
    BY <1>4, <1>9, <1>10 DEF a, z, e

\* A range shown as complete hides one absent slot at most, and none when an edge
\* lies on a slot's boundary: only the slots cut by the edges can have samples
\* that are counted and not expected.
THEOREM CompleteRanges == Spec => []CompleteRangeHidesAtMostOne
  <1>1. PollerInv => CompleteRangeHidesAtMostOne
    <2> SUFFICES ASSUME PollerInv,
                        NEW since \in 0..clock, NEW until \in 0..clock, since < until,
                        SummarizeRange(ObservedIn(since, until), since, until).complete
                 PROVE  LET absent == {s \in Slots : IsAbsent(s, since, until)}
                        IN  /\ Cardinality(absent) <= 1
                            /\ since % Interval = 0 \/ until % Interval = 0 => absent = {}
      BY DEF CompleteRangeHidesAtMostOne, IsWindow
    <2> DEFINE docs == ObservedIn(since, until)
               numbers == HasNumber(docs)
               absent == {s \in Slots : IsAbsent(s, since, until)}
               expected == ExpectedSlots(since, until)
               slots == Slot(since)..Slot(until - 1)
               aligned == since % Interval = 0 \/ until % Interval = 0
    <2>1. since \in Nat /\ until \in Nat /\ until - 1 \in Nat
      BY DEF PollerInv, LoopInv
    <2>2. Cardinality(numbers) >= expected
      BY DEF SummarizeRange
    <2>3. absent \subseteq slots
      <3> SUFFICES ASSUME NEW s \in Slots, IsAbsent(s, since, until)
                   PROVE  s \in slots
        OBVIOUS
      <3>1. s \in Nat /\ s * Interval \in Nat /\ (s + 1) * Interval = s * Interval + Interval
        BY Scaled, IntervalAssumption DEF Slots
      <3>2. since <= s * Interval /\ (s + 1) * Interval <= until
        BY DEF IsAbsent
      <3>3. since < (s + 1) * Interval /\ s * Interval <= until - 1
        BY <2>1, <3>1, <3>2, IntervalAssumption
      <3>4. Slot(since) <= s /\ s <= Slot(until - 1)
        BY <2>1, <3>1, <3>3, SlotBefore, SlotAfter
      <3> QED
        BY <2>1, <3>1, <3>4, SlotBounds
    <2>4. \A doc \in numbers : /\ Slot(doc.at) \in slots \ absent
                               /\ doc = telemetry[Slot(doc.at)]
      <3> SUFFICES ASSUME NEW doc \in numbers
                   PROVE  /\ Slot(doc.at) \in slots \ absent
                          /\ doc = telemetry[Slot(doc.at)]
        OBVIOUS
      <3>1. /\ doc.at \in Nat /\ since <= doc.at /\ doc.at < until
            /\ doc = telemetry[Slot(doc.at)]
        BY ObservedTyped DEF HasNumber
      <3>2. doc.at <= until - 1
        BY <2>1, <3>1
      <3>3. Slot(since) <= Slot(doc.at) /\ Slot(doc.at) <= Slot(until - 1)
        BY <2>1, <3>1, <3>2, SlotMonotone
      <3>4. Slot(doc.at) \in slots
        BY <2>1, <3>1, <3>3, SlotBounds
      <3>5. Slot(doc.at) \notin absent
        BY ShownIsPresent
      <3> QED
        BY <3>1, <3>4, <3>5
    <2>5. /\ Slot(since) \in Nat /\ Slot(until - 1) \in Nat /\ expected \in Nat
          /\ Slot(since) <= Slot(until - 1)
          /\ Slot(until - 1) - Slot(since) <= expected
          /\ aligned => Slot(until - 1) - Slot(since) + 1 <= expected
      BY <2>1, WindowSlots
    <2>6. /\ IsFiniteSet(slots)
          /\ Cardinality(slots) = Slot(until - 1) - Slot(since) + 1
      BY <2>5, FS_Interval
    <2> HIDE DEF numbers, absent, expected, slots, aligned
    <2>7. /\ Cardinality(numbers) \in Nat
          /\ Cardinality(absent) \in Nat
          /\ Cardinality(numbers) + Cardinality(absent) <= Cardinality(slots)
      BY <2>3, <2>4, <2>6, OnePerSlot
    <2>8. /\ Cardinality(absent) <= 1
          /\ aligned => Cardinality(absent) = 0
      BY <2>2, <2>5, <2>6, <2>7
    <2>9. aligned => absent = {}
      <3>1. IsFiniteSet(absent)
        BY <2>3, <2>6, FS_Subset
      <3> QED
        BY <2>8, <3>1, FS_EmptySet
    <2> QED
      BY <2>8, <2>9 DEF absent, aligned
  <1> QED
    BY <1>1, PollerIsRight, PTL

-----------------------------------------------------------------------------
(* The abstract series. *)

Abstract == [s \in Slots |-> AsEntry(telemetry[s])]

\* Only an observation with an energy reading waits.
LEMMA OnlyReadingsWait ==
    ASSUME NEW t \in Time, NEW doc \in Observations(t)
    PROVE  Waits(doc) => doc.energyOk
  <1> DEFINE base == Baseline(Slot(t))
             hasPrior == \E s \in Stored : s < Slot(t)
  <1>0. Observations(t) =
          {BuildObservation(t, energy, Success(NoValue), base, hasPrior, final) :
             energy \in {Success(Counter(t)), Failed("OTHER")},
             final \in {NoValue, DayLength}}
    BY DEF Observations
  <1> HIDE DEF base, hasPrior
  <1>1. PICK energy \in {Success(Counter(t)), Failed("OTHER")},
             final \in {NoValue, DayLength} :
           doc = BuildObservation(t, energy, Success(NoValue), base, hasPrior, final)
    BY <1>0
  <1> DEFINE o == ComputeInterval(energy.value, t, base, hasPrior, final)
  <1>2. doc.energyOk = energy.ok /\ doc.status = o.status
    BY <1>1 DEF BuildObservation
  <1>3. ~ energy.ok => energy.value = NoValue
    BY DEF Success, Failed
  <1>4. energy.value = NoValue => o.status = "ENERGY_UNAVAILABLE"
    BY DEF ComputeInterval, Outcome
  <1> HIDE DEF o
  <1>5. ~ energy.ok => ~ Waits(doc)
    BY <1>2, <1>3, <1>4 DEF Waits
  <1> QED
    BY <1>2, <1>5

\* What a poller writes is recorded, or nothing is.
LEMMA WriteRecords ==
    ASSUME PollerInv, Observe
    PROVE  Promise!SeriesNext \/ UNCHANGED Abstract
  <1>1. /\ telemetry \in [Slots -> Optional(Document)]
        /\ now \in Time
    BY DEF PollerInv, TypeOK, LoopInv, Observe, Optional
  <1> DEFINE slot == Slot(now)
  <1>2. PICK doc \in Observations(now) :
           telemetry' = IF \/ telemetry[slot] = NoValue
                           \/ Completeness(doc) > Completeness(telemetry[slot])
                        THEN [telemetry EXCEPT ![slot] = doc]
                        ELSE telemetry
    BY <1>1, ObserveWrites
  <1>3. doc \in Document /\ doc # NoValue /\ slot \in Slots
    BY <1>1, <1>2, ObservationsTyped, SlotIsOne, NoDocumentAssumption DEF PollerInv
  <1>4. CASE telemetry' = telemetry
    BY <1>4 DEF Abstract
  <1>5. CASE /\ \/ telemetry[slot] = NoValue
                \/ Completeness(doc) > Completeness(telemetry[slot])
             /\ telemetry' = [telemetry EXCEPT ![slot] = doc]
    <2>1. AsEntry(doc) = [level |-> Completeness(doc), waits |-> Waits(doc)]
      BY <1>3 DEF AsEntry
    <2>2. doc.energyOk \in BOOLEAN /\ doc.stateOk \in BOOLEAN
      BY <1>3 DEF Document
    <2>3. Completeness(doc) \in 0..3 /\ (doc.energyOk => Completeness(doc) >= 2)
      BY <2>2 DEF Completeness
    <2>4. Waits(doc) \in BOOLEAN /\ (Waits(doc) => doc.energyOk)
      BY <1>1, <1>2, OnlyReadingsWait DEF Waits
    <2>5. AsEntry(doc) \in Promise!Entry /\ AsEntry(doc).level = Completeness(doc)
      BY <2>1, <2>3, <2>4 DEF Promise!Entry, Promise!Level
    <2>6. \/ Abstract[slot] = NoValue
          \/ AsEntry(doc).level > Abstract[slot].level
      <3>1. CASE telemetry[slot] = NoValue
        BY <1>3, <3>1 DEF Abstract, AsEntry
      <3>2. CASE telemetry[slot] # NoValue
        <4>1. Abstract[slot].level = Completeness(telemetry[slot])
          BY <1>3, <3>2 DEF Abstract, AsEntry
        <4> QED
          BY <1>5, <2>5, <3>2, <4>1
      <3> QED
        BY <3>1, <3>2
    <2>7. Abstract' = [Abstract EXCEPT ![slot] = AsEntry(doc)]
      <3>1. telemetry'[slot] = doc /\ \A s \in Slots \ {slot} : telemetry'[s] = telemetry[s]
        BY <1>1, <1>3, <1>5
      <3> QED
        BY <1>3, <3>1 DEF Abstract
    <2>8. Promise!Record(slot)
      BY <2>5, <2>6, <2>7 DEF Promise!Record, Abstract
    <2> QED
      BY <1>3, <2>8 DEF Promise!SeriesNext
  <1> QED
    BY <1>2, <1>4, <1>5

\* A poller, however often started, stopped or killed, implements the abstract
\* series: every step of it records an observation, or leaves the series.
THEOREM PollersImplementSeries == Spec => PollerImplementsSeries
  <1>1. Init => Promise!SeriesInit
    BY DEF Init, Promise!SeriesInit, AsEntry
  <1>2. PollerInv /\ [Next]_vars => [Promise!SeriesNext]_Abstract
    <2> SUFFICES ASSUME PollerInv, [Next]_vars
                 PROVE  Promise!SeriesNext \/ UNCHANGED Abstract
      OBVIOUS
    <2>1. telemetry' = telemetry \/ Observe
      BY DEF Next, Step, BeginCycle, Abandon, WakeUp, Start, WaitForSlot, Stop, Kill,
             Signal, Tick, vars
    <2> QED
      BY <2>1, WriteRecords DEF Abstract
  <1>3. Spec => Promise!SeriesInit /\ [][Promise!SeriesNext]_Abstract
    BY <1>1, <1>2, PollerIsRight, PTL DEF Spec
  <1> QED
    BY <1>3, PTL DEF PollerImplementsSeries, Promise!SeriesSpec, Abstract

-----------------------------------------------------------------------------
(* Induction over sets. *)

\* Induction, as a property of a set of numbers.
LEMMA Induction ==
    ASSUME NEW X, 0 \in X, \A n \in Nat : n \in X => n + 1 \in X
    PROVE  Nat \subseteq X
  <1> DEFINE T == Nat \ X
  <1> SUFFICES ASSUME T # {}
               PROVE  FALSE
    OBVIOUS
  <1>1. PICK m \in T : \A y \in T : ~ (<<y, m>> \in OpToRel(<, Nat))
    BY NatLessThanWellFounded, WFMin
  <1>2. m \in Nat /\ m \notin X /\ \A y \in Nat : y \notin X => ~ (y < m)
    BY <1>1 DEF OpToRel
  <1>3. m - 1 \in Nat /\ m - 1 < m /\ (m - 1) + 1 = m
    BY <1>2
  <1> HIDE DEF T
  <1> QED
    BY <1>2, <1>3

\* Induction on the subsets of a finite set, as a property of a set of them.
LEMMA Shrinking ==
    ASSUME NEW S, IsFiniteSet(S), NEW X, {} \in X,
           \A s \in SUBSET S : s # {} /\ (\A x \in s : s \ {x} \in X) => s \in X
    PROVE  SUBSET S \subseteq X
  <1> DEFINE Small(n) == \A s \in SUBSET S : Cardinality(s) = n => s \in X
             N == {n \in Nat : Small(n)}
  <1>1. \A s \in SUBSET S : /\ IsFiniteSet(s)
                            /\ Cardinality(s) \in Nat
                            /\ Cardinality(s) = 0 <=> s = {}
    BY FS_Subset, FS_CardinalityType, FS_EmptySet
  <1>2. 0 \in N
    BY <1>1
  <1>3. ASSUME NEW n \in Nat, n \in N
        PROVE  n + 1 \in N
    <2>1. ASSUME NEW s \in SUBSET S, Cardinality(s) = n + 1
          PROVE  s \in X
      <3>1. ASSUME NEW x \in s
            PROVE  s \ {x} \in X
        <4>1. Cardinality(s \ {x}) = Cardinality(s) - 1
          BY <1>1, FS_RemoveElement
        <4>2. Cardinality(s \ {x}) = n
          BY <2>1, <4>1
        <4> QED
          BY <1>3, <4>2
      <3>2. s # {}
        BY <1>1, <2>1
      <3> QED
        BY <3>1, <3>2
    <2>2. Small(n + 1)
      BY <2>1
    <2> HIDE DEF Small
    <2> QED
      BY <2>2
  <1> HIDE DEF N
  <1>4. Nat \subseteq N
    BY <1>2, <1>3, Induction
  <1> QED
    BY <1>1, <1>4 DEF N

-----------------------------------------------------------------------------
(* Sums. *)

\* The element that a fold counts first.
Some(s) == CHOOSE x \in s : TRUE

\* What the fold computes of a set, when g is what it computes of smaller ones.
Folded(f, s, g) == IF s = {} THEN 0 ELSE f[Some(s)] + g[s \ {Some(s)}]
Folds(g, f, S) == g = [s \in SUBSET S |-> Folded(f, s, g)]

\* The sum of f over S.
SumOf(f, S) == (CHOOSE g : Folds(g, f, S))[S]

\* f is an integer all over S.
Integral(f, S) == \A x \in S : f[x] \in Int

\* The fold of a finite set is well defined.
LEMMA FoldExists ==
    ASSUME NEW S, IsFiniteSet(S), NEW f, Integral(f, S)
    PROVE  \E g \in [SUBSET S -> Int] : Folds(g, f, S)
  <1> DEFINE Defined(n) ==
               \E g \in [SUBSET S -> Int] :
                  \A s \in SUBSET S : Cardinality(s) <= n => g[s] = Folded(f, s, g)
             N == {n \in Nat : Defined(n)}
  <1>1. \A s \in SUBSET S : /\ IsFiniteSet(s)
                            /\ Cardinality(s) \in Nat
                            /\ Cardinality(s) = 0 <=> s = {}
                            /\ s # {} => Some(s) \in s
    BY FS_Subset, FS_CardinalityType, FS_EmptySet DEF Some
  <1>2. 0 \in N
    <2> DEFINE g == [s \in SUBSET S |-> 0]
    <2>1. g \in [SUBSET S -> Int]
      OBVIOUS
    <2>2. \A s \in SUBSET S : Cardinality(s) <= 0 => g[s] = Folded(f, s, g)
      BY <1>1 DEF Folded
    <2> HIDE DEF g
    <2>3. Defined(0)
      BY <2>1, <2>2
    <2> HIDE DEF Defined
    <2> QED
      BY <2>3
  <1>3. ASSUME NEW n \in Nat, n \in N
        PROVE  n + 1 \in N
    <2>1. PICK g \in [SUBSET S -> Int] :
             \A s \in SUBSET S : Cardinality(s) <= n => g[s] = Folded(f, s, g)
      BY <1>3
    <2> DEFINE h == [s \in SUBSET S |-> Folded(f, s, g)]
    <2>2. h \in [SUBSET S -> Int]
      <3>1. \A s \in SUBSET S : Folded(f, s, g) \in Int
        BY <1>1 DEF Folded, Integral
      <3> QED
        BY <3>1
    <2>3. ASSUME NEW s \in SUBSET S, Cardinality(s) <= n + 1
          PROVE  h[s] = Folded(f, s, h)
      <3>1. CASE s = {}
        BY <3>1 DEF Folded
      <3>2. CASE s # {}
        <4> DEFINE t == s \ {Some(s)}
        <4>1. t \in SUBSET S /\ Cardinality(t) = Cardinality(s) - 1
          BY <1>1, <3>2, FS_RemoveElement
        <4> HIDE DEF t
        <4>2. Cardinality(t) <= n
          BY <1>1, <2>3, <4>1
        <4>3. h[t] = g[t]
          BY <2>1, <4>1, <4>2
        <4> QED
          BY <3>2, <4>3 DEF Folded, t
      <3> QED
        BY <3>1, <3>2
    <2> HIDE DEF h
    <2>4. Defined(n + 1)
      BY <2>2, <2>3
    <2> HIDE DEF Defined
    <2> QED
      BY <2>4
  <1> HIDE DEF N
  <1>4. Nat \subseteq N
    BY <1>2, <1>3, Induction
  <1>5. Defined(Cardinality(S))
    BY <1>1, <1>4 DEF N
  <1>6. PICK g \in [SUBSET S -> Int] :
           \A s \in SUBSET S : Cardinality(s) <= Cardinality(S) => g[s] = Folded(f, s, g)
    BY <1>5
  <1>7. \A s \in SUBSET S : Cardinality(s) <= Cardinality(S)
    BY FS_Subset
  <1>8. \A s \in SUBSET S : g[s] = Folded(f, s, g)
    BY <1>6, <1>7
  <1> QED
    BY <1>8 DEF Folds

\* What it computes of a set does not depend on the larger set it is part of, nor
\* on f elsewhere.
LEMMA FoldIsUnique ==
    ASSUME NEW T, IsFiniteSet(T), NEW S, T \subseteq S, NEW f, NEW e,
           \A x \in T : e[x] = f[x],
           NEW g, Folds(g, f, S), NEW h, Folds(h, e, T)
    PROVE  g[T] = h[T]
  <1> DEFINE X == {s \in SUBSET T : g[s] = h[s]}
  <1>1. \A s \in SUBSET T : g[s] = Folded(f, s, g) /\ h[s] = Folded(e, s, h)
    <2>1. g = [s \in SUBSET S |-> Folded(f, s, g)] /\ h = [s \in SUBSET T |-> Folded(e, s, h)]
      BY DEF Folds
    <2>2. \A s \in SUBSET S : g[s] = Folded(f, s, g)
      BY <2>1
    <2>3. \A s \in SUBSET T : h[s] = Folded(e, s, h)
      BY <2>1
    <2> QED
      BY <2>2, <2>3
  <1>2. {} \in X
    BY <1>1 DEF Folded
  <1>3. ASSUME NEW s \in SUBSET T, s # {}, \A x \in s : s \ {x} \in X
        PROVE  s \in X
    <2>1. Some(s) \in s
      BY <1>3 DEF Some
    <2>2. g[s \ {Some(s)}] = h[s \ {Some(s)}] /\ e[Some(s)] = f[Some(s)]
      BY <1>3, <2>1
    <2> QED
      BY <1>1, <1>3, <2>2 DEF Folded
  <1> HIDE DEF X
  <1>4. SUBSET T \subseteq X
    BY <1>2, <1>3, Shrinking
  <1> QED
    BY <1>4 DEF X

\* So the sum over a set is what any fold computes of it.
LEMMA SumIsFold ==
    ASSUME NEW T, IsFiniteSet(T), NEW S, T \subseteq S, NEW f, NEW e, Integral(e, T),
           \A x \in T : e[x] = f[x], NEW g, Folds(g, f, S)
    PROVE  g[T] = SumOf(e, T)
  <1> DEFINE h == CHOOSE h : Folds(h, e, T)
  <1>1. Folds(h, e, T)
    <2>1. \E k : Folds(k, e, T)
      BY FoldExists
    <2> QED
      BY <2>1
  <1>2. SumOf(e, T) = h[T]
    BY DEF SumOf
  <1> HIDE DEF h
  <1> QED
    BY <1>1, <1>2, FoldIsUnique

\* A sum of integers is one.
LEMMA SumTyped ==
    ASSUME NEW S, IsFiniteSet(S), NEW f, Integral(f, S)
    PROVE  SumOf(f, S) \in Int
  <1>1. PICK g \in [SUBSET S -> Int] : Folds(g, f, S)
    BY FoldExists
  <1>2. g[S] = SumOf(f, S)
    BY <1>1, SumIsFold
  <1> QED
    BY <1>2

\* Nothing adds up to zero.
LEMMA SumOfNone ==
    ASSUME NEW f
    PROVE  SumOf(f, {}) = 0
  <1>1. IsFiniteSet({}) /\ Integral(f, {})
    BY FS_EmptySet DEF Integral
  <1>2. PICK g \in [SUBSET {} -> Int] : Folds(g, f, {})
    BY <1>1, FoldExists
  <1>3. g[{}] = Folded(f, {}, g)
    BY <1>2 DEF Folds
  <1>4. g[{}] = 0
    BY <1>3 DEF Folded
  <1> QED
    BY <1>1, <1>2, <1>4, SumIsFold

\* Any element of a set can be counted first.
LEMMA SumOfSome ==
    ASSUME NEW S, IsFiniteSet(S), NEW f, Integral(f, S), NEW x \in S
    PROVE  SumOf(f, S) = f[x] + SumOf(f, S \ {x})
  <1> DEFINE Free(s) == \A y \in s : SumOf(f, s) = f[y] + SumOf(f, s \ {y})
             X == {s \in SUBSET S : Free(s)}
  <1>1. \A s \in SUBSET S : IsFiniteSet(s) /\ Integral(f, s) /\ SumOf(f, s) \in Int
    <2>1. \A s \in SUBSET S : IsFiniteSet(s) /\ Integral(f, s)
      BY FS_Subset DEF Integral
    <2> QED
      BY <2>1, SumTyped
  <1>2. ASSUME NEW s \in SUBSET S, s # {}
        PROVE  SumOf(f, s) = f[Some(s)] + SumOf(f, s \ {Some(s)})
    <2>1. PICK g \in [SUBSET s -> Int] : Folds(g, f, s)
      BY <1>1, FoldExists
    <2>2. g[s] = Folded(f, s, g)
      <3>1. g = [t \in SUBSET s |-> Folded(f, t, g)]
        BY <2>1 DEF Folds
      <3> QED
        BY <3>1
    <2>3. g[s] = SumOf(f, s)
      BY <1>1, <2>1, SumIsFold
    <2> DEFINE t == s \ {Some(s)}
    <2>4. t \in SUBSET s /\ t \in SUBSET S
      OBVIOUS
    <2>5. g[t] = SumOf(f, t)
      <3> HIDE DEF t
      <3> QED
        BY <1>1, <2>1, <2>4, SumIsFold
    <2> QED
      BY <1>2, <2>2, <2>3, <2>5 DEF Folded
  <1>3. {} \in X
    OBVIOUS
  <1>4. ASSUME NEW s \in SUBSET S, s # {}, \A y \in s : s \ {y} \in X
        PROVE  s \in X
    <2> SUFFICES ASSUME NEW y \in s
                 PROVE  SumOf(f, s) = f[y] + SumOf(f, s \ {y})
      OBVIOUS
    <2> DEFINE c == Some(s)
               both == s \ {c, y}
    <2>1. c \in s
      BY <1>4 DEF Some
    <2>2. SumOf(f, s) = f[c] + SumOf(f, s \ {c})
      BY <1>2, <1>4
    <2> HIDE DEF c
    <2>3. CASE c = y
      BY <2>2, <2>3
    <2>4. CASE c # y
      <3>1. (s \ {c}) \ {y} = both /\ (s \ {y}) \ {c} = both /\ both \in SUBSET S
        OBVIOUS
      <3>2. SumOf(f, s \ {c}) = f[y] + SumOf(f, both)
        BY <1>4, <2>1, <2>4, <3>1
      <3>3. SumOf(f, s \ {y}) = f[c] + SumOf(f, both)
        BY <1>4, <2>1, <2>4, <3>1
      <3>4. f[c] \in Int /\ f[y] \in Int /\ SumOf(f, both) \in Int
        BY <1>1, <2>1, <3>1 DEF Integral
      <3> HIDE DEF both
      <3> QED
        BY <2>2, <3>2, <3>3, <3>4
    <2> QED
      BY <2>3, <2>4
  <1> HIDE DEF X
  <1>5. SUBSET S \subseteq X
    BY <1>3, <1>4, Shrinking
  <1>6. Free(S)
    BY <1>5 DEF X
  <1> QED
    BY <1>6

\* The sums over two sets without a common element add up.
LEMMA SumOfUnion ==
    ASSUME NEW A, NEW B, IsFiniteSet(A), IsFiniteSet(B), A \cap B = {},
           NEW f, Integral(f, A \union B)
    PROVE  SumOf(f, A \union B) = SumOf(f, A) + SumOf(f, B)
  <1> DEFINE X == {s \in SUBSET B : SumOf(f, A \union s) = SumOf(f, A) + SumOf(f, s)}
  <1>1. \A s \in SUBSET B : /\ IsFiniteSet(s) /\ IsFiniteSet(A \union s)
                            /\ Integral(f, s) /\ Integral(f, A \union s)
                            /\ SumOf(f, s) \in Int
    <2>1. \A s \in SUBSET B : IsFiniteSet(s) /\ IsFiniteSet(A \union s)
      BY FS_Subset, FS_Union
    <2>2. \A s \in SUBSET B : Integral(f, s) /\ Integral(f, A \union s)
      BY DEF Integral
    <2> QED
      BY <2>1, <2>2, SumTyped
  <1>2. Integral(f, A) /\ SumOf(f, A) \in Int
    <2>1. Integral(f, A)
      BY DEF Integral
    <2> QED
      BY <2>1, SumTyped
  <1>3. {} \in X
    BY <1>2, SumOfNone
  <1>4. ASSUME NEW s \in SUBSET B, s # {}, \A x \in s : s \ {x} \in X
        PROVE  s \in X
    <2>1. PICK x \in s : TRUE
      BY <1>4
    <2> DEFINE t == s \ {x}
    <2>2. t \in SUBSET B /\ (A \union s) \ {x} = A \union t /\ x \in A \union s
      OBVIOUS
    <2>3. SumOf(f, A \union t) = SumOf(f, A) + SumOf(f, t)
      BY <1>4
    <2>4. SumOf(f, s) = f[x] + SumOf(f, t)
      BY <1>1, SumOfSome
    <2>5. SumOf(f, A \union s) = f[x] + SumOf(f, A \union t)
      BY <1>1, <2>2, SumOfSome
    <2>6. f[x] \in Int /\ SumOf(f, t) \in Int
      BY <1>1, <2>2 DEF Integral
    <2> HIDE DEF t
    <2> QED
      BY <1>2, <2>3, <2>4, <2>5, <2>6
  <1> HIDE DEF X
  <1>5. SUBSET B \subseteq X
    BY <1>3, <1>4, Shrinking
  <1> QED
    BY <1>5 DEF X

\* The parts that the values of p divide a set into.
Part(S, p, J) == {x \in S : p[x] \in J}

\* h has for each value in I the sum over its part.
SumsParts(h, I, f, S, p) ==
    /\ \A x \in S : p[x] \in I
    /\ \A i \in I : h[i] = SumOf(f, Part(S, p, {i}))

\* The sums over the parts of a set add up to the sum over the set.
LEMMA SumOfParts ==
    ASSUME NEW S, IsFiniteSet(S), NEW f, Integral(f, S), NEW I, IsFiniteSet(I),
           NEW p, NEW h, SumsParts(h, I, f, S, p)
    PROVE  Integral(h, I) /\ SumOf(h, I) = SumOf(f, S)
  <1> DEFINE X == {J \in SUBSET I : SumOf(h, J) = SumOf(f, Part(S, p, J))}
  <1>0. /\ \A x \in S : p[x] \in I
        /\ \A i \in I : h[i] = SumOf(f, Part(S, p, {i}))
    BY DEF SumsParts
  <1>1. \A J : IsFiniteSet(Part(S, p, J)) /\ Integral(f, Part(S, p, J))
    <2> SUFFICES ASSUME NEW J
                 PROVE  IsFiniteSet(Part(S, p, J)) /\ Integral(f, Part(S, p, J))
      OBVIOUS
    <2>1. Part(S, p, J) \subseteq S
      BY DEF Part
    <2> QED
      BY <2>1, FS_Subset DEF Integral
  <1>2. \A J \in SUBSET I : IsFiniteSet(J) /\ Integral(h, J)
    <2>1. \A i \in I : h[i] \in Int
      BY <1>0, <1>1, SumTyped
    <2> QED
      BY <2>1, FS_Subset DEF Integral
  <1>3. {} \in X
    <2>1. Part(S, p, {}) = {}
      BY DEF Part
    <2> QED
      BY <2>1, SumOfNone
  <1>4. ASSUME NEW J \in SUBSET I, J # {}, \A i \in J : J \ {i} \in X
        PROVE  J \in X
    <2>1. PICK i \in J : TRUE
      BY <1>4
    <2> DEFINE A == Part(S, p, {i})
               B == Part(S, p, J \ {i})
    <2>2. Part(S, p, J) = A \union B /\ A \cap B = {}
      BY DEF Part
    <2>3. SumOf(h, J \ {i}) = SumOf(f, B)
      BY <1>4
    <2>4. SumOf(h, J) = h[i] + SumOf(h, J \ {i})
      BY <1>2, SumOfSome
    <2>5. h[i] = SumOf(f, A)
      BY <1>0
    <2>6. IsFiniteSet(A) /\ IsFiniteSet(B) /\ Integral(f, A \union B)
      BY <1>1, <2>2
    <2> HIDE DEF A, B
    <2>7. SumOf(f, A \union B) = SumOf(f, A) + SumOf(f, B)
      BY <2>2, <2>6, SumOfUnion
    <2> QED
      BY <2>2, <2>3, <2>4, <2>5, <2>7
  <1> HIDE DEF X
  <1>5. SUBSET I \subseteq X
    BY <1>3, <1>4, Shrinking
  <1>6. Part(S, p, I) = S
    BY <1>0 DEF Part
  <1> QED
    BY <1>2, <1>5, <1>6 DEF X

\* What the pages add up is the sum of the intervals.
LEMMA TotalIsSum ==
    ASSUME NEW docs, IsFiniteSet(HasNumber(docs)), NEW f, Integral(f, HasNumber(docs)),
           \A doc \in HasNumber(docs) : f[doc] = doc.interval
    PROVE  TotalOf(docs) = SumOf(f, HasNumber(docs))
  <1> DEFINE N == HasNumber(docs)
             Adds(s, g) == IF s = {} THEN 0
                           ELSE (CHOOSE x \in s : TRUE).interval
                                  + g[s \ {CHOOSE x \in s : TRUE}]
             total == CHOOSE g : g = [s \in SUBSET N |-> Adds(s, g)]
  <1>1. TotalOf(docs) = total[N]
    BY DEF TotalOf, MapThenSumSet, MapThenFoldSet
  <1> HIDE DEF N
  <1>2. \A g : \A s \in SUBSET N : Adds(s, g) = Folded(f, s, g)
    BY DEF Folded, Some, N
  <1>3. PICK g : Folds(g, f, N)
    BY FoldExists DEF N
  <1>4. g = [s \in SUBSET N |-> Adds(s, g)]
    <2>1. g = [s \in SUBSET N |-> Folded(f, s, g)]
      BY <1>3 DEF Folds
    <2> HIDE DEF Adds
    <2> QED
      BY <1>2, <2>1
  <1>5. total = [s \in SUBSET N |-> Adds(s, total)]
    <2> HIDE DEF Adds
    <2> QED
      BY <1>4
  <1> HIDE DEF total
  <1>6. Folds(total, f, N)
    <2> HIDE DEF Adds
    <2>1. [s \in SUBSET N |-> Adds(s, total)] = [s \in SUBSET N |-> Folded(f, s, total)]
      BY <1>2
    <2> QED
      BY <1>5, <2>1 DEF Folds
  <1> QED
    BY <1>1, <1>6, SumIsFold DEF N

\* And so is what a bar chart adds up.
LEMMA BarsAreSummed ==
    ASSUME NEW bars, NEW I, IsFiniteSet(I), NEW h, Integral(h, I),
           \A b \in I : h[b] = bars[b].total
    PROVE  MapThenSumSet(LAMBDA b : bars[b].total, I) = SumOf(h, I)
  <1> DEFINE Adds(s, g) == IF s = {} THEN 0
                           ELSE bars[CHOOSE x \in s : TRUE].total
                                  + g[s \ {CHOOSE x \in s : TRUE}]
             total == CHOOSE g : g = [s \in SUBSET I |-> Adds(s, g)]
  <1>1. MapThenSumSet(LAMBDA b : bars[b].total, I) = total[I]
    BY DEF MapThenSumSet, MapThenFoldSet
  <1>2. \A g : \A s \in SUBSET I : Adds(s, g) = Folded(h, s, g)
    BY DEF Folded, Some
  <1>3. PICK g : Folds(g, h, I)
    BY FoldExists
  <1>4. g = [s \in SUBSET I |-> Adds(s, g)]
    <2>1. g = [s \in SUBSET I |-> Folded(h, s, g)]
      BY <1>3 DEF Folds
    <2> HIDE DEF Adds
    <2> QED
      BY <1>2, <2>1
  <1>5. total = [s \in SUBSET I |-> Adds(s, total)]
    <2> HIDE DEF Adds
    <2> QED
      BY <1>4
  <1> HIDE DEF total
  <1>6. Folds(total, h, I)
    <2> HIDE DEF Adds
    <2>1. [s \in SUBSET I |-> Adds(s, total)] = [s \in SUBSET I |-> Folded(h, s, total)]
      BY <1>2
    <2> QED
      BY <1>5, <2>1 DEF Folds
  <1> QED
    BY <1>1, <1>6, SumIsFold

\* The documents with a number are finitely many, and their numbers integers.
LEMMA NumbersTyped ==
    ASSUME PollerInv, NEW since, NEW until
    PROVE  LET N == HasNumber(ObservedIn(since, until))
           IN  /\ IsFiniteSet(N)
               /\ \A doc \in N : doc \in Document /\ doc.interval \in Int
  <1> DEFINE N == HasNumber(ObservedIn(since, until))
             f == [doc \in N |-> Slot(doc.at)]
  <1>1. \A doc \in N : /\ doc \in Document /\ doc.interval # NoValue
                       /\ Slot(doc.at) \in Slots
                       /\ doc = telemetry[Slot(doc.at)]
    BY ObservedTyped DEF HasNumber
  <1>2. f \in Injection(N, Slots)
    BY <1>1 DEF Injection, IsInjective
  <1>3. IsFiniteSet(Slots)
    BY SlotBounds, MaxTimeAssumption, FS_Interval DEF Slots
  <1> HIDE DEF f
  <1>4. IsFiniteSet(N)
    BY <1>2, <1>3, FS_Injection
  <1>5. \A doc \in N : doc.interval \in Int
    BY <1>1 DEF Document, Optional
  <1> QED
    BY <1>1, <1>4, <1>5

\* The bucket of a sample of the window is one of the bars.
LEMMA BucketIsShown ==
    ASSUME NEW t \in Nat, NEW since \in Nat, NEW until \in Nat, since <= t, t < until,
           NEW width \in Nat \ {0}
    PROVE  BucketOf(t, since, width) \in BucketStarts(since, until, width)
  <1> DEFINE first == BucketOf(since, since, width)
             own == BucketOf(t, since, width)
             anchor == Day(since) * DayLength
             p == (since - anchor) \div width
             q == (t - anchor) \div width
  <1>1. Day(since) \in Nat /\ anchor \in Nat /\ anchor <= since
    <2>1. \A a \in Nat, b \in Nat \ {0} :
              a \div b \in Nat /\ (a \div b) * b \in Nat /\ (a \div b) * b <= a
      OBVIOUS
    <2> QED
      BY <2>1, DayLengthAssumption DEF Day
  <1>2. first = anchor + p * width /\ own = anchor + q * width
    BY DEF BucketOf
  <1>3. own <= t
    BY BucketBounds
  <1> HIDE DEF anchor
  <1>4. p \in Nat /\ q \in Nat /\ p <= q
    <2>1. \A a \in Nat, c \in Nat, b \in Nat \ {0} :
              a <= c => a \div b \in Nat /\ c \div b \in Nat /\ a \div b <= c \div b
      OBVIOUS
    <2>2. since - anchor \in Nat /\ t - anchor \in Nat /\ since - anchor <= t - anchor
      BY <1>1
    <2> QED
      BY <2>1, <2>2
  <1> HIDE DEF p, q, first, own
  <1>5. own - first = (q - p) * width /\ q - p \in Nat
    BY <1>1, <1>2, <1>4
  <1>6. \A k \in Nat, b \in Nat \ {0} : k * b \in Nat /\ (k * b) % b = 0
    <2> SUFFICES ASSUME NEW k \in Nat, NEW b \in Nat \ {0}
                 PROVE  k * b \in Nat /\ (k * b) % b = 0
      OBVIOUS
    <2> DEFINE n == k * b
    <2>1. n \in Nat
      OBVIOUS
    <2>2. n = b * (n \div b) + (n % b) /\ n % b \in 0..(b - 1) /\ n \div b \in Nat
      <3> HIDE DEF n
      <3> QED
        BY <2>1
    <2>3. n % b = (k - (n \div b)) * b
      BY <2>2
    <2>4. \A j \in Int : j * b \in 0..(b - 1) => j * b = 0
      <3> SUFFICES ASSUME NEW j \in Int, j * b \in 0..(b - 1)
                   PROVE  j * b = 0
        OBVIOUS
      <3>1. j >= 1 => j * b >= b
        OBVIOUS
      <3>2. j <= -1 => j * b <= -b
        OBVIOUS
      <3> QED
        BY <3>1, <3>2
    <2> QED
      BY <2>1, <2>2, <2>3, <2>4
  <1>7. own - first \in Nat /\ (own - first) % width = 0
    BY <1>5, <1>6
  <1>8. first \in Nat /\ own \in Nat
    BY <1>1, <1>2, <1>4
  <1>9. own \in first..(until - 1)
    BY <1>3, <1>7, <1>8
  <1> QED
    BY <1>7, <1>9 DEF BucketStarts, first, own

\* The bars of a window add up to the total beside them: each sample with a number
\* lies in one bar, and none is left out at an edge.
THEOREM BarsAreTheTotal == Spec => []BarsAddUp
  <1>1. PollerInv => BarsAddUp
    <2> SUFFICES ASSUME PollerInv, NEW since \in 0..clock, NEW until \in 0..clock,
                        since < until, NEW width \in Widths
                 PROVE  LET docs == ObservedIn(since, until)
                            bars == BucketSeries(docs, since, until, width)
                        IN  MapThenSumSet(LAMBDA b : bars[b].total, DOMAIN bars)
                              = SummarizeRange(docs, since, until).total
      BY Zenon DEF BarsAddUp, IsWindow
    <2> DEFINE docs == ObservedIn(since, until)
               N == HasNumber(docs)
               bars == BucketSeries(docs, since, until, width)
               starts == BucketStarts(since, until, width)
               f == [doc \in N |-> doc.interval]
               p == [doc \in N |-> BucketOf(doc.at, since, width)]
               own(b) == {doc \in docs : BucketOf(doc.at, since, width) = b}
               h == [b \in starts |-> TotalOf(own(b))]
    <2>1. since \in Nat /\ until \in Nat /\ width \in Nat \ {0}
      BY WidthsAssumption DEF PollerInv, LoopInv
    <2>2. IsFiniteSet(N) /\ Integral(f, N)
      BY NumbersTyped DEF Integral
    <2>3. \A doc \in N : p[doc] \in starts
      BY <2>1, ObservedTyped, BucketIsShown DEF HasNumber
    <2>4. IsFiniteSet(starts)
      <3>1. /\ \E q \in Nat : BucketOf(since, since, width) = Day(since) * DayLength + q * width
            /\ Day(since) \in Nat
        <4>1. since <= since
          BY <2>1
        <4> QED
          BY <2>1, <4>1, BucketBounds
      <3>2. BucketOf(since, since, width) \in Nat /\ until - 1 \in Int
        BY <2>1, <3>1, DayLengthAssumption
      <3>3. IsFiniteSet(BucketOf(since, since, width)..(until - 1))
        BY <3>2, FS_Interval
      <3> QED
        BY <3>3, FS_Subset DEF BucketStarts
    <2>5. DOMAIN bars = starts /\ \A b \in starts : bars[b].total = h[b]
      BY DEF BucketSeries
    <2>6. \A b \in starts : h[b] = SumOf(f, Part(N, p, {b}))
      <3> SUFFICES ASSUME NEW b \in starts
                   PROVE  TotalOf(own(b)) = SumOf(f, Part(N, p, {b}))
        OBVIOUS
      <3>1. HasNumber(own(b)) = Part(N, p, {b})
        BY DEF HasNumber, Part
      <3>2. HasNumber(own(b)) \subseteq N
        BY <3>1 DEF Part
      <3>3. /\ IsFiniteSet(HasNumber(own(b)))
            /\ \A doc \in HasNumber(own(b)) : f[doc] = doc.interval
            /\ Integral(f, HasNumber(own(b)))
        BY <2>2, <3>2, FS_Subset DEF Integral
      <3> HIDE DEF own, f
      <3> QED
        BY <3>1, <3>3, TotalIsSum
    <2>7. TotalOf(docs) = SumOf(f, N)
      <3>1. \A doc \in N : f[doc] = doc.interval
        OBVIOUS
      <3> HIDE DEF f
      <3> QED
        BY <2>2, <3>1, TotalIsSum
    <2>8. SummarizeRange(docs, since, until).total = TotalOf(docs)
      BY DEF SummarizeRange
    <2> HIDE DEF docs, N, bars, starts, f, p, h
    <2>p. SumsParts(h, starts, f, N, p)
      BY <2>3, <2>6 DEF SumsParts
    <2>9. Integral(h, starts) /\ SumOf(h, starts) = SumOf(f, N)
      BY <2>2, <2>4, <2>p, SumOfParts
    <2>10. MapThenSumSet(LAMBDA b : bars[b].total, starts) = SumOf(h, starts)
      BY <2>4, <2>5, <2>9, BarsAreSummed, Zenon
    <2>11. MapThenSumSet(LAMBDA b : bars[b].total, DOMAIN bars)
             = SummarizeRange(docs, since, until).total
      BY <2>5, <2>7, <2>8, <2>9, <2>10, Zenon
    <2> QED
      BY <2>11, Zenon DEF docs, bars
  <1> QED
    BY <1>1, PollerIsRight, PTL

-----------------------------------------------------------------------------
(* What a number counts. *)

\* What a number was computed from: a counter that was read, and exactly what
\* it advanced by since the baseline.
Consumes(doc) ==
    /\ doc.energyOk => doc.value = Counter(doc.at)
    /\ doc.interval # NoValue =>
           /\ doc.energyOk
           /\ doc.previous # NoValue
           /\ doc.interval = doc.at - doc.previous.at

\* The usable documents before slot s, and the instant of the newest of them.
UsableBefore(s) == {u \in Stored : u < s /\ telemetry[u].energyOk}
IsNewest(t, s) ==
    /\ \E u \in UsableBefore(s) : telemetry[u].at = t
    /\ \A u \in UsableBefore(s) : telemetry[u].at <= t

\* The baseline of a number is the newest usable document before it.
Chained(s) ==
    telemetry[s].interval # NoValue => IsNewest(telemetry[s].previous.at, s)

\* What is stored has been observed, by the last cycle or before.
ChainInv ==
    \A s \in Stored :
        /\ telemetry[s].at <= clock
        /\ now # NoValue => telemetry[s].at <= now
        /\ Consumes(telemetry[s])
        /\ Chained(s)

\* What is known of the loop and of its series.
SeriesInv == PollerInv /\ ChainInv

\* The counter of a day, and how far it is from one instant to another of the same
\* day or the next.
LEMMA CounterAdvances ==
    ASSUME NEW t \in Time, NEW u \in Time
    PROVE  /\ Counter(t) \in Nat /\ Counter(t) < DayLength
           /\ Day(t) \in Nat /\ Day(u) \in Nat
           /\ Day(t) = Day(u) => Counter(t) - Counter(u) = t - u
           /\ Day(t) - Day(u) = 1 => DayLength - Counter(u) + Counter(t) = t - u
  <1>1. \A a \in Nat, b \in Nat \ {0} :
            /\ a \div b \in Nat
            /\ a % b \in Nat /\ a % b < b
            /\ a = (a \div b) * b + (a % b)
    OBVIOUS
  <1>2. t \in Nat /\ u \in Nat
    BY MaxTimeAssumption DEF Time
  <1> DEFINE x == Day(t) * DayLength
             y == Day(u) * DayLength
  <1>3. /\ Day(t) \in Nat /\ Counter(t) \in Nat /\ Counter(t) < DayLength
        /\ t = x + Counter(t)
        /\ Day(u) \in Nat /\ Counter(u) \in Nat
        /\ u = y + Counter(u)
    BY <1>1, <1>2, DayLengthAssumption DEF Day, Counter
  <1>4. x \in Nat /\ y \in Nat
    BY <1>3, DayLengthAssumption
  <1>5. Day(t) = Day(u) => x = y
    OBVIOUS
  <1>6. Day(t) - Day(u) = 1 => x = y + DayLength
    <2> SUFFICES ASSUME Day(t) - Day(u) = 1
                 PROVE  x = y + DayLength
      OBVIOUS
    <2>1. Day(t) = Day(u) + 1
      BY <1>3
    <2>2. \A d \in Nat, b \in Nat : (d + 1) * b = d * b + b
      OBVIOUS
    <2> QED
      BY <1>3, <2>1, <2>2, DayLengthAssumption
  <1> HIDE DEF x, y
  <1> QED
    BY <1>3, <1>4, <1>5, <1>6, DayLengthAssumption

\* What a cycle stores consumes what the counter advanced by since its baseline.
LEMMA BuiltConsumes ==
    ASSUME NEW t \in Time, NEW energy \in {Success(Counter(t)), Failed("OTHER")},
           NEW previous, NEW hasPrior, NEW final \in {NoValue, DayLength},
           previous # NoValue =>
               previous.at \in Time /\ previous.value = Counter(previous.at)
    PROVE  LET doc == BuildObservation(t, energy, Success(NoValue), previous, hasPrior, final)
           IN  /\ doc.at = t /\ doc.previous = previous
               /\ Consumes(doc)
  <1> DEFINE o == ComputeInterval(energy.value, t, previous, hasPrior, final)
             doc == BuildObservation(t, energy, Success(NoValue), previous, hasPrior, final)
  <1>1. /\ doc.at = t /\ doc.previous = previous /\ doc.energyOk = energy.ok
        /\ doc.value = energy.value /\ doc.interval = o.value
    BY DEF BuildObservation
  <1>2. \/ energy.ok = TRUE /\ energy.value = Counter(t)
        \/ energy.ok = FALSE /\ energy.value = NoValue
    BY DEF Success, Failed
  <1>3. energy.ok => energy.value = Counter(t)
    BY <1>2
  <1>4. ASSUME o.value # NoValue
        PROVE  energy.ok /\ previous # NoValue /\ o.value = t - previous.at
    <2>1. energy.value # NoValue /\ previous # NoValue
      BY <1>4 DEF ComputeInterval, Outcome
    <2>2. energy.ok /\ energy.value = Counter(t)
      BY <1>2, <2>1
    <2> DEFINE c == Counter(t)
               b == Counter(previous.at)
               gap == DayGap(t, previous)
               seconds == t - previous.at
    <2>3. /\ c \in Nat /\ b \in Nat /\ gap \in Int
          /\ b < DayLength
          /\ gap = 0 => c - b = t - previous.at
          /\ gap = 1 => DayLength - b + c = t - previous.at
      BY <2>1, CounterAdvances DEF DayGap
    <2>4. o = CASE gap < 0 -> Outcome(NoValue, seconds, "MISSING_PREVIOUS_SAMPLE",
                                     {}, NoValue)
                [] gap = 0 -> SameDay(c, b, seconds)
                [] gap = 1 -> DayRollover(c, b, seconds, final)
                [] gap > 1 -> Outcome(NoValue, seconds, "MULTI_DAY_GAP", {}, NoValue)
      BY <2>1, <2>2 DEF ComputeInterval
    <2> HIDE DEF o, gap, seconds, c, b
    <2>5. gap = 0 \/ gap = 1
      BY <1>4, <2>3, <2>4 DEF Outcome
    <2>6. CASE gap = 0
      <3>1. o = SameDay(c, b, seconds)
        BY <2>4, <2>6
      <3>2. o.value = c - b
        BY <1>4, <3>1 DEF SameDay, Outcome
      <3> QED
        BY <2>1, <2>2, <2>3, <2>6, <3>2
    <2>7. CASE gap = 1
      <3>1. o = DayRollover(c, b, seconds, final)
        BY <2>4, <2>7
      <3>2. final = DayLength
        BY <1>4, <3>1 DEF DayRollover, Outcome
      <3>3. o.value = DayLength - b + c
        BY <1>4, <3>1, <3>2 DEF DayRollover, Outcome, Reconstruct
      <3> QED
        BY <2>1, <2>2, <2>3, <2>7, <3>3
    <2> QED
      BY <2>5, <2>6, <2>7
  <1> HIDE DEF doc, o
  <1> QED
    BY <1>1, <1>3, <1>4 DEF Consumes, doc

\* A baseline is a counter that was read, and no usable document before the slot is
\* newer.
LEMMA BaselineChained ==
    ASSUME SeriesInv, NEW slot \in Nat, Baseline(slot) # NoValue
    PROVE  /\ Baseline(slot).at \in Time
           /\ Baseline(slot).value = Counter(Baseline(slot).at)
           /\ IsNewest(Baseline(slot).at, slot)
  <1> USE DEF SeriesInv
  <1> DEFINE usable == {s \in Stored : s < slot /\ telemetry[s].energyOk}
             newest == CHOOSE s \in usable : \A u \in usable : u <= s
             base == telemetry[newest]
  <1>1. usable # {}
    BY DEF Baseline
  <1>2. usable \subseteq 0..Slot(MaxTime) /\ Slot(MaxTime) \in Nat
    BY MaxTimeAssumption, SlotBounds DEF Stored, Slots
  <1>3. \E s \in usable : \A u \in usable : u <= s
    BY <1>1, <1>2, NewestExists
  <1>4. newest \in usable /\ \A u \in usable : u <= newest
    BY <1>3
  <1>5. Baseline(slot) = AsPreviousReading(newest, base)
    BY <1>1 DEF Baseline
  <1> HIDE DEF newest
  <1>6. Baseline(slot).at = base.at /\ Baseline(slot).value = base.value
    BY <1>5 DEF AsPreviousReading
  <1>7. newest \in Stored /\ base.energyOk
    BY <1>4
  <1>8. \A s \in Stored : /\ telemetry[s].at \in Time
                          /\ Slot(telemetry[s].at) = s
    BY DEF PollerInv, TypeOK, Stored, Optional, Document, Sampled
  <1>9. base.value = Counter(base.at)
    BY <1>7 DEF ChainInv, Consumes
  <1>10. ASSUME NEW u \in usable
         PROVE  telemetry[u].at <= base.at
    <2>1. telemetry[u].at \in Nat /\ base.at \in Nat /\ u \in Nat /\ newest \in Nat
      BY <1>2, <1>4, <1>7, <1>8, SlotIsOne
    <2>2. base.at <= telemetry[u].at => newest <= u
      BY <1>7, <1>8, <2>1, SlotMonotone
    <2>3. newest = u => base.at = telemetry[u].at
      OBVIOUS
    <2> HIDE DEF base, usable
    <2> QED
      BY <1>4, <2>1, <2>2, <2>3
  <1>11. IsNewest(base.at, slot)
    <2>1. UsableBefore(slot) = usable
      BY DEF UsableBefore
    <2> HIDE DEF base, usable
    <2>2. telemetry[newest].at = base.at
      BY DEF base
    <2> QED
      BY <1>4, <1>10, <2>1, <2>2 DEF IsNewest
  <1> QED
    BY <1>6, <1>7, <1>8, <1>9, <1>11

\* The chain is kept by a write, which is to the newest slot, and by every other step.
LEMMA ChainStep == SeriesInv /\ [Next]_vars => ChainInv'
  <1> SUFFICES ASSUME SeriesInv, [Next]_vars
               PROVE  ChainInv'
    OBVIOUS
  <1> USE DEF SeriesInv
  <1>t. /\ clock \in Nat /\ (now # NoValue => now \in Nat /\ now <= clock)
        /\ telemetry \in [Slots -> Optional(Document)]
    BY DEF PollerInv, LoopInv, TypeOK
  <1>s. \A s \in Stored : /\ s \in Slots /\ s \in Nat
                          /\ telemetry[s].at \in Time /\ telemetry[s].at \in Nat
                          /\ Slot(telemetry[s].at) = s
    BY SlotIsOne DEF PollerInv, TypeOK, Stored, Optional, Document, Sampled, Slots
  <1>1. CASE Observe
    <2> DEFINE slot == Slot(now)
    <2>1. PICK doc \in Observations(now) :
             telemetry' = IF \/ telemetry[slot] = NoValue
                             \/ Completeness(doc) > Completeness(telemetry[slot])
                          THEN [telemetry EXCEPT ![slot] = doc]
                          ELSE telemetry
      BY <1>1, <1>t, ObserveWrites
    <2>2. UNCHANGED <<now, clock>> /\ now # NoValue /\ now \in Time
      BY <1>1, <1>t DEF Observe, PollerInv, LoopInv, TypeOK, Optional
    <2>3. slot \in Slots /\ slot \in Nat /\ now \in Nat
      BY <2>2, SlotIsOne, SlotBounds
    <2>4. CASE telemetry' = telemetry
      BY <2>2, <2>4 DEF ChainInv, Chained, IsNewest, UsableBefore, Stored
    <2>5. CASE telemetry' = [telemetry EXCEPT ![slot] = doc]
      <3> DEFINE base == Baseline(slot)
                 hasPrior == \E s \in Stored : s < slot
      <3>1. base # NoValue => /\ base.at \in Time
                              /\ base.value = Counter(base.at)
                              /\ IsNewest(base.at, slot)
        BY <2>3, BaselineChained
      <3>2. /\ doc.at = now /\ doc.previous = base /\ Consumes(doc)
            /\ doc # NoValue
        <4>1. Observations(now) =
                {BuildObservation(now, energy, Success(NoValue), base, hasPrior, final) :
                   energy \in {Success(Counter(now)), Failed("OTHER")},
                   final \in {NoValue, DayLength}}
          BY DEF Observations
        <4>2. doc \in Document
          BY <2>2, ObservationsTyped DEF PollerInv
        <4> HIDE DEF base, hasPrior
        <4>3. \A energy \in {Success(Counter(now)), Failed("OTHER")},
                 final \in {NoValue, DayLength} :
                 LET d == BuildObservation(now, energy, Success(NoValue), base, hasPrior, final)
                 IN  d.at = now /\ d.previous = base /\ Consumes(d)
          BY <2>2, <3>1, BuiltConsumes
        <4>4. \E energy \in {Success(Counter(now)), Failed("OTHER")},
                 final \in {NoValue, DayLength} :
                 doc = BuildObservation(now, energy, Success(NoValue), base, hasPrior, final)
          BY <4>1
        <4> QED
          BY <4>2, <4>3, <4>4, NoDocumentAssumption
      <3> HIDE DEF base
      <3>3. /\ telemetry'[slot] = doc
            /\ \A s \in Slots \ {slot} : telemetry'[s] = telemetry[s]
            /\ Stored' = Stored \union {slot}
        <4>1. telemetry'[slot] = doc /\ \A s \in Slots \ {slot} : telemetry'[s] = telemetry[s]
          BY <1>t, <2>3, <2>5
        <4> QED
          BY <2>3, <3>2, <4>1 DEF Stored
      <3>4. \A s \in Stored : s <= slot /\ telemetry[s].at <= now
        <4> SUFFICES ASSUME NEW s \in Stored
                     PROVE  s <= slot /\ telemetry[s].at <= now
          OBVIOUS
        <4>1. telemetry[s].at <= now
          BY <2>2 DEF ChainInv
        <4> QED
          BY <1>s, <2>3, <4>1, SlotMonotone
      <3>5. ASSUME NEW s \in Stored, s # slot
            PROVE  telemetry'[s] = telemetry[s]
        BY <1>s, <3>3, <3>5
      <3>a. ASSUME NEW s \in Nat, s <= slot
            PROVE  \A t : IsNewest(t, s)' <=> IsNewest(t, s)
        <4>1. \A u : u \in Stored /\ u < s <=> u \in Stored' /\ u < s
          BY <1>s, <2>3, <3>3, <3>a
        <4>2. \A u \in Stored : u < s => telemetry'[u] = telemetry[u]
          BY <1>s, <2>3, <3>3, <3>a
        <4>3. UsableBefore(s)' = UsableBefore(s)
          BY <4>1, <4>2 DEF UsableBefore
        <4>4. \A u \in UsableBefore(s) : telemetry'[u] = telemetry[u]
          BY <4>2 DEF UsableBefore
        <4> QED
          BY <4>3, <4>4 DEF IsNewest
      <3>6. ASSUME NEW s \in Stored', s # slot
            PROVE  Chained(s)'
        <4>1. s \in Stored /\ s \in Nat /\ s <= slot
          BY <1>s, <3>3, <3>4, <3>6
        <4> QED
          BY <3>5, <3>6, <3>a, <4>1 DEF ChainInv, Chained
      <3>7. ASSUME NEW s \in Stored', s = slot
            PROVE  Chained(s)'
        <4> SUFFICES ASSUME telemetry'[s].interval # NoValue
                     PROVE  IsNewest(telemetry[s].previous.at, s)'
          BY DEF Chained
        <4>1. telemetry'[s] = doc
          BY <3>3, <3>7
        <4>2. base # NoValue
          BY <3>2, <4>1 DEF Consumes
        <4>3. s \in Nat /\ s <= slot
          BY <2>3, <3>7
        <4> QED
          BY <3>1, <3>2, <3>7, <3>a, <4>1, <4>2, <4>3
      <3>8. ASSUME NEW s \in Stored'
            PROVE  /\ telemetry'[s].at <= clock'
                   /\ now' # NoValue => telemetry'[s].at <= now'
                   /\ Consumes(telemetry'[s])
        <4>1. CASE s = slot
          BY <1>t, <2>2, <3>2, <3>3, <4>1
        <4>2. CASE s # slot
          <5>1. s \in Stored /\ telemetry'[s] = telemetry[s]
            BY <3>3, <3>5, <3>8, <4>2
          <5> QED
            BY <2>2, <5>1 DEF ChainInv
        <4> QED
          BY <4>1, <4>2
      <3> QED
        BY <3>6, <3>7, <3>8 DEF ChainInv
    <2> QED
      BY <2>1, <2>4, <2>5
  <1>2. CASE telemetry' = telemetry /\ clock' = clock /\ now' \in {now, clock, NoValue}
    BY <1>2 DEF ChainInv, Chained, IsNewest, UsableBefore, Stored
  <1>3. CASE Tick
    <2>1. UNCHANGED <<telemetry, now>> /\ clock' = clock + 1
      BY <1>3 DEF Tick
    <2> QED
      BY <1>s, <1>t, <2>1 DEF ChainInv, Chained, IsNewest, UsableBefore, Stored
  <1>4. CASE BeginCycle \/ Abandon \/ WakeUp \/ Start \/ WaitForSlot \/ Stop \/ Kill
             \/ Signal \/ UNCHANGED vars
    <2>1. telemetry' = telemetry /\ clock' = clock /\ now' \in {now, clock, NoValue}
      BY <1>4 DEF BeginCycle, Abandon, WakeUp, Start, WaitForSlot, Stop, Kill, Ended,
                  Signal, vars
    <2> QED
      BY <1>2, <2>1
  <1> QED
    BY <1>1, <1>3, <1>4 DEF Next, Step

\* The series is right in every reachable state.
THEOREM SeriesIsRight == Spec => []SeriesInv
  <1>1. Init => ChainInv
    BY DEF Init, ChainInv, Stored
  <1>2. PollerInv /\ ChainInv /\ [Next]_vars => ChainInv'
    BY ChainStep DEF SeriesInv
  <1> QED
    BY <1>1, <1>2, PollerIsRight, PTL DEF Spec, SeriesInv

\* Some instants have a last one if they are bounded.
LEMMA MaxOfInstants ==
    ASSUME NEW n \in Nat, NEW S, S \subseteq 0..n, S # {}
    PROVE  Max(S) \in S /\ \A x \in S : x <= Max(S)
  <1>1. PICK s \in S : \A u \in S : u <= s
    BY NewestExists
  <1>2. \A u \in S : s >= u
    BY <1>1
  <1> QED
    BY <1>2 DEF Max

\* And always a first one.
LEMMA MinOfInstants ==
    ASSUME NEW S, S \subseteq Nat, S # {}
    PROVE  Min(S) \in S /\ \A x \in S : Min(S) <= x
  <1>1. PICK s \in S : \A y \in S : ~ (<<y, s>> \in OpToRel(<, Nat))
    BY NatLessThanWellFounded, WFMin
  <1>2. \A y \in S : ~ (y < s)
    BY <1>1 DEF OpToRel
  <1>3. \A y \in S : s <= y
    BY <1>2
  <1> QED
    BY <1>3 DEF Min

\* A number counts the time since its baseline, which is the newest usable document
\* before it.
LEMMA NumberCounts ==
    ASSUME SeriesInv, NEW since, NEW until,
           NEW doc \in HasNumber(ObservedIn(since, until))
    PROVE  /\ doc.at \in 0..MaxTime /\ doc.at \in Nat
           /\ since <= doc.at /\ doc.at < until
           /\ Slot(doc.at) \in 0..Slot(MaxTime) /\ Slot(doc.at) \in Nat
           /\ Slot(doc.at) \in Stored
           /\ doc = telemetry[Slot(doc.at)]
           /\ doc.energyOk
           /\ doc.interval # NoValue /\ doc.interval \in Int
           /\ doc.previous.at \in Nat
           /\ doc.interval = doc.at - doc.previous.at
           /\ IsNewest(doc.previous.at, Slot(doc.at))
  <1> USE DEF SeriesInv
  <1>1. /\ doc = telemetry[Slot(doc.at)] /\ Slot(doc.at) \in Slots
        /\ since <= doc.at /\ doc.at < until
        /\ doc.interval # NoValue
    BY ObservedTyped DEF HasNumber
  <1>2. doc \in Document /\ doc.interval \in Int
    BY NumbersTyped
  <1>3. Slot(doc.at) \in Stored
    BY <1>1, <1>2, NoDocumentAssumption DEF Stored
  <1>4. Consumes(doc) /\ Chained(Slot(doc.at))
    BY <1>1, <1>3 DEF ChainInv
  <1>5. /\ doc.energyOk /\ doc.previous # NoValue
        /\ doc.interval = doc.at - doc.previous.at
    BY <1>1, <1>4 DEF Consumes
  <1>6. doc.previous \in PreviousReading /\ doc.at \in Time
    BY <1>2, <1>5 DEF Document, Optional
  <1>7. doc.previous.at \in Nat /\ doc.at \in 0..MaxTime /\ doc.at \in Nat
    BY <1>6, MaxTimeAssumption DEF PreviousReading, Time
  <1>8. Slot(doc.at) \in Nat /\ Slot(doc.at) \in 0..Slot(MaxTime)
    BY <1>1, <1>7, SlotBounds DEF Slots
  <1>9. IsNewest(doc.previous.at, Slot(doc.at))
    BY <1>1, <1>4 DEF Chained
  <1> QED
    BY <1>1, <1>2, <1>3, <1>5, <1>7, <1>8, <1>9

\* Of two documents with a number, the later one's baseline is no older than the
\* other.
LEMMA NumbersFollow ==
    ASSUME SeriesInv, NEW since, NEW until,
           NEW d \in HasNumber(ObservedIn(since, until)),
           NEW e \in HasNumber(ObservedIn(since, until)),
           d # e, Slot(d.at) <= Slot(e.at)
    PROVE  d.at <= e.previous.at
  <1>1. \A doc \in {d, e} : /\ doc = telemetry[Slot(doc.at)]
                            /\ Slot(doc.at) \in Stored /\ Slot(doc.at) \in Nat
                            /\ doc.energyOk
    BY NumberCounts
  <1> DEFINE s == Slot(e.at)
             u == Slot(d.at)
  <1>2. IsNewest(e.previous.at, s)
    BY NumberCounts
  <1>3. u \in Stored /\ u \in Nat /\ s \in Nat /\ u # s /\ u <= s
    BY <1>1
  <1>4. telemetry[u] = d /\ d.energyOk
    BY <1>1
  <1> HIDE DEF s, u
  <1>5. u \in UsableBefore(s)
    BY <1>3, <1>4 DEF UsableBefore
  <1> QED
    BY <1>2, <1>4, <1>5 DEF IsNewest

\* A number's baseline is a reading before it, and no later.
LEMMA BaselineIsStored ==
    ASSUME SeriesInv, NEW since, NEW until,
           NEW e \in HasNumber(ObservedIn(since, until))
    PROVE  /\ e.previous.at <= e.at
           /\ \E u \in Stored :
                 /\ telemetry[u].energyOk
                 /\ telemetry[u].at = e.previous.at
                 /\ Slot(telemetry[u].at) = u
                 /\ u \in Nat
                 /\ u < Slot(e.at)
  <1>1. /\ e.at \in Nat /\ e.previous.at \in Nat
        /\ Slot(e.at) \in Nat
        /\ IsNewest(e.previous.at, Slot(e.at))
    BY NumberCounts
  <1>2. PICK u \in UsableBefore(Slot(e.at)) : telemetry[u].at = e.previous.at
    BY <1>1 DEF IsNewest
  <1>3. u \in Stored /\ u < Slot(e.at) /\ telemetry[u].energyOk
    BY <1>2 DEF UsableBefore
  <1>4. telemetry[u].at \in Nat /\ Slot(telemetry[u].at) = u /\ u \in Nat
    <2>1. u \in Slots /\ telemetry[u] \in Document
      BY <1>3 DEF SeriesInv, PollerInv, TypeOK, Stored, Optional
    <2>2. telemetry[u].at \in Time
      BY <2>1 DEF Document
    <2>3. Slot(telemetry[u].at) = u
      BY <1>3 DEF SeriesInv, PollerInv, Sampled
    <2> QED
      BY <2>1, <2>2, <2>3, SlotIsOne, SlotBounds, MaxTimeAssumption DEF Slots, Time
  <1>5. e.previous.at <= e.at
    <2>1. e.at <= e.previous.at => Slot(e.at) <= u
      BY <1>1, <1>2, <1>4, SlotMonotone
    <2> QED
      BY <1>1, <1>3, <1>4, <2>1
  <1> QED
    BY <1>2, <1>3, <1>4, <1>5

\* Between two instants that all of them and their baselines lie between, no
\* documents count for more than the time that passes.
LEMMA SumIsConsumed ==
    ASSUME SeriesInv, NEW since, NEW until,
           NEW f, \A doc \in HasNumber(ObservedIn(since, until)) : f[doc] = doc.interval,
           NEW lo \in Int, NEW hi \in Int,
           HasNumber(ObservedIn(since, until)) # {},
           \A doc \in HasNumber(ObservedIn(since, until)) :
               doc.at <= hi /\ lo <= doc.previous.at
    PROVE  SumOf(f, HasNumber(ObservedIn(since, until))) <= hi - lo
  <1> DEFINE N == HasNumber(ObservedIn(since, until))
             Fits(s) == s # {} =>
                 \A to \in Int : (\A doc \in s : doc.at <= to) => SumOf(f, s) <= to - lo
             X == {s \in SUBSET N : Fits(s)}
  <1>1. /\ IsFiniteSet(N)
        /\ \A doc \in N : /\ doc.interval \in Int
                          /\ doc.at \in Nat /\ Slot(doc.at) \in 0..Slot(MaxTime)
                          /\ doc.previous.at \in Nat
                          /\ doc.interval = doc.at - doc.previous.at
    BY NumbersTyped, NumberCounts DEF SeriesInv
  <1>2. \A doc \in N : f[doc] = doc.interval /\ doc.at <= hi /\ lo <= doc.previous.at
    OBVIOUS
  <1>3. \A s \in SUBSET N : IsFiniteSet(s) /\ Integral(f, s)
    BY <1>1, <1>2, FS_Subset DEF Integral
  <1>4. \A d \in N, e \in N : d # e /\ Slot(d.at) <= Slot(e.at) => d.at <= e.previous.at
    BY NumbersFollow
  <1> HIDE DEF N
  <1>5. {} \in X
    OBVIOUS
  <1>6. ASSUME NEW s \in SUBSET N, s # {}, \A x \in s : s \ {x} \in X
        PROVE  s \in X
    <2> SUFFICES ASSUME NEW to \in Int, \A doc \in s : doc.at <= to
                 PROVE  SumOf(f, s) <= to - lo
      OBVIOUS
    <2> DEFINE T == {Slot(doc.at) : doc \in s}
    <2>1. T \subseteq 0..Slot(MaxTime) /\ T # {} /\ Slot(MaxTime) \in Nat
      BY <1>1, <1>6, SlotBounds, MaxTimeAssumption
    <2>2. PICK last \in T : \A t \in T : t <= last
      BY <2>1, NewestExists
    <2>3. PICK e \in s : last = Slot(e.at)
      OBVIOUS
    <2> DEFINE rest == s \ {e}
    <2>4. \A d \in rest : d.at <= e.previous.at
      BY <1>4, <2>2, <2>3
    <2>5. SumOf(f, s) = f[e] + SumOf(f, rest)
      BY <1>3, SumOfSome
    <2>6. /\ f[e] = e.at - e.previous.at
          /\ e.at \in Int /\ e.previous.at \in Int
          /\ e.at <= to /\ lo <= e.previous.at
      BY <1>1, <1>2
    <2>7. CASE rest = {}
      <3>1. SumOf(f, rest) = 0
        BY <2>7, SumOfNone
      <3> HIDE DEF rest
      <3> QED
        BY <2>5, <2>6, <3>1
    <2>8. CASE rest # {}
      <3>1. rest \in X
        BY <1>6
      <3>2. SumOf(f, rest) <= e.previous.at - lo
        BY <2>4, <2>6, <2>8, <3>1
      <3>3. SumOf(f, rest) \in Int
        <4>1. rest \in SUBSET N
          OBVIOUS
        <4> QED
          BY <1>3, <4>1, SumTyped
      <3> HIDE DEF rest
      <3> QED
        BY <2>5, <2>6, <3>2, <3>3
    <2> QED
      BY <2>7, <2>8
  <1> HIDE DEF X
  <1>7. SUBSET N \subseteq X
    BY <1>1, <1>5, <1>6, Shrinking
  <1>8. Fits(N)
    BY <1>7 DEF X
  <1> QED
    BY <1>2, <1>8 DEF N

\* And when every reading of the window has a number, they count for no less than
\* the time from one of their baselines to one of them.
LEMMA SumIsAll ==
    ASSUME SeriesInv, NEW since \in Int, NEW until \in Int,
           NEW f, \A doc \in HasNumber(ObservedIn(since, until)) : f[doc] = doc.interval,
           \A doc \in ObservedIn(since, until) :
               doc.energyOk => doc \in HasNumber(ObservedIn(since, until)),
           NEW oldest \in HasNumber(ObservedIn(since, until)),
           NEW newest \in HasNumber(ObservedIn(since, until))
    PROVE  newest.at - oldest.previous.at <= SumOf(f, HasNumber(ObservedIn(since, until)))
  <1> DEFINE N == HasNumber(ObservedIn(since, until))
             Closed(s) == \A d \in s, e \in N : Slot(e.at) <= Slot(d.at) => e \in s
             Fits(s) == Closed(s) =>
                 \A d \in s : d.at - oldest.previous.at <= SumOf(f, s)
             X == {s \in SUBSET N : Fits(s)}
  <1>1. /\ IsFiniteSet(N)
        /\ \A doc \in N : /\ doc.interval \in Int
                          /\ doc.at \in Nat /\ since <= doc.at /\ doc.at < until
                          /\ Slot(doc.at) \in 0..Slot(MaxTime) /\ Slot(doc.at) \in Nat
                          /\ doc = telemetry[Slot(doc.at)]
                          /\ doc.previous.at \in Nat /\ doc.previous.at <= doc.at
                          /\ doc.interval = doc.at - doc.previous.at
    BY NumbersTyped, NumberCounts, BaselineIsStored DEF SeriesInv
  <1>2. \A doc \in N : f[doc] = doc.interval
    OBVIOUS
  <1>3. \A s \in SUBSET N : IsFiniteSet(s) /\ Integral(f, s)
    BY <1>1, <1>2, FS_Subset DEF Integral
  <1>4. \A d \in N, e \in N : d # e /\ Slot(d.at) <= Slot(e.at) => d.at <= e.previous.at
    BY NumbersFollow
  <1>5. ASSUME NEW e \in N, since <= e.previous.at
        PROVE  \E d \in N : d.at = e.previous.at /\ Slot(d.at) < Slot(e.at)
    <2>1. PICK u \in Stored : /\ telemetry[u].energyOk
                              /\ telemetry[u].at = e.previous.at
                              /\ Slot(telemetry[u].at) = u
                              /\ u \in Nat
                              /\ u < Slot(e.at)
      BY BaselineIsStored
    <2>2. telemetry[u] \in ObservedIn(since, until)
      BY <1>1, <1>5, <2>1 DEF ObservedIn
    <2>3. telemetry[u] \in N
      BY <2>1, <2>2
    <2> QED
      BY <2>1, <2>3
  <1>6. oldest \in N /\ newest \in N
    OBVIOUS
  <1> HIDE DEF N
  <1>7. {} \in X
    OBVIOUS
  <1>8. ASSUME NEW s \in SUBSET N, s # {}, \A x \in s : s \ {x} \in X
        PROVE  s \in X
    <2> SUFFICES ASSUME Closed(s), NEW d \in s
                 PROVE  d.at - oldest.previous.at <= SumOf(f, s)
      OBVIOUS
    <2> DEFINE T == {Slot(doc.at) : doc \in s}
    <2>1. T \subseteq 0..Slot(MaxTime) /\ T # {} /\ Slot(MaxTime) \in Nat
      BY <1>1, <1>8, SlotBounds, MaxTimeAssumption
    <2>2. PICK last \in T : \A t \in T : t <= last
      BY <2>1, NewestExists
    <2>3. PICK e \in s : last = Slot(e.at)
      OBVIOUS
    <2>4. e \in N /\ d \in N /\ \A x \in s : Slot(x.at) <= Slot(e.at)
      BY <2>2, <2>3
    <2> DEFINE rest == s \ {e}
    <2>5. SumOf(f, s) = f[e] + SumOf(f, rest)
      BY <1>3, SumOfSome
    <2>6. /\ f[e] = e.at - e.previous.at
          /\ e.at \in Nat /\ e.previous.at \in Nat /\ e.previous.at <= e.at
          /\ d.at \in Nat
          /\ oldest.previous.at \in Nat /\ oldest.at \in Nat
      BY <1>1, <1>2, <1>6, <2>4
    <2>7. d.at <= e.at
      <3>1. d # e => d.at <= e.previous.at
        BY <1>4, <2>4
      <3> QED
        BY <2>6, <3>1
    <2>8. CASE rest = {}
      <3>1. SumOf(f, rest) = 0
        BY <2>8, SumOfNone
      <3>2. e.previous.at <= oldest.previous.at
        <4>1. CASE oldest = e
          BY <2>6, <4>1
        <4>2. CASE oldest # e
          <5>1. oldest \notin s
            BY <2>8, <4>2
          <5>2. ~ (Slot(oldest.at) <= Slot(e.at))
            BY <1>6, <5>1
          <5>3. Slot(e.at) <= Slot(oldest.at)
            BY <1>1, <1>6, <2>4, <5>2
          <5>4. e.at <= oldest.previous.at
            BY <1>4, <1>6, <2>4, <4>2, <5>3
          <5> QED
            BY <2>6, <5>4
        <4> QED
          BY <4>1, <4>2
      <3> HIDE DEF rest
      <3> QED
        BY <2>5, <2>6, <2>7, <3>1, <3>2
    <2>9. CASE rest # {}
      <3>1. rest \in X
        BY <1>8
      <3>2. Closed(rest)
        <4> SUFFICES ASSUME NEW x \in rest, NEW y \in N, Slot(y.at) <= Slot(x.at)
                     PROVE  y \in rest
          OBVIOUS
        <4>1. y \in s
          OBVIOUS
        <4>2. y # e
          <5> SUFFICES ASSUME y = e
                       PROVE  FALSE
            OBVIOUS
          <5>1. x \in N /\ Slot(x.at) <= Slot(e.at) /\ Slot(e.at) <= Slot(x.at)
            BY <2>4
          <5>2. Slot(x.at) = Slot(e.at)
            BY <1>1, <2>4, <5>1
          <5> QED
            BY <1>1, <2>4, <5>1, <5>2
        <4> QED
          BY <4>1, <4>2
      <3>3. PICK x \in rest : TRUE
        BY <2>9
      <3>4. x \in N /\ x.at <= e.previous.at /\ since <= x.at /\ x.at \in Nat
        BY <1>1, <1>4, <2>4
      <3>5. PICK b \in N : b.at = e.previous.at /\ Slot(b.at) < Slot(e.at)
        BY <1>5, <2>4, <2>6, <3>4
      <3>6. b \in rest
        <4>1. Slot(b.at) \in Nat /\ Slot(e.at) \in Nat
          BY <1>1, <2>4
        <4>2. b # e /\ Slot(b.at) <= Slot(e.at)
          BY <3>5, <4>1
        <4> QED
          BY <4>2
      <3>7. b.at - oldest.previous.at <= SumOf(f, rest)
        BY <3>1, <3>2, <3>6
      <3>8. SumOf(f, rest) \in Int
        <4>1. rest \in SUBSET N
          OBVIOUS
        <4> QED
          BY <1>3, <4>1, SumTyped
      <3> HIDE DEF rest
      <3> QED
        BY <2>5, <2>6, <2>7, <3>5, <3>7, <3>8
    <2> QED
      BY <2>8, <2>9
  <1> HIDE DEF X
  <1>9. SUBSET N \subseteq X
    BY <1>1, <1>7, <1>8, Shrinking
  <1>10. Fits(N)
    BY <1>9 DEF X
  <1>11. Closed(N)
    OBVIOUS
  <1> QED
    BY <1>6, <1>10, <1>11 DEF N

\* The total of a window is no more than what was consumed from its oldest baseline
\* to its newest sample, and all of it when every reading in it has a number: no
\* unit is counted twice, and none is lost.
THEOREM TotalsAreConsumption == Spec => []TotalIsConsumed
  <1>1. SeriesInv => TotalIsConsumed
    <2> SUFFICES ASSUME SeriesInv, NEW since \in 0..clock, NEW until \in 0..clock,
                        HasNumber(ObservedIn(since, until)) # {}
                 PROVE  LET docs == HasNumber(ObservedIn(since, until))
                            readings == {doc \in ObservedIn(since, until) : doc.energyOk}
                            consumed == Max({doc.at : doc \in docs})
                                          - Min({doc.previous.at : doc \in docs})
                        IN  /\ TotalOf(docs) <= consumed
                            /\ readings \subseteq docs => TotalOf(docs) = consumed
      BY DEF TotalIsConsumed
    <2> DEFINE docs == HasNumber(ObservedIn(since, until))
               readings == {doc \in ObservedIn(since, until) : doc.energyOk}
               f == [doc \in docs |-> doc.interval]
               ends == {doc.at : doc \in docs}
               begins == {doc.previous.at : doc \in docs}
               hi == Max(ends)
               lo == Min(begins)
    <2>1. \A doc \in docs : /\ doc.at \in 0..MaxTime
                            /\ doc.previous.at \in Nat
                            /\ doc.interval \in Int /\ doc.interval # NoValue
      BY NumberCounts
    <2>2. ends \subseteq 0..MaxTime /\ ends # {} /\ begins \subseteq Nat /\ begins # {}
      BY <2>1
    <2>3. hi \in ends /\ hi \in Int /\ \A x \in ends : x <= hi
      <3> HIDE DEF ends
      <3>1. Max(ends) \in ends /\ \A x \in ends : x <= Max(ends)
        BY <2>2, MaxOfInstants, MaxTimeAssumption
      <3>2. \A x \in ends : x \in Int
        BY <2>2, MaxTimeAssumption
      <3> QED
        BY <3>1, <3>2
    <2>4. lo \in begins /\ lo \in Int /\ \A x \in begins : lo <= x
      <3> HIDE DEF begins
      <3>1. Min(begins) \in begins /\ \A x \in begins : Min(begins) <= x
        BY <2>2, MinOfInstants
      <3>2. \A x \in begins : x \in Int
        BY <2>2, MaxTimeAssumption
      <3> QED
        BY <3>1, <3>2
    <2> HIDE DEF hi, lo
    <2>5. PICK newest \in docs : hi = newest.at
      BY <2>3
    <2>6. PICK oldest \in docs : lo = oldest.previous.at
      BY <2>4
    <2>7. \A doc \in docs : doc.at <= hi /\ lo <= doc.previous.at
      BY <2>3, <2>4
    <2>8. IsFiniteSet(docs) /\ \A doc \in docs : f[doc] = doc.interval
      BY NumbersTyped DEF SeriesInv
    <2>9. Integral(f, docs)
      BY <2>1, <2>8 DEF Integral
    <2>10. SumOf(f, docs) \in Int
      BY <2>8, <2>9, SumTyped
    <2> HIDE DEF f, ends, begins
    <2>11. SumOf(f, docs) <= hi - lo
      BY <2>3, <2>4, <2>7, <2>8, SumIsConsumed
    <2>12. readings \subseteq docs => hi - lo <= SumOf(f, docs)
      <3> SUFFICES ASSUME readings \subseteq docs
                   PROVE  hi - lo <= SumOf(f, docs)
        OBVIOUS
      <3>1. since \in Int /\ until \in Int
        BY DEF SeriesInv, PollerInv, LoopInv
      <3>2. \A doc \in ObservedIn(since, until) : doc.energyOk => doc \in docs
        OBVIOUS
      <3>3. newest.at - oldest.previous.at <= SumOf(f, docs)
        BY <2>5, <2>6, <2>8, <3>1, <3>2, SumIsAll
      <3> QED
        BY <2>5, <2>6, <3>3
    <2>13. TotalOf(docs) = SumOf(f, docs)
      <3>1. HasNumber(docs) = docs
        BY DEF HasNumber
      <3> HIDE DEF docs
      <3> QED
        BY <2>8, <2>9, <3>1, TotalIsSum
    <2>14. /\ TotalOf(docs) <= hi - lo
           /\ readings \subseteq docs => TotalOf(docs) = hi - lo
      <3> HIDE DEF docs, readings
      <3> QED
        BY <2>3, <2>4, <2>10, <2>11, <2>12, <2>13
    <2> QED
      BY <2>14 DEF hi, lo, ends, begins
  <1> QED
    BY <1>1, SeriesIsRight, PTL
=============================================================================
