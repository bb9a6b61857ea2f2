-------------------------- MODULE ObservationProofs --------------------------
(***************************************************************************)
(* Lemmas about the arithmetic of one observation, for whoever builds one: *)
(* the polling cycle and the poller loop.                                  *)
(***************************************************************************)
EXTENDS Observation, WellFoundedInduction, TLAPS

\* Slots and days are numbered from zero, in the order of their instants.
LEMMA IndicesFollowTime ==
    ASSUME NEW t \in Time, NEW u \in Time
    PROVE  /\ Slot(t) \in Nat /\ Day(t) \in Nat
           /\ t <= u => Slot(t) <= Slot(u) /\ Day(t) <= Day(u)
  <1>1. \A a \in Nat, b \in Nat \ {0} : a \div b \in Nat
    OBVIOUS
  <1>2. \A a \in Nat, c \in Nat, b \in Nat \ {0} : a <= c => a \div b <= c \div b
    OBVIOUS
  <1>3. t \in Nat /\ u \in Nat
    BY MaxTimeAssumption DEF Time
  <1> QED
    BY <1>1, <1>2, <1>3, IntervalAssumption, DayLengthAssumption DEF Slot, Day

\* A nonempty set of slots has a newest one.
LEMMA NewestExists ==
    ASSUME NEW n \in Nat, NEW S, S \subseteq 0..n, S # {}
    PROVE  \E s \in S : \A u \in S : u <= s
  <1> DEFINE T == {n - s : s \in S}
  <1>1. T \subseteq Nat /\ T # {}
    <2>1. \A s \in S : n - s \in Nat
      OBVIOUS
    <2> QED
      BY <2>1
  <1>2. PICK x \in T : \A y \in T : ~ (<<y, x>> \in OpToRel(<, Nat))
    BY <1>1, NatLessThanWellFounded, WFMin
  <1>3. \A y \in T : ~ (y < x)
    BY <1>1, <1>2 DEF OpToRel
  <1>4. PICK s \in S : x = n - s
    OBVIOUS
  <1>5. ASSUME NEW u \in S
        PROVE  u <= s
    <2>1. ~ (n - u < n - s)
      BY <1>3, <1>4
    <2>2. s \in Int /\ u \in Int
      OBVIOUS
    <2> HIDE DEF T
    <2> QED
      BY <2>1, <2>2
  <1> QED
    BY <1>5

\* The interval computation ends in a typed outcome whatever the baseline.
LEMMA IntervalOutcomeTyped ==
    ASSUME NEW current \in Optional(Reading), NEW at \in Time,
           NEW previous \in Optional(PreviousReading), NEW hasPrior \in BOOLEAN,
           NEW final \in Optional(Reading)
    PROVE  ComputeInterval(current, at, previous, hasPrior, final) \in
             [value : Optional(Int), seconds : Optional(Int),
              status : IntervalStatus, flags : SUBSET QualityFlag,
              final : Optional(Reading)]
  <1>1. CASE current = NoValue
    BY <1>1 DEF ComputeInterval, Outcome, Optional, IntervalStatus
  <1>2. CASE current # NoValue /\ previous = NoValue
    BY <1>2 DEF ComputeInterval, Outcome, Optional, IntervalStatus
  <1>3. CASE current # NoValue /\ previous # NoValue
    <2> DEFINE seconds == at - previous.at
               gap == DayGap(at, previous)
    <2>1. /\ current \in Nat
          /\ previous.value \in Nat
          /\ previous.at \in Time
      BY <1>3 DEF Optional, Reading, PreviousReading
    <2>2. seconds \in Int
      BY <2>1 DEF Time
    <2>3. gap \in Int
      BY <2>1, IndicesFollowTime DEF DayGap
    <2>4. ComputeInterval(current, at, previous, hasPrior, final) =
            CASE gap < 0 -> Outcome(NoValue, seconds, "MISSING_PREVIOUS_SAMPLE",
                                    {}, NoValue)
              [] gap = 0 -> SameDay(current, previous.value, seconds)
              [] gap = 1 -> DayRollover(current, previous.value, seconds, final)
              [] gap > 1 -> Outcome(NoValue, seconds, "MULTI_DAY_GAP", {}, NoValue)
      BY <1>3 DEF ComputeInterval
    <2> HIDE DEF seconds, gap
    <2>5. CASE gap < 0
      BY <2>2, <2>3, <2>4, <2>5 DEF Outcome, Optional, IntervalStatus
    <2>6. CASE gap = 0
      BY <2>1, <2>2, <2>3, <2>4, <2>6
      DEF SameDay, Outcome, Optional, IntervalStatus, QualityFlag
    <2>7. CASE gap = 1
      BY <2>1, <2>2, <2>3, <2>4, <2>7
      DEF DayRollover, Reconstruct, Outcome, Optional, Reading, IntervalStatus,
          QualityFlag
    <2>8. CASE gap > 1
      BY <2>2, <2>3, <2>4, <2>8 DEF Outcome, Optional, IntervalStatus
    <2> QED
      BY <2>3, <2>5, <2>6, <2>7, <2>8
  <1> QED
    BY <1>1, <1>2, <1>3

\* What a cycle builds is a document.
LEMMA ObservationTyped ==
    ASSUME NEW at \in Time, NEW energy \in EnergyResult, NEW state \in StateResult,
           NEW previous \in Optional(PreviousReading), NEW hasPrior \in BOOLEAN,
           NEW final \in Optional(Reading)
    PROVE  BuildObservation(at, energy, state, previous, hasPrior, final)
             \in Document
  <1> DEFINE o == ComputeInterval(energy.value, at, previous, hasPrior, final)
  <1>1. /\ energy.value \in Optional(Reading)
        /\ energy.ok \in BOOLEAN
        /\ state.ok \in BOOLEAN
    BY DEF EnergyResult, StateResult, RequestResult
  <1>2. o \in [value : Optional(Int), seconds : Optional(Int),
               status : IntervalStatus, flags : SUBSET QualityFlag,
               final : Optional(Reading)]
    BY <1>1, IntervalOutcomeTyped
  <1>3. ConditionFlags(energy, state) \subseteq QualityFlag
    BY DEF ConditionFlags, QualityFlag
  <1> HIDE DEF o
  <1> QED
    BY <1>1, <1>2, <1>3 DEF BuildObservation, Document, o
=============================================================================
