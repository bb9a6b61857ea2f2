--------------------------- MODULE RateLimitProofs ---------------------------
(***************************************************************************)
(* The cooldown, for every base, maximum and number of missed slots: a     *)
(* cycle asks LG again only when the cooldown has elapsed.                 *)
(***************************************************************************)
EXTENDS RateLimit, TLAPS

\* While cycles are rate limited in a row, the time since the last of them and
\* the time left make up the cooldown at least: neither a missed slot, nor a
\* cycle without requests, shortens it.
CooldownInv ==
    /\ TypeOK
    /\ count > 0 => since + left >= Cooldown(count)

\* A cooldown is a number of intervals, no more than the maximum.
LEMMA CooldownTyped ==
    ASSUME NEW n \in Int
    PROVE  Cooldown(n) \in 0..Maximum
  <1>1. \A m \in Nat : Capped(m) \in 0..Maximum
    BY BaseAssumption, MaximumAssumption DEF Capped
  <1> QED
    BY <1>1, BaseAssumption DEF Cooldown

\* No cycle has run yet.
LEMMA CooldownInit == Init => CooldownInv
  BY BaseAssumption, MaximumAssumption, MissedAssumption
  DEF Init, CooldownInv, TypeOK, Longest

\* Every step keeps the cooldown.
LEMMA CooldownStep == CooldownInv /\ [Next]_vars => CooldownInv'
  <1> SUFFICES ASSUME CooldownInv, [Next]_vars
               PROVE  CooldownInv'
    OBVIOUS
  <1>m. Maximum \in Nat
    BY BaseAssumption, MaximumAssumption
  <1>c. Cooldown(count) \in 0..Maximum
    BY CooldownTyped DEF CooldownInv, TypeOK, Longest
  <1>b. ASSUME BackOff, due' = FALSE, last' \in {"requests", "nothing"},
               UNCHANGED <<limiting, missed>>
        PROVE  CooldownInv'
    <2>1. Increment(count) \in 0..Longest
      BY DEF CooldownInv, TypeOK, Increment, Longest
    <2>2. Cooldown(Increment(count)) \in 0..Maximum
      BY <2>1, CooldownTyped DEF Longest
    <2>3. count' = Increment(count) /\ left' = Cooldown(Increment(count)) /\ since' = 0
      BY <1>b DEF BackOff
    <2>n. count' \in 0..Longest /\ left' \in 0..Maximum /\ since' \in 0..Maximum
      BY <1>m, <2>1, <2>2, <2>3
    <2>o. limiting' = limiting /\ missed' = missed
      BY <1>b
    <2>4. TypeOK'
      BY <1>b, <2>n, <2>o, Zenon DEF CooldownInv, TypeOK
    <2>5. since' + left' >= Cooldown(count')
      BY <1>m, <2>2, <2>3
    <2> QED
      BY <2>4, <2>5 DEF CooldownInv, Cooldown
  <1>1. CASE CycleWithRequests
    <2>1. CASE limiting
      BY <1>1, <1>b, <2>1 DEF CycleWithRequests
    <2>2. CASE ~limiting
      <3>1. /\ count' = 0 /\ left' \in {0, left}
            /\ due' = FALSE /\ last' = "requests"
            /\ UNCHANGED <<since, limiting, missed>>
        BY <1>1, <2>2 DEF CycleWithRequests, ClearCooldown
      <3>2. /\ count' \in 0..Longest /\ left' \in 0..Maximum
            /\ since' \in 0..Maximum
        BY <1>m, <3>1 DEF CooldownInv, TypeOK, Longest
      <3>3. limiting' = limiting /\ missed' = missed
        BY <3>1
      <3>4. TypeOK'
        BY <3>1, <3>2, <3>3, Zenon DEF CooldownInv, TypeOK
      <3>5. ~(count' > 0)
        BY <3>1
      <3> QED
        BY <3>4, <3>5 DEF CooldownInv
    <2> QED
      BY <2>1, <2>2
  <1>2. CASE CycleInCooldown
    BY <1>2, <1>b DEF CycleInCooldown
  <1>3. CASE Tick
    <2>1. /\ left' = IF left > 0 THEN left - 1 ELSE 0
          /\ since' = IF since < Maximum THEN since + 1 ELSE Maximum
          /\ missed' = IF due THEN missed + 1 ELSE 0
          /\ due => missed < MaxMissed
          /\ due' = TRUE
          /\ UNCHANGED <<count, limiting, last>>
      BY <1>3 DEF Tick
    <2>2. left \in 0..Maximum /\ since \in 0..Maximum /\ missed \in 0..MaxMissed
      BY DEF CooldownInv, TypeOK
    <2>3. left' \in 0..Maximum /\ since' \in 0..Maximum /\ missed' \in 0..MaxMissed
      BY <1>m, <2>1, <2>2, MissedAssumption
    <2>4. TypeOK'
      BY <2>1, <2>3 DEF CooldownInv, TypeOK
    <2>5. count > 0 => since' + left' >= Cooldown(count)
      BY <1>m, <1>c, <2>1, <2>2 DEF CooldownInv
    <2> QED
      BY <2>1, <2>4, <2>5 DEF CooldownInv, Cooldown
  <1>4. CASE LimitingChanges
    BY <1>4 DEF LimitingChanges, CooldownInv, TypeOK, Cooldown
  <1>5. CASE UNCHANGED vars
    BY <1>5 DEF vars, CooldownInv, TypeOK, Cooldown
  <1> QED
    BY <1>1, <1>2, <1>3, <1>4, <1>5 DEF Next, Cycle

\* The cooldown is kept in every reachable state.
THEOREM CooldownIsKept == Spec => []CooldownInv
  <1> QED
    BY CooldownInit, CooldownStep, PTL DEF Spec

\* Types: counts and times stay within their bounds.
THEOREM TypeCorrect == Spec => []TypeOK
  <1>1. CooldownInv => TypeOK
    BY DEF CooldownInv
  <1> QED
    BY <1>1, CooldownIsKept, PTL

\* A cycle asks LG again only when the cooldown that the current row of
\* rate-limited cycles calls for has elapsed, whatever slots are missed and
\* however the limiting comes and goes.
THEOREM AsksRarely == Spec => RateIsReduced
  <1>1. CooldownInv => (CycleWithRequests /\ count > 0 => since >= Cooldown(count))
    <2> SUFFICES ASSUME CooldownInv, CycleWithRequests, count > 0
                 PROVE  since >= Cooldown(count)
      OBVIOUS
    <2>1. left = 0
      BY DEF CycleWithRequests, InCooldown, CooldownInv, TypeOK
    <2> QED
      BY <2>1 DEF CooldownInv, TypeOK
  <1> QED
    BY <1>1, CooldownIsKept, PTL DEF RateIsReduced
=============================================================================
