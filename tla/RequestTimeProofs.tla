-------------------------- MODULE RequestTimeProofs --------------------------
(***************************************************************************)
(* The time the requests of a cycle take, for every interval, timeout and  *)
(* retry policy: the runs check the default configuration, and the lease   *)
(* bound below holds of every one whose lease covers CycleBound.           *)
(***************************************************************************)
EXTENDS RequestTime, TLAPS

\* What the requests before r have taken at most: one timeout for each profile
\* and each total, and the budget with one more attempt for a retried request.
MostBefore(r) ==
    CASE r = "profile" -> 0
      [] r = "energyProfile" -> Timeout
      [] r = "energy" -> 2 * Timeout
      [] r = "state" -> Budget + 3 * Timeout
      [] r = "total" -> 2 * Budget + 4 * Timeout
      [] r = "queueTotal" -> 2 * Budget + 5 * Timeout
      [] r = "done" -> CycleBound

\* What an answer to r may add to the time already spent on it.
MostSpent(r) == IF r \in Retried THEN Budget ELSE 0

TimeInv ==
    /\ request \in Requests \union {"done"}
    /\ doing \in {"attempt", "wait"}
    /\ attempt \in 1..MaxAttempts
    /\ doing = "wait" => attempt < MaxAttempts
    /\ spent \in Nat
    /\ before \in Nat
    /\ spent <= MostSpent(request)
    /\ before <= MostBefore(request)

\* The derived budget is a number of half seconds, never negative.
LEMMA BudgetTyped == Budget \in Nat
BY IntervalAssumption, BudgetAssumption DEF Budget

\* The bound grows along the order the cycle makes its requests in: leaving a
\* request within its own bound keeps the next one within its bound.
LEMMA BoundsGrow ==
    ASSUME NEW r \in Requests, NEW s \in AfterFailure(r) \union Following(r)
    PROVE  /\ s \in Requests \union {"done"}
           /\ MostBefore(r) \in Int
           /\ MostBefore(s) \in Int
           /\ MostBefore(r) + MostSpent(r) + Timeout <= MostBefore(s)
           /\ MostSpent(s) \in Nat
BY BudgetTyped, TimeoutAssumption
DEF Requests, AfterFailure, Following, MostBefore, MostSpent, Retried, CycleBound

\* A delay takes time, if any: jitter never makes it negative.
LEMMA DelayIsNatural ==
    ASSUME NEW n \in Nat, NEW class, NEW delay \in Delays(n, class)
    PROVE  delay \in Nat
<1> DEFINE base == IF class = "RATE_LIMITED" THEN RateLimitBaseDelay ELSE BaseDelay
           capped == CappedDelay(base * Doubled(n))
<1>1. base \in Nat /\ Doubled(n) \in {1, 2}
  BY DelaysAssumption DEF Doubled
<1>2. base * Doubled(n) \in Nat
  BY <1>1
<1>3. capped \in Nat
  BY <1>2, DelaysAssumption DEF CappedDelay
<1>4. delay \in (capped \div 2)..((3 * capped) \div 2)
  BY DEF Delays
<1> HIDE DEF capped
<1> QED
  BY <1>3, <1>4

\* Leaving a request after an attempt of d keeps the bounds.
LEMMA LeaveKeepsTime ==
    ASSUME TimeInv, request \in Requests,
           NEW d \in Durations, NEW next \in AfterFailure(request) \union Following(request),
           Leave(next, spent + d)
    PROVE  TimeInv'
<1>1. d \in Nat /\ d <= Timeout
  BY DurationsAssumption, TimeoutAssumption
<1>2. /\ next \in Requests \union {"done"}
      /\ MostBefore(request) \in Int
      /\ MostBefore(next) \in Int
      /\ MostBefore(request) + MostSpent(request) + Timeout <= MostBefore(next)
      /\ MostSpent(next) \in Nat
  BY BoundsGrow
<1>3. MostSpent(request) \in Int
  BY BudgetTyped DEF MostSpent
<1>4. /\ request' = next /\ doing' = "attempt" /\ attempt' = 1
      /\ spent' = 0 /\ before' = before + (spent + d)
  BY DEF Leave
<1>5. before + (spent + d) <= MostBefore(next)
  BY <1>1, <1>2, <1>3, TimeoutAssumption DEF TimeInv
<1>6. MostBefore(request)' = MostBefore(next) /\ MostSpent(request)' = MostSpent(next)
  BY <1>4 DEF MostBefore, MostSpent, CycleBound
<1> QED
  BY <1>1, <1>2, <1>4, <1>5, <1>6, AttemptsAssumption DEF TimeInv

\* A cycle starts with no time spent, at its first profile or, warm, at the
\* energy request.
LEMMA TimeInit == Init => TimeInv
BY StartsAssumption, AttemptsAssumption, BudgetTyped, TimeoutAssumption
DEF Init, TimeInv, Requests, MostSpent, MostBefore, Retried

\* Every step keeps every request within its budget and the cycle within the
\* sum of what came before.
LEMMA TimeStep == TimeInv /\ [Next]_vars => TimeInv'
<1> SUFFICES ASSUME TimeInv, [Next]_vars PROVE TimeInv'
  OBVIOUS
<1>1. CASE Succeed
  <2>1. PICK d \in Durations, next \in Following(request) : Leave(next, spent + d)
    BY <1>1 DEF Succeed
  <2>2. request \in Requests
    BY <1>1 DEF Succeed, TimeInv
  <2> QED
    BY <2>1, <2>2, LeaveKeepsTime
<1>2. CASE GiveUp
  <2>1. PICK d \in Durations, next \in AfterFailure(request) : Leave(next, spent + d)
    BY <1>2 DEF GiveUp
  <2>2. request \in Requests
    BY <1>2 DEF GiveUp, TimeInv
  <2> QED
    BY <2>1, <2>2, LeaveKeepsTime
<1>3. CASE BackOff
  <2>0. PICK d \in Durations, class \in Classes :
            \E delay \in Delays(attempt, class) :
                /\ ~MustGiveUp(class, spent + d, delay)
                /\ spent' = spent + d + delay
    BY <1>3 DEF BackOff
  <2>1. PICK delay \in Delays(attempt, class) :
            /\ ~MustGiveUp(class, spent + d, delay)
            /\ spent' = spent + d + delay
    BY <2>0
  <2>2. d \in Nat
    BY DurationsAssumption, TimeoutAssumption
  <2>3. delay \in Nat
    BY <2>1, AttemptsAssumption, DelayIsNatural DEF TimeInv
  <2>4. /\ request \in Retried
        /\ attempt < MaxAttempts
        /\ spent + d + delay <= Budget
    BY <2>1, <2>2, <2>3, BudgetTyped, AttemptsAssumption DEF MustGiveUp, TimeInv
  <2>5. /\ doing' = "wait"
        /\ request' = request /\ attempt' = attempt /\ before' = before
    BY <1>3 DEF BackOff
  <2>6. MostBefore(request)' = MostBefore(request) /\ MostSpent(request)' = Budget
    BY <2>4, <2>5 DEF MostBefore, MostSpent, CycleBound
  <2> QED
    BY <2>1, <2>2, <2>3, <2>4, <2>5, <2>6 DEF TimeInv
<1>4. CASE Retry
  <2>1. /\ doing' = "attempt" /\ attempt' = attempt + 1
        /\ request' = request /\ spent' = spent /\ before' = before
        /\ attempt < MaxAttempts
    BY <1>4 DEF Retry, TimeInv
  <2>2. MostBefore(request)' = MostBefore(request)
        /\ MostSpent(request)' = MostSpent(request)
    BY <2>1 DEF MostBefore, MostSpent, CycleBound
  <2> QED
    BY <2>1, <2>2, AttemptsAssumption DEF TimeInv
<1>5. CASE UNCHANGED vars
  BY <1>5 DEF vars, TimeInv, MostBefore, MostSpent, CycleBound
<1> QED
  BY <1>1, <1>2, <1>3, <1>4, <1>5 DEF Next

\* The bounds hold in every reachable state.
THEOREM TimeIsBounded == Spec => []TimeInv
BY TimeInit, TimeStep, PTL DEF Spec

\* Types and bounds: no request is attempted more often than the policy allows,
\* the time spent on one until its last attempt starts is within the budget, and
\* that of all before it within the sum of theirs.
THEOREM TypeCorrect == Spec => []TypeOK
<1>1. TimeInv => TypeOK
  <2> SUFFICES ASSUME TimeInv PROVE TypeOK
    OBVIOUS
  <2>1. /\ MostSpent(request) \in 0..Budget
        /\ MostBefore(request) \in 0..CycleBound
    BY BudgetTyped, TimeoutAssumption
    DEF TimeInv, Requests, MostBefore, MostSpent, Retried, CycleBound
  <2>2. Budget \in Nat /\ CycleBound \in Nat
    BY BudgetTyped, TimeoutAssumption DEF CycleBound
  <2> QED
    BY <2>1, <2>2 DEF TimeInv, TypeOK
<1> QED
  BY <1>1, TimeIsBounded, PTL

\* Whatever the policy and however its attempts fail, a request overruns its budget
\* by one attempt at most, and one that is asked for once takes no more than that.
THEOREM OverrunsAreBounded == Spec => OverrunIsOneAttempt
<1>1. TimeInv /\ [Next]_vars =>
         [request' # request =>
             /\ before' - before <= Budget + Timeout
             /\ request \notin Retried => before' - before <= Timeout]_vars
  <2> SUFFICES ASSUME TimeInv, Next, request' # request
               PROVE  /\ before' - before <= Budget + Timeout
                      /\ request \notin Retried => before' - before <= Timeout
    OBVIOUS
  <2>1. PICK d \in Durations : before' = before + (spent + d)
    BY DEF Next, Succeed, GiveUp, BackOff, Retry, Leave
  <2>2. d \in Nat /\ d <= Timeout
    BY DurationsAssumption, TimeoutAssumption
  <2>3. /\ spent <= Budget
        /\ request \notin Retried => spent <= 0
    BY BudgetTyped DEF TimeInv, MostSpent
  <2> QED
    BY <2>1, <2>2, <2>3, BudgetTyped, TimeoutAssumption DEF TimeInv
<1> QED
  BY <1>1, TimeIsBounded, PTL DEF Spec, OverrunIsOneAttempt

\* A lease that covers two retried requests and four single attempts is never
\* outlived by the requests of its cycle (design D14 asks for it; from_config
\* takes four fifths of the interval without looking at the timeout).
THEOREM LeaseCoversRequests ==
    ASSUME CycleBound <= LeaseSeconds
    PROVE  Spec => []WithinLease
<1>1. LeaseSeconds \in Int
  BY IntervalAssumption, MinLeaseAssumption DEF LeaseSeconds, FourFifths
<1>2. CycleBound \in Int
  BY BudgetTyped, TimeoutAssumption DEF CycleBound
<1>3. TimeInv => WithinLease
  <2> SUFFICES ASSUME TimeInv PROVE WithinLease
    OBVIOUS
  <2>1. /\ MostBefore(request) \in Int /\ MostSpent(request) \in Int
        /\ MostBefore(request) + MostSpent(request) <= CycleBound
    BY BudgetTyped, TimeoutAssumption
    DEF TimeInv, Requests, MostBefore, MostSpent, Retried, CycleBound
  <2> QED
    BY <1>1, <1>2, <2>1 DEF TimeInv, WithinLease
<1> QED
  BY <1>3, TimeIsBounded, PTL

\* With the timeout and the budgets that the code comes with, the lease covers the
\* requests of a cycle at every interval from 225 s on, the default among them.
\* (At 224 s it does not.)
THEOREM LeaseCoversFrom225Seconds ==
    ASSUME Timeout = 30, DefaultBudget = 90, MinLease = 120, Interval >= 450
    PROVE  Spec => []WithinLease
<1>1. Budget = 90
  BY IntervalAssumption DEF Budget
<1>2. CycleBound = 360
  BY <1>1 DEF CycleBound
<1>3. FourFifths \in Int /\ FourFifths >= 360
  BY IntervalAssumption DEF FourFifths
<1>4. CycleBound <= LeaseSeconds
  BY <1>2, <1>3 DEF LeaseSeconds
<1> QED
  BY <1>4, LeaseCoversRequests
=============================================================================
