------------------------- MODULE RetryPolicyProofs -------------------------
(***************************************************************************)
(* The functions of the retry table keep the policy's memory within its    *)
(* bounds, for every value of the constants.                               *)
(***************************************************************************)
EXTENDS RetryPolicy, TLAPS

LEMMA FullWidthType == FullWidth \in Nat \ {0}
BY WidthAssumption DEF FullWidth, Lesser

(* A fresh Buffer starts within bounds: full width and no run of anything. *)
LEMMA InitialPolicyType == InitialPolicy \in Policy
BY FullWidthType, CountAssumption DEF InitialPolicy, Policy, DropsBound

LEMMA PolicyFields ==
    ASSUME NEW p \in Policy
    PROVE  /\ p.batchSize \in 1..FullWidth
           /\ p.failures \in 0..MaxConsecutiveFailures
           /\ p.successes \in 0..(SuccessesBeforeWidening - 1)
           /\ p.drops \in 0..DropsBound
BY DEF Policy

(* One lemma per field: the provers take an update of several fields apart *)
(* one field at a time.                                                    *)
LEMMA SetWidth ==
    ASSUME NEW p \in Policy, NEW w \in 1..FullWidth
    PROVE  /\ [p EXCEPT !.batchSize = w] \in Policy
           /\ [p EXCEPT !.batchSize = w].failures = p.failures
BY DEF Policy

LEMMA SetFailures ==
    ASSUME NEW p \in Policy, NEW f \in 0..MaxConsecutiveFailures
    PROVE  /\ [p EXCEPT !.failures = f] \in Policy
           /\ [p EXCEPT !.failures = f].failures = f
BY DEF Policy

LEMMA SetDrops ==
    ASSUME NEW p \in Policy, NEW d \in 0..DropsBound
    PROVE  /\ [p EXCEPT !.drops = d] \in Policy
           /\ [p EXCEPT !.drops = d].failures = p.failures
BY DEF Policy

LEMMA SetSuccesses ==
    ASSUME NEW p \in Policy, NEW s \in 0..(SuccessesBeforeWidening - 1)
    PROVE  /\ [p EXCEPT !.successes = s] \in Policy
           /\ [p EXCEPT !.successes = s].failures = p.failures
BY DEF Policy

LEMMA RunEndsType ==
    ASSUME NEW p \in Policy
    PROVE  /\ RunEnds(p) \in Policy
           /\ RunEnds(p).failures = p.failures
BY SetSuccesses, CountAssumption DEF RunEnds

(* A send of any size leaves the width between 1 and the full width: the   *)
(* doubling is capped.                                                     *)
LEMMA WidenIfEarnedType ==
    ASSUME NEW p \in Policy, NEW sent \in Nat
    PROVE  /\ WidenIfEarned(p, sent) \in Policy
           /\ WidenIfEarned(p, sent).failures = p.failures
<1>1. CASE ~CountsTowardWidening(p, sent)
  BY <1>1 DEF WidenIfEarned
<1>2. CASE CountsTowardWidening(p, sent) /\ p.successes + 1 >= SuccessesBeforeWidening
  <2> DEFINE w == Lesser(FullWidth, 2 * p.batchSize)
  <2>1. w \in 1..FullWidth
    BY FullWidthType, PolicyFields DEF Lesser
  <2> DEFINE q == [p EXCEPT !.batchSize = w]
  <2>2. q \in Policy /\ q.failures = p.failures
    <3> HIDE DEF w
    <3> QED BY <2>1, SetWidth
  <2>3. WidenIfEarned(p, sent) = [q EXCEPT !.successes = 0]
    BY <1>2 DEF WidenIfEarned
  <2> HIDE DEF q
  <2> QED
    BY <2>2, <2>3, SetSuccesses, CountAssumption
<1>3. CASE CountsTowardWidening(p, sent) /\ ~(p.successes + 1 >= SuccessesBeforeWidening)
  <2>1. p.successes + 1 \in 0..(SuccessesBeforeWidening - 1)
    BY <1>3, PolicyFields, CountAssumption
  <2>2. WidenIfEarned(p, sent) = [p EXCEPT !.successes = p.successes + 1]
    BY <1>3 DEF WidenIfEarned
  <2> QED
    BY <2>1, <2>2, SetSuccesses
<1> QED
  BY <1>1, <1>2, <1>3

LEMMA AfterSentType ==
    ASSUME NEW p \in Policy, NEW sent \in Nat
    PROVE  /\ AfterSent(p, sent) \in Policy
           /\ AfterSent(p, sent).failures = 0
<1> DEFINE q == [p EXCEPT !.failures = 0]
           r == [q EXCEPT !.drops = 0]
<1>1. q \in Policy /\ q.failures = 0
  BY SetFailures, CountAssumption
<1>2. r \in Policy /\ r.failures = 0
  <2> HIDE DEF q
  <2> QED BY <1>1, SetDrops, CountAssumption DEF DropsBound
<1>3. AfterSent(p, sent) = WidenIfEarned(r, sent)
  BY DEF AfterSent
<1> HIDE DEF r
<1> QED
  BY <1>2, <1>3, WidenIfEarnedType

(* Halving never widens, and never goes below one event.                   *)
LEMMA AfterHalvingType ==
    ASSUME NEW p \in Policy, NEW n \in Nat, n <= FullWidth
    PROVE  /\ AfterHalving(p, n) \in Policy
           /\ AfterHalving(p, n).failures = p.failures
<1>1. Greater(1, n \div 2) \in 1..FullWidth
  BY FullWidthType DEF Greater
<1> QED
  BY <1>1, RunEndsType DEF AfterHalving, RunEnds, Policy

(* A batch of several events refused with 413 is offered smaller next time:*)
(* a row of refusals ends in a single event, which is dropped.             *)
THEOREM HalvingShrinks ==
    ASSUME NEW p \in Policy, NEW n \in Nat, n > 1
    PROVE  /\ AfterHalving(p, n).batchSize \in 1..(n - 1)
           /\ AfterHalving(p, n).failures = p.failures
BY DEF AfterHalving, RunEnds, Greater, Policy

LEMMA AfterOversizedType ==
    ASSUME NEW p \in Policy
    PROVE  /\ AfterOversized(p) \in Policy
           /\ AfterOversized(p).failures = 0
<1> DEFINE p0 == RunEnds(p)
           p1 == [p0 EXCEPT !.failures = 0]
           p2 == [p1 EXCEPT !.batchSize = FullWidth]
           d  == Lesser(DropsBound, p0.drops + 1)
<1>1. p0 \in Policy
  BY RunEndsType
<1>2. d \in 0..DropsBound
  <2> HIDE DEF p0
  <2> QED BY <1>1, CountAssumption, PolicyFields DEF Lesser, DropsBound
<1>3. p1 \in Policy /\ p1.failures = 0
  <2> HIDE DEF p0
  <2> QED BY <1>1, SetFailures, CountAssumption
<1>4. p2 \in Policy /\ p2.failures = 0
  <2> HIDE DEF p1
  <2> QED BY <1>3, SetWidth, FullWidthType
<1>5. AfterOversized(p) = [p2 EXCEPT !.drops = d]
  BY DEF AfterOversized
<1> HIDE DEF p2, d
<1> QED
  BY <1>2, <1>4, <1>5, SetDrops

LEMMA AfterRefusedType ==
    ASSUME NEW p \in Policy
    PROVE  /\ AfterRefused(p) \in Policy
           /\ AfterRefused(p).failures = 0
BY RunEndsType, SetFailures, CountAssumption DEF AfterRefused

(* The count of failures stays in range because nothing is sent once the   *)
(* breaker has opened.                                                     *)
LEMMA AfterRetryableType ==
    ASSUME NEW p \in Policy, ~BreakerOpens(p)
    PROVE  /\ AfterRetryable(p) \in Policy
           /\ AfterRetryable(p).failures = p.failures + 1
<1>1. p.failures + 1 \in 0..MaxConsecutiveFailures
  BY CountAssumption, PolicyFields DEF BreakerOpens
<1> DEFINE q == RunEnds(p)
<1>2. q \in Policy /\ q.failures = p.failures
  BY RunEndsType
<1>3. AfterRetryable(p) = [q EXCEPT !.failures = q.failures + 1]
  BY DEF AfterRetryable
<1> HIDE DEF q
<1> QED
  BY <1>1, <1>2, <1>3, SetFailures

(* No wait is shorter than the floor, "so a zero or past Retry-After cannot*)
(* become a hot loop", and none is longer than the ceiling.                *)
THEOREM BackoffIsBounded ==
    ASSUME NEW p \in Policy, NEW advised \in Nat
    PROVE  BackoffMs(p, advised) \in MinRetryMs..MaxRetryMs
<1>1. 2^p.failures \in Nat
  BY PowerAssumption DEF Policy
<1> DEFINE power == 2^p.failures
<1>2. FlushMs * power \in Nat
  <2> HIDE DEF power
  <2> QED BY <1>1, IntervalAssumption DEF power
<1> DEFINE asked == IF advised > 0 THEN advised ELSE FlushMs * power
<1>3. asked \in Nat
  BY <1>2
<1>4. Lesser(MaxRetryMs, Greater(MinRetryMs, asked)) \in MinRetryMs..MaxRetryMs
  <2> HIDE DEF asked
  <2> QED BY <1>3, IntervalAssumption DEF Lesser, Greater
<1> QED
  BY <1>4 DEF BackoffMs
=============================================================================
