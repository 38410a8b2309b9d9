---------------------------- MODULE RetryPolicy ----------------------------
(***************************************************************************)
(* The retry table of Buffer, as pure functions on the four numbers it     *)
(* keeps between requests: the width of the next batch and the lengths of  *)
(* the current runs of failures, full-width successes and single-event     *)
(* drops.  The log lines of _buffer.py are left out, except for the one    *)
(* whose timing depends on a count (the notice about oversized events).    *)
(***************************************************************************)
EXTENDS Integers

\* Definitions marked "Mutant" are deliberate slips: substituted for the
\* definition that follows them, they show that a property notices.

CONSTANTS
    Size,                    \* BatchOptions.size
    MaxRequestEvents,        \* the config's max_request_events
    FlushMs,                 \* BatchOptions.flush_ms
    MinRetryMs,              \* MIN_RETRY_INTERVAL_MS
    MaxRetryMs,              \* MAX_RETRY_INTERVAL_MS
    MaxConsecutiveFailures,  \* MAX_CONSECUTIVE_FAILURES
    SuccessesBeforeWidening, \* SUCCESSES_BEFORE_WIDENING
    DropsBeforeWarning       \* DROPS_BEFORE_WARNING

ASSUME WidthAssumption ==
    /\ Size \in Nat \ {0}
    /\ MaxRequestEvents \in Nat \ {0}

ASSUME IntervalAssumption ==
    /\ FlushMs \in Nat \ {0}
    /\ MinRetryMs \in Nat \ {0}
    /\ MaxRetryMs \in Nat
    /\ MinRetryMs <= MaxRetryMs

ASSUME CountAssumption ==
    /\ MaxConsecutiveFailures \in Nat \ {0}
    /\ SuccessesBeforeWidening \in Nat \ {0}
    /\ DropsBeforeWarning \in Nat \ {0}

\* The prover has no theory of `^': the one fact it needs about it.
ASSUME PowerAssumption == \A n \in 0..MaxConsecutiveFailures : 2^n \in Nat

Lesser(a, b)  == IF a <= b THEN a ELSE b
Greater(a, b) == IF a >= b THEN a ELSE b

-----------------------------------------------------------------------------
(* How an answer is read.                                                  *)

\* IntemptApiError.status is None when nothing came back.
NoStatus == 0

Succeeded(status) == status \in 200..299

IsTooLarge(status) == status = 413

IsRetryable(status) ==
    \/ status = NoStatus
    \/ status \in {408, 429}
    \/ status >= 500

-----------------------------------------------------------------------------
(* The policy's memory.                                                    *)

FullWidth == Lesser(Size, MaxRequestEvents)

\* The tally of drops is read only where it equals DropsBeforeWarning, so
\* it is saturated one above; this bound is the model's, not the code's.
DropsBound == DropsBeforeWarning + 1

Policy ==
    [batchSize : 1..FullWidth,
     failures  : 0..MaxConsecutiveFailures,
     successes : 0..(SuccessesBeforeWidening - 1),
     drops     : 0..DropsBound]

InitialPolicy == [batchSize |-> FullWidth, failures |-> 0, successes |-> 0, drops |-> 0]

\* Mutant: compares with the full width, which a narrower batch cannot reach.
CountsAtFullWidth(p, sent) == p.batchSize < FullWidth /\ sent >= FullWidth

\* Only a send that filled a reduced width earns anything.
CountsTowardWidening(p, sent) == p.batchSize < FullWidth /\ sent >= p.batchSize

\* Mutant: doubles without the cap.
WidenUncapped(p, sent) ==
    IF ~CountsTowardWidening(p, sent) THEN p
    ELSE IF p.successes + 1 >= SuccessesBeforeWidening
         THEN [p EXCEPT !.batchSize = 2 * @, !.successes = 0]
         ELSE [p EXCEPT !.successes = @ + 1]

WidenIfEarned(p, sent) ==
    IF ~CountsTowardWidening(p, sent) THEN p
    ELSE IF p.successes + 1 >= SuccessesBeforeWidening
         THEN [p EXCEPT !.batchSize = Lesser(FullWidth, 2 * @), !.successes = 0]
         ELSE [p EXCEPT !.successes = @ + 1]

\* A batch of `sent' events was accepted.
AfterSent(p, sent) == WidenIfEarned([p EXCEPT !.failures = 0, !.drops = 0], sent)

\* Mutant: a failure does not end the run of successes.
RunGoesOn(p) == p

\* Whichever branch handles a failure, it ends the run of successes first.
RunEnds(p) == [p EXCEPT !.successes = 0]

\* 413 on several events: the next batch is half the one that was refused.
AfterHalving(p, n) == [RunEnds(p) EXCEPT !.batchSize = Greater(1, n \div 2)]

\* 413 on one event: it is dropped, and the width was never the problem.
AfterOversized(p) ==
    [RunEnds(p) EXCEPT !.failures = 0, !.batchSize = FullWidth,
                       !.drops = Lesser(DropsBound, @ + 1)]

\* Mutant: logs it again on every later drop.
GivesNoticeAgain(p) == p.drops + 1 >= DropsBeforeWarning

\* The notice is logged by the drop that makes the tally exactly this long.
GivesNotice(p) == p.drops + 1 = DropsBeforeWarning

\* Mutant: a dropped batch leaves the count of failures as it was.
AfterRefusedStillFailing(p) == RunEnds(p)

\* Any other status that is not worth retrying: the batch is dropped.
AfterRefused(p) == [RunEnds(p) EXCEPT !.failures = 0]

AfterRetryable(p) == [RunEnds(p) EXCEPT !.failures = @ + 1]

BreakerOpens(p) == p.failures >= MaxConsecutiveFailures

\* `advised' is Retry-After in milliseconds; absent, zero and past are all 0.
BackoffMs(p, advised) ==
    Lesser(MaxRetryMs,
           Greater(MinRetryMs, IF advised > 0 THEN advised ELSE FlushMs * 2^p.failures))
=============================================================================
