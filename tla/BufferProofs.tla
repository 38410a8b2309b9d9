---------------------------- MODULE BufferProofs ----------------------------
(***************************************************************************)
(* For any number of callers and timers, whatever the server answers and   *)
(* whoever raises: the buffer's variables keep their types, one thread     *)
(* drains at a time, and what it has in flight is the head of the queue.   *)
(* Then: `_timer' never names a timer that cannot fire; queued events are  *)
(* somebody's business; a close() that drains starts no sleep that outlives*)
(* its budget.  Each of these holds under what its comment says: no close()*)
(* beside the flushes, or one at a time, and timers that start.            *)
(***************************************************************************)
EXTENDS BufferProperties, RetryPolicyProofs, SequenceTheorems, TLAPS

-----------------------------------------------------------------------------
(* The queue as a sequence                                                 *)

(* The first n events, and what is left once they are deleted.             *)
LEMMA Slices ==
    ASSUME NEW q \in Seq(Events), NEW n \in 0..Len(q)
    PROVE  /\ SubSeq(q, 1, n) \in Seq(Events)
           /\ Len(SubSeq(q, 1, n)) = n
           /\ SubSeq(q, n + 1, Len(q)) \in Seq(Events)
           /\ Len(SubSeq(q, n + 1, Len(q))) = Len(q) - n
<1>1. Len(q) \in Nat /\ \A i \in 1..Len(q) : q[i] \in Events
  BY LenProperties, ElementOfSeq
<1>2. /\ SubSeq(q, 1, n) \in Seq(Events)
      /\ Len(SubSeq(q, 1, n)) = n
  <2>1. \A i \in 1..n : q[i] \in Events
    BY <1>1
  <2>2. /\ SubSeq(q, 1, n) \in Seq(Events)
        /\ Len(SubSeq(q, 1, n)) = IF 1 <= n THEN n - 1 + 1 ELSE 0
    BY <1>1, <2>1, SubSeqProperties
  <2> QED
    BY <1>1, <2>2
<1>3. /\ SubSeq(q, n + 1, Len(q)) \in Seq(Events)
      /\ Len(SubSeq(q, n + 1, Len(q))) = Len(q) - n
  <2>1. \A i \in (n + 1)..Len(q) : q[i] \in Events
    BY <1>1
  <2>2. /\ SubSeq(q, n + 1, Len(q)) \in Seq(Events)
        /\ Len(SubSeq(q, n + 1, Len(q))) =
             IF n + 1 <= Len(q) THEN Len(q) - (n + 1) + 1 ELSE 0
    BY <1>1, <2>1, SubSeqProperties
  <2> QED
    BY <1>1, <2>2
<1> QED
  BY <1>2, <1>3

(* An event added at the tail does not move the head.                      *)
LEMMA HeadOfAppend ==
    ASSUME NEW q \in Seq(Events), NEW e \in Events, NEW n \in 1..Len(q)
    PROVE  SubSeq(Append(q, e), 1, n) = SubSeq(q, 1, n)
<1>1. <<e>> \in Seq(Events)
  OBVIOUS
<1>2. Append(q, e) = q \o <<e>>
  BY AppendIsConcat
<1>3. Len(q) \in Nat
  BY LenProperties
<1> QED
  BY <1>1, <1>2, <1>3, SubSeqOfConcat1

LEMMA BatchIsEvents ==
    ASSUME NEW b \in Seq(Events)
    PROVE  Range(b) \subseteq Events
BY RangeOfSeq

-----------------------------------------------------------------------------
(* The drain lock                                                          *)

(* Nobody loses the lock to another between his checks or with a batch.    *)
LEMMA LockStep ==
    ASSUME TypeOK, LockInv, Next
    PROVE  LockInv'
<1>1. ASSUME NEW c \in Callers, Starts(c) \/ Continues(c)
      PROVE  LockInv'
  <2> c \in Threads
    BY DEF Threads
  <2>1. CASE Accept(c)
    BY <2>1 DEF Accept, Calls, Step, TypeOK, LockInv, Draining, shared, history
  <2>2. CASE TurnAway(c)
    BY <2>2 DEF TurnAway, Calls, Step, TypeOK, LockInv, Draining, shared, history
  <2>3. CASE BeginFlush(c)
    BY <2>3 DEF BeginFlush, Calls, Step, TypeOK, LockInv, Draining, shared, history
  <2>4. CASE BeginClose(c)
    BY <2>4 DEF BeginClose, Calls, Step, TypeOK, LockInv, Draining, shared, history
  <2>5. CASE ExitHook(c)
    BY <2>5 DEF ExitHook, Calls, Step, TypeOK, LockInv, Draining, shared, history
  <2>6. CASE Schedule(c)
    BY <2>6 DEF Schedule, Step, TypeOK, LockInv, Draining, shared, history
  <2>7. CASE ClearsDeadline(c)
    BY <2>7 DEF ClearsDeadline, Step, TypeOK, LockInv, Draining, shared, history
  <2>8. CASE ClearsAndRaises(c)
    BY <2>8 DEF ClearsAndRaises, Step, TypeOK, LockInv, Draining, shared, history
  <2>9. CASE ReportsUnsent(c)
    BY <2>9 DEF ReportsUnsent, Step, TypeOK, LockInv, Draining, shared, history
  <2>10. CASE Halts(c)
    BY <2>10 DEF Halts, Step, TypeOK, LockInv, Draining, shared, history
  <2>11. CASE Unhooks(c)
    BY <2>11 DEF Unhooks, Step, TypeOK, LockInv, Draining, shared, history
  <2>12. CASE Catches(c)
    BY <2>12 DEF Catches, Step, TypeOK, LockInv, Draining, shared, history
  <2>13. ASSUME NEW t \in Timers, Arm(c, t)
        PROVE  LockInv'
    <3> t \in Threads
      BY DEF Threads
    <3> QED
      BY <2>13 DEF Arm, Step, TypeOK, LockInv, Draining, shared, history
  <2>14. ASSUME NEW t \in Timers, StartFails(c, t)
        PROVE  LockInv'
    <3> t \in Threads
      BY DEF Threads
    <3> QED
      BY <2>14 DEF StartFails, Step, TypeOK, LockInv, Draining, shared, history
  <2> QED
    BY <1>1, <2>1, <2>2, <2>3, <2>4, <2>5, <2>6, <2>7, <2>8, <2>9, <2>10, <2>11, <2>12, <2>13, <2>14 DEF Starts, Continues
<1>2. ASSUME NEW t \in Timers, Fire(t) \/ OnTimer(t)
      PROVE  LockInv'
  <2> t \in Threads
    BY DEF Threads
  <2>1. CASE Fire(t)
    BY <2>1 DEF Fire, Step, TypeOK, LockInv, Draining, shared, history
  <2>2. CASE OnTimer(t)
    BY <2>2 DEF OnTimer, Step, TypeOK, LockInv, Draining, shared, history
  <2> QED
    BY <1>2, <2>1, <2>2
<1>3. ASSUME NEW t \in Threads, Drains(t)
      PROVE  LockInv'
  <2>1. CASE Acquire(t)
    BY <2>1, ThreadAssumption DEF Acquire, Step, DrainIsFree, TypeOK, LockInv, Draining, shared, history
  <2>2. CASE CancelTests(t)
    BY <2>2 DEF CancelTests, Step, AfterCancel, TypeOK, LockInv, Draining, shared, history
  <2>3. CASE CancelCalls(t)
    BY <2>3 DEF CancelCalls, Step, TypeOK, LockInv, Draining, shared, history
  <2>4. CASE CancelRaises(t)
    BY <2>4 DEF CancelRaises, Raises, Leave, Step, Unwinds, TypeOK, LockInv, Draining, shared, history
  <2>5. CASE CancelClears(t)
    BY <2>5 DEF CancelClears, Step, AfterCancel, TypeOK, LockInv, Draining, shared, history
  <2>6. CASE BudgetTests(t)
    BY <2>6 DEF BudgetTests, Step, TypeOK, LockInv, Draining, shared, history
  <2>7. CASE BudgetRaises(t)
    BY <2>7 DEF BudgetRaises, Raises, Leave, Step, Unwinds, TypeOK, LockInv, Draining, shared, history
  <2>8. CASE BudgetIsSpent(t)
    BY <2>8 DEF BudgetIsSpent, Returns, Leave, Step, Resumes, TypeOK, LockInv, Draining, shared, history
  <2>9. CASE BudgetIsLeft(t)
    BY <2>9 DEF BudgetIsLeft, Step, TypeOK, LockInv, Draining, shared, history
  <2>10. CASE FindsNothing(t)
    BY <2>10 DEF FindsNothing, Step, TypeOK, LockInv, Draining, shared, history
  <2>11. CASE Leaves(t)
    BY <2>11 DEF Leaves, Returns, Leave, Step, Resumes, TypeOK, LockInv, Draining, shared, history
  <2>12. CASE Slice(t)
    BY <2>12 DEF Slice, Step, TypeOK, LockInv, Draining, shared, history
  <2>13. CASE Sent(t)
    BY <2>13 DEF Sent, Step, TypeOK, LockInv, Draining, shared, history
  <2>14. CASE Widens(t)
    BY <2>14 DEF Widens, Requeue, Step, TypeOK, LockInv, Draining, shared, history
  <2>15. CASE TooLargeForMany(t)
    BY <2>15 DEF TooLargeForMany, Requeue, Step, TypeOK, LockInv, Draining, shared, history
  <2>16. CASE TooLargeForOne(t)
    BY <2>16 DEF TooLargeForOne, Step, TypeOK, LockInv, Draining, shared, history
  <2>17. CASE RestoresWidth(t)
    BY <2>17 DEF RestoresWidth, Requeue, Step, TypeOK, LockInv, Draining, shared, history
  <2>18. CASE TooLargeRaises(t)
    BY <2>18 DEF TooLargeRaises, Raises, Leave, Step, Unwinds, TypeOK, LockInv, Draining, shared, history
  <2>19. CASE Refused(t)
    BY <2>19 DEF Refused, Requeue, Step, TypeOK, LockInv, Draining, shared, history
  <2>20. CASE Busy(t)
    BY <2>20 DEF Busy, Step, TypeOK, LockInv, Draining, shared, history
  <2>21. CASE ReportsStranded(t)
    BY <2>21 DEF ReportsStranded, Step, TypeOK, LockInv, Draining, shared, history
  <2>22. CASE StopsBatching(t)
    BY <2>22 DEF StopsBatching, Returns, Leave, Step, Resumes, TypeOK, LockInv, Draining, shared, history
  <2>23. CASE LateTests(t)
    BY <2>23 DEF LateTests, Step, TypeOK, LockInv, Draining, shared, history
  <2>24. CASE LateRaises(t)
    BY <2>24 DEF LateRaises, Raises, Leave, Step, Unwinds, TypeOK, LockInv, Draining, shared, history
  <2>25. CASE LateGivesUp(t)
    BY <2>25 DEF LateGivesUp, Returns, Leave, Step, Resumes, TypeOK, LockInv, Draining, shared, history
  <2>26. CASE LateSleeps(t)
    BY <2>26 DEF LateSleeps, Step, TypeOK, LockInv, Draining, shared, history
  <2>27. CASE Wakes(t)
    BY <2>27 DEF Wakes, Step, TypeOK, LockInv, Draining, shared, history
  <2> QED
    BY <1>3, <2>1, <2>2, <2>3, <2>4, <2>5, <2>6, <2>7, <2>8, <2>9, <2>10, <2>11, <2>12,
       <2>13, <2>14, <2>15, <2>16, <2>17, <2>18, <2>19, <2>20, <2>21, <2>22, <2>23, <2>24, <2>25, <2>26, <2>27 DEF Drains
<1>4. CASE Tick
  BY <1>4 DEF Tick, TypeOK, LockInv, Draining, shared, history
<1>5. CASE Quiescent
  BY <1>5 DEF Quiescent, vars, shared, local, history, TypeOK, LockInv, Draining, shared, history
<1> QED
  BY <1>1, <1>2, <1>3, <1>4, <1>5 DEF Next
-----------------------------------------------------------------------------
(* Types                                                                   *)

LEMMA LabelsAreLabels ==
    ASSUME NEW t \in Threads
    PROVE  Resumes(t) \in Labels /\ Unwinds(t) \in Labels /\ AfterCancel(t) \in Labels
BY DEF Resumes, Unwinds, AfterCancel, Labels

(* The width stays in range because a batch was no wider when it was cut,  *)
(* the count of failures because requests stop when the breaker opens.     *)
LEMMA TypeStep ==
    ASSUME TypeOK, HeadInv, SendInv, Next
    PROVE  TypeOK'
<1>1. ASSUME NEW c \in Callers, Starts(c) \/ Continues(c)
      PROVE  TypeOK'
  <2> c \in Threads
    BY DEF Threads
  <2>1. CASE Accept(c)
    <3>1. issued + 1 \in Events
      BY <2>1, QueueAssumption DEF Accept, TypeOK, Events
    <3>2. queue' \in Seq(Events) /\ Len(queue') = Len(queue) + 1
      BY <2>1, <3>1, AppendProperties DEF Accept, TypeOK
    <3>3. Len(queue') <= MaxQueue
      BY <2>1, <3>2, QueueAssumption, LenProperties DEF Accept, Admits, TypeOK
    <3> QED
      BY <2>1, <3>1, <3>2, <3>3 DEF Accept, Calls, Step, TypeOK, Labels, Methods, Events
  <2>2. CASE TurnAway(c)
    <3>1. issued + 1 \in Events
      BY <2>2, QueueAssumption DEF TurnAway, TypeOK, Events
    <3>2. pc' \in [Threads -> Labels]
      BY <2>2 DEF TurnAway, Calls, Step, TypeOK, Labels
    <3>3. call' \in [Threads -> {"none", "timer"} \cup Methods]
      BY <2>2 DEF TurnAway, Calls, TypeOK, Methods
    <3>4. issued' \in 0..MaxEvents /\ dropped' \subseteq Events
      BY <2>2, <3>1 DEF TurnAway, TypeOK, Events
    <3> QED
      BY <2>2, <3>2, <3>3, <3>4 DEF TurnAway, TypeOK, shared
  <2>3. CASE BeginFlush(c)
    BY <2>3 DEF BeginFlush, Calls, Step, TypeOK, Labels, Methods, shared, history
  <2>4. CASE BeginClose(c)
    BY <2>4, QueueAssumption DEF BeginClose, Calls, Step, TypeOK, Labels, Methods, shared, history
  <2>5. CASE ExitHook(c)
    BY <2>5 DEF ExitHook, Calls, Step, TypeOK, Labels, Methods, shared, history
  <2>6. CASE Schedule(c)
    BY <2>6 DEF Schedule, Step, TypeOK, Labels, Methods, shared, history
  <2>7. CASE ClearsDeadline(c)
    BY <2>7 DEF ClearsDeadline, Step, TypeOK, Labels, Methods, shared, history
  <2>8. CASE ClearsAndRaises(c)
    BY <2>8 DEF ClearsAndRaises, Step, TypeOK, Labels, Methods, shared, history
  <2>9. CASE ReportsUnsent(c)
    BY <2>9, BatchIsEvents DEF ReportsUnsent, Step, TypeOK, Labels, Methods, shared, history
  <2>10. CASE Halts(c)
    BY <2>10 DEF Halts, Step, TypeOK, Labels, Methods, shared, history
  <2>11. CASE Unhooks(c)
    BY <2>11 DEF Unhooks, Step, TypeOK, Labels, Methods, shared, history
  <2>12. CASE Catches(c)
    BY <2>12 DEF Catches, Step, TypeOK, Labels, Methods, shared, history
  <2>13. ASSUME NEW t \in Timers, Arm(c, t)
        PROVE  TypeOK'
    <3> t \in Threads
      BY DEF Threads
    <3> QED
      BY <2>13 DEF Arm, Step, TypeOK, Labels, Methods, shared, history
  <2>14. ASSUME NEW t \in Timers, StartFails(c, t)
        PROVE  TypeOK'
    <3> t \in Threads
      BY DEF Threads
    <3> QED
      BY <2>14 DEF StartFails, Step, TypeOK, Labels, Methods, shared, history
  <2> QED
    BY <1>1, <2>1, <2>2, <2>3, <2>4, <2>5, <2>6, <2>7, <2>8, <2>9, <2>10, <2>11, <2>12, <2>13, <2>14 DEF Starts, Continues
<1>2. ASSUME NEW t \in Timers, Fire(t) \/ OnTimer(t)
      PROVE  TypeOK'
  <2> t \in Threads
    BY DEF Threads
  <2>1. CASE Fire(t)
    BY <2>1 DEF Fire, Step, TypeOK, Labels, Methods, shared, history
  <2>2. CASE OnTimer(t)
    BY <2>2 DEF OnTimer, Step, TypeOK, Labels, Methods, shared, history
  <2> QED
    BY <1>2, <2>1, <2>2
<1>3. ASSUME NEW t \in Threads, Drains(t)
      PROVE  TypeOK'
  <2>1. CASE Acquire(t)
    BY <2>1 DEF Acquire, Step, DrainIsFree, TypeOK, Labels, Methods, shared, history
  <2>2. CASE CancelTests(t)
    BY <2>2, LabelsAreLabels DEF CancelTests, Step, AfterCancel, TypeOK, Labels, Methods, shared, history
  <2>3. CASE CancelCalls(t)
    BY <2>3 DEF CancelCalls, Step, TypeOK, Labels, Methods, shared, history
  <2>4. CASE CancelRaises(t)
    <3>1. CASE drainLock = t
      <4>1. Raises(t, "cancel2")
        BY <2>4, <3>1 DEF CancelRaises
      <4>2. UNCHANGED <<queue, pol, stopped, deadline, timerRef, hook, history>>
        BY <2>4 DEF CancelRaises
      <4> QED
        BY <4>1, <4>2, IntervalAssumption, EmptySeq, LabelsAreLabels DEF Raises, Leave, Step, TypeOK, history
    <3>2. CASE drainLock # t
      BY <2>4, <3>2 DEF CancelRaises, Step, TypeOK, Labels, history
    <3> QED
      BY <3>1, <3>2
  <2>5. CASE CancelClears(t)
    BY <2>5, LabelsAreLabels DEF CancelClears, Step, AfterCancel, TypeOK, Labels, Methods, shared, history
  <2>6. CASE BudgetTests(t)
    BY <2>6 DEF BudgetTests, Step, TypeOK, Labels, Methods, shared, history
  <2>7. CASE BudgetRaises(t)
    BY <2>7, IntervalAssumption, EmptySeq, LabelsAreLabels DEF BudgetRaises, Raises, Leave, Step, TypeOK, Labels, Methods, shared, history
  <2>8. CASE BudgetIsSpent(t)
    BY <2>8, IntervalAssumption, EmptySeq, LabelsAreLabels DEF BudgetIsSpent, Returns, Leave, Step, TypeOK, Labels, Methods, shared, history
  <2>9. CASE BudgetIsLeft(t)
    BY <2>9 DEF BudgetIsLeft, Step, TypeOK, Labels, Methods, shared, history
  <2>10. CASE FindsNothing(t)
    BY <2>10 DEF FindsNothing, Step, TypeOK, Labels, Methods, shared, history
  <2>11. CASE Leaves(t)
    BY <2>11, IntervalAssumption, EmptySeq, LabelsAreLabels DEF Leaves, Returns, Leave, Step, TypeOK, Labels, Methods, shared, history
  <2>12. CASE Slice(t)
    <3>1. Lesser(pol.batchSize, Len(queue)) \in 0..Len(queue)
      BY PolicyFields, LenProperties DEF TypeOK, Lesser
    <3>2. Oldest(Lesser(pol.batchSize, Len(queue))) \in Seq(Events)
      BY <3>1, Slices DEF Oldest, TypeOK
    <3> QED
      BY <2>12, <3>2 DEF Slice, Step, TypeOK, Labels, shared, history
  <2>13. CASE Sent(t)
    <3>1. Len(batch[t]) \in 1..Len(queue) /\ batch[t] \in Seq(Events)
      BY <2>13 DEF Sent, Step, TypeOK, HeadInv, Draining
    <3>2. Deleted(Len(batch[t])) \in Seq(Events) /\ Len(Deleted(Len(batch[t]))) <= MaxQueue
      BY <3>1, Slices, LenProperties, QueueAssumption DEF Deleted, TypeOK
    <3>3. Range(batch[t]) \subseteq Events
      BY <3>1, BatchIsEvents
    <3> QED
      BY <2>13, <3>1, <3>2, <3>3 DEF Sent, Step, TypeOK, Labels
  <2>14. CASE Widens(t)
    <3>1. AfterSent(pol, Len(batch[t])) \in Policy
      BY AfterSentType, LenProperties DEF TypeOK
    <3> QED
      BY <2>14, <3>1, EmptySeq DEF Widens, Requeue, Step, TypeOK, Labels, history
  <2>15. CASE TooLargeForMany(t)
    <3>1. Len(batch[t]) \in Nat /\ Len(batch[t]) <= pol.batchSize
      BY <2>15, LenProperties DEF TooLargeForMany, Requeue, Step, TypeOK, SendInv
    <3>2. AfterHalving(pol, Len(batch[t])) \in Policy
      BY <3>1, AfterHalvingType, PolicyFields, FullWidthType DEF TypeOK
    <3> QED
      BY <2>15, <3>2, EmptySeq DEF TooLargeForMany, Requeue, Step, TypeOK, Labels, history
  <2>16. CASE TooLargeForOne(t)
    <3>1. Len(batch[t]) \in 1..Len(queue) /\ batch[t] \in Seq(Events)
      BY <2>16 DEF TooLargeForOne, Step, TypeOK, HeadInv, Draining
    <3>2. Deleted(Len(batch[t])) \in Seq(Events) /\ Len(Deleted(Len(batch[t]))) <= MaxQueue
      BY <3>1, Slices, LenProperties, QueueAssumption DEF Deleted, TypeOK
    <3>3. Range(batch[t]) \subseteq Events
      BY <3>1, BatchIsEvents
    <3> QED
      BY <2>16, <3>1, <3>2, <3>3 DEF TooLargeForOne, Step, TypeOK, Labels
  <2>17. CASE RestoresWidth(t)
    <3>1. AfterOversized(pol) \in Policy
      BY AfterOversizedType, LenProperties DEF TypeOK
    <3> QED
      BY <2>17, <3>1, EmptySeq DEF RestoresWidth, Requeue, Step, TypeOK, Labels, history
  <2>18. CASE TooLargeRaises(t)
    <3>1. RunEnds(pol) \in Policy
      BY RunEndsType DEF TypeOK
    <3> QED
      BY <2>18, <3>1, IntervalAssumption, EmptySeq, LabelsAreLabels DEF TooLargeRaises, Raises, Leave, Step, TypeOK, history
  <2>19. CASE Refused(t)
    <3>1. Len(batch[t]) \in 1..Len(queue) /\ batch[t] \in Seq(Events)
      BY <2>19 DEF Refused, Requeue, Step, TypeOK, HeadInv, Draining
    <3>2. Deleted(Len(batch[t])) \in Seq(Events) /\ Len(Deleted(Len(batch[t]))) <= MaxQueue
      BY <3>1, Slices, LenProperties, QueueAssumption DEF Deleted, TypeOK
    <3>3. AfterRefused(pol) \in Policy
      BY AfterRefusedType, <3>1, LenProperties DEF TypeOK
    <3>4. Range(batch[t]) \subseteq Events
      BY <3>1, BatchIsEvents
    <3> QED
      BY <2>19, <3>1, <3>2, <3>3, <3>4, EmptySeq DEF Refused, Requeue, Step, TypeOK, Labels
  <2>20. CASE Busy(t)
    <3>1. AfterRetryable(pol) \in Policy
      BY <2>20, AfterRetryableType DEF Busy, Step, TypeOK, SendInv
    <3>2. \A advised \in Advised \cup {0} : BackoffMs(AfterRetryable(pol), advised) \in 0..MaxRetryMs
      <4>1. \A advised \in Advised \cup {0} :
              BackoffMs(AfterRetryable(pol), advised) \in MinRetryMs..MaxRetryMs
        BY <3>1, BackoffIsBounded, ServerAssumption
      <4> QED
        BY <4>1, IntervalAssumption
    <3>3. PICK advised \in Advised \cup {0} :
            wait' = [wait EXCEPT ![t] = IF BreakerOpens(AfterRetryable(pol)) THEN 0
                                        ELSE BackoffMs(AfterRetryable(pol), advised)]
      BY <2>20 DEF Busy
    <3> DEFINE ms == IF BreakerOpens(AfterRetryable(pol)) THEN 0
                     ELSE BackoffMs(AfterRetryable(pol), advised)
    <3>4. ms \in 0..MaxRetryMs
      BY <3>2, IntervalAssumption
    <3>5. wait' = [wait EXCEPT ![t] = ms]
      BY <3>3
    <3> HIDE DEF ms
    <3> QED
      BY <2>20, <3>1, <3>4, <3>5 DEF Busy, Step, TypeOK, Labels, history
  <2>21. CASE ReportsStranded(t)
    BY <2>21, BatchIsEvents DEF ReportsStranded, Step, TypeOK, Labels, Methods, shared, history
  <2>22. CASE StopsBatching(t)
    BY <2>22, IntervalAssumption, EmptySeq, LabelsAreLabels DEF StopsBatching, Returns, Leave, Step, TypeOK, Labels, Methods, shared, history
  <2>23. CASE LateTests(t)
    BY <2>23 DEF LateTests, Step, TypeOK, Labels, Methods, shared, history
  <2>24. CASE LateRaises(t)
    BY <2>24, IntervalAssumption, EmptySeq, LabelsAreLabels DEF LateRaises, Raises, Leave, Step, TypeOK, Labels, Methods, shared, history
  <2>25. CASE LateGivesUp(t)
    BY <2>25, IntervalAssumption, EmptySeq, LabelsAreLabels DEF LateGivesUp, Returns, Leave, Step, TypeOK, Labels, Methods, shared, history
  <2>26. CASE LateSleeps(t)
    BY <2>26 DEF LateSleeps, Step, TypeOK, Labels, Methods, shared, history
  <2>27. CASE Wakes(t)
    BY <2>27, EmptySeq DEF Wakes, Step, TypeOK, Labels, Methods, shared, history
  <2> QED
    BY <1>3, <2>1, <2>2, <2>3, <2>4, <2>5, <2>6, <2>7, <2>8, <2>9, <2>10, <2>11, <2>12,
       <2>13, <2>14, <2>15, <2>16, <2>17, <2>18, <2>19, <2>20, <2>21, <2>22, <2>23, <2>24, <2>25, <2>26, <2>27 DEF Drains
<1>4. CASE Tick
  <2>1. \A n \in Nat, m \in Nat : n \in 0..m => Passing(n) \in 0..m
    BY DEF Passing, Greater
  <2>2. deadline' \in {None} \cup 0..CloseBudget
    BY <1>4, <2>1, QueueAssumption DEF Tick, TypeOK
  <2>3. wait' \in [Threads -> 0..MaxRetryMs]
    BY <1>4, <2>1, IntervalAssumption DEF Tick, TypeOK
  <2> QED
    BY <1>4, <2>2, <2>3 DEF Tick, TypeOK, history
<1>5. CASE Quiescent
  BY <1>5 DEF Quiescent, vars, shared, local, history, TypeOK, Labels, Methods, shared, history
<1> QED
  BY <1>1, <1>2, <1>3, <1>4, <1>5 DEF Next
(* Events join at the tail and only the drainer deletes, so what he cut     *)
(* stays the head.                                                         *)
LEMMA HeadStep ==
    ASSUME TypeOK, LockInv, HeadInv, Next
    PROVE  HeadInv'
<1>1. ASSUME NEW c \in Callers, Starts(c) \/ Continues(c)
      PROVE  HeadInv'
  <2> c \in Threads
    BY DEF Threads
  <2>1. CASE Accept(c)
    <3>1. issued + 1 \in Events
      BY <2>1, QueueAssumption DEF Accept, TypeOK, Events
    <3>2. queue' = Append(queue, issued + 1) /\ Len(queue') = Len(queue) + 1
      BY <2>1, <3>1, AppendProperties DEF Accept, TypeOK
    <3>3. ASSUME NEW u \in Threads, Draining(u)'
          PROVE  /\ Len(batch'[u]) \in 1..Len(queue')
                 /\ batch'[u] = SubSeq(queue', 1, Len(batch'[u]))
      <4>1. Draining(u) /\ batch'[u] = batch[u]
        BY <2>1, <3>3 DEF Accept, Calls, Step, TypeOK, Draining
      <4>2. Len(batch[u]) \in 1..Len(queue) /\ batch[u] = SubSeq(queue, 1, Len(batch[u]))
        BY <4>1 DEF HeadInv
      <4>3. SubSeq(queue', 1, Len(batch[u])) = SubSeq(queue, 1, Len(batch[u]))
        BY <3>1, <3>2, <4>2, HeadOfAppend DEF TypeOK
      <4>4. Len(queue) \in Nat
        BY LenProperties DEF TypeOK
      <4> QED
        BY <3>2, <4>1, <4>2, <4>3, <4>4
    <3> QED
      BY <3>3 DEF HeadInv
  <2>2. CASE TurnAway(c)
    BY <2>2 DEF TurnAway, Calls, Step, TypeOK, HeadInv, Draining, shared, history
  <2>3. CASE BeginFlush(c)
    BY <2>3 DEF BeginFlush, Calls, Step, TypeOK, HeadInv, Draining, shared, history
  <2>4. CASE BeginClose(c)
    BY <2>4 DEF BeginClose, Calls, Step, TypeOK, HeadInv, Draining, shared, history
  <2>5. CASE ExitHook(c)
    BY <2>5 DEF ExitHook, Calls, Step, TypeOK, HeadInv, Draining, shared, history
  <2>6. CASE Schedule(c)
    BY <2>6 DEF Schedule, Step, TypeOK, HeadInv, Draining, shared, history
  <2>7. CASE ClearsDeadline(c)
    BY <2>7 DEF ClearsDeadline, Step, TypeOK, HeadInv, Draining, shared, history
  <2>8. CASE ClearsAndRaises(c)
    BY <2>8 DEF ClearsAndRaises, Step, TypeOK, HeadInv, Draining, shared, history
  <2>9. CASE ReportsUnsent(c)
    BY <2>9 DEF ReportsUnsent, Step, TypeOK, HeadInv, Draining, shared, history
  <2>10. CASE Halts(c)
    BY <2>10 DEF Halts, Step, TypeOK, HeadInv, Draining, shared, history
  <2>11. CASE Unhooks(c)
    BY <2>11 DEF Unhooks, Step, TypeOK, HeadInv, Draining, shared, history
  <2>12. CASE Catches(c)
    BY <2>12 DEF Catches, Step, TypeOK, HeadInv, Draining, shared, history
  <2>13. ASSUME NEW t \in Timers, Arm(c, t)
        PROVE  HeadInv'
    <3> t \in Threads
      BY DEF Threads
    <3> QED
      BY <2>13 DEF Arm, Step, TypeOK, HeadInv, Draining, shared, history
  <2>14. ASSUME NEW t \in Timers, StartFails(c, t)
        PROVE  HeadInv'
    <3> t \in Threads
      BY DEF Threads
    <3> QED
      BY <2>14 DEF StartFails, Step, TypeOK, HeadInv, Draining, shared, history
  <2> QED
    BY <1>1, <2>1, <2>2, <2>3, <2>4, <2>5, <2>6, <2>7, <2>8, <2>9, <2>10, <2>11, <2>12, <2>13, <2>14 DEF Starts, Continues
<1>2. ASSUME NEW t \in Timers, Fire(t) \/ OnTimer(t)
      PROVE  HeadInv'
  <2> t \in Threads
    BY DEF Threads
  <2>1. CASE Fire(t)
    BY <2>1 DEF Fire, Step, TypeOK, HeadInv, Draining, shared, history
  <2>2. CASE OnTimer(t)
    BY <2>2 DEF OnTimer, Step, TypeOK, HeadInv, Draining, shared, history
  <2> QED
    BY <1>2, <2>1, <2>2
<1>3. ASSUME NEW t \in Threads, Drains(t)
      PROVE  HeadInv'
  <2>1. CASE Acquire(t)
    BY <2>1, ThreadAssumption DEF Acquire, Step, DrainIsFree, TypeOK, HeadInv, Draining, shared, history
  <2>2. CASE CancelTests(t)
    BY <2>2 DEF CancelTests, Step, AfterCancel, TypeOK, HeadInv, Draining, shared, history
  <2>3. CASE CancelCalls(t)
    BY <2>3 DEF CancelCalls, Step, TypeOK, HeadInv, Draining, shared, history
  <2>4. CASE CancelRaises(t)
    BY <2>4 DEF CancelRaises, Raises, Leave, Step, Unwinds, TypeOK, HeadInv, Draining, shared, history
  <2>5. CASE CancelClears(t)
    BY <2>5 DEF CancelClears, Step, AfterCancel, TypeOK, HeadInv, Draining, shared, history
  <2>6. CASE BudgetTests(t)
    BY <2>6 DEF BudgetTests, Step, TypeOK, HeadInv, Draining, shared, history
  <2>7. CASE BudgetRaises(t)
    BY <2>7 DEF BudgetRaises, Raises, Leave, Step, Unwinds, TypeOK, HeadInv, Draining, shared, history
  <2>8. CASE BudgetIsSpent(t)
    BY <2>8 DEF BudgetIsSpent, Returns, Leave, Step, Resumes, TypeOK, HeadInv, Draining, shared, history
  <2>9. CASE BudgetIsLeft(t)
    BY <2>9 DEF BudgetIsLeft, Step, TypeOK, HeadInv, Draining, shared, history
  <2>10. CASE FindsNothing(t)
    BY <2>10 DEF FindsNothing, Step, TypeOK, HeadInv, Draining, shared, history
  <2>11. CASE Leaves(t)
    BY <2>11 DEF Leaves, Returns, Leave, Step, Resumes, TypeOK, HeadInv, Draining, shared, history
  <2>12. CASE Slice(t)
    <3> DEFINE n == Lesser(pol.batchSize, Len(queue))
    <3>1. queue # <<>> /\ Len(queue) \in Nat \ {0}
      BY <2>12, EmptySeq DEF Slice, TypeOK
    <3>2. n \in 1..Len(queue)
      BY <3>1, PolicyFields, FullWidthType DEF TypeOK, Lesser
    <3>3. batch'[t] = SubSeq(queue, 1, n) /\ queue' = queue
      BY <2>12 DEF Slice, Oldest, TypeOK, shared
    <3> HIDE DEF n
    <3>4. Len(SubSeq(queue, 1, n)) = n
      BY <3>2, Slices DEF TypeOK
    <3>5. \A u \in Threads : Draining(u)' => u = t
      BY <2>12 DEF Slice, Step, TypeOK, LockInv, Draining
    <3> QED
      BY <3>2, <3>3, <3>4, <3>5 DEF HeadInv
  <2>13. CASE Sent(t)
    <3>1. \A u \in Threads : ~Draining(u)'
      BY <2>13 DEF Sent, Step, TypeOK, LockInv, Draining
    <3> QED
      BY <3>1 DEF HeadInv
  <2>14. CASE Widens(t)
    BY <2>14 DEF Widens, Requeue, Step, TypeOK, HeadInv, Draining, shared, history
  <2>15. CASE TooLargeForMany(t)
    BY <2>15 DEF TooLargeForMany, Requeue, Step, TypeOK, HeadInv, Draining, shared, history
  <2>16. CASE TooLargeForOne(t)
    <3>1. \A u \in Threads : ~Draining(u)'
      BY <2>16 DEF TooLargeForOne, Step, TypeOK, LockInv, Draining
    <3> QED
      BY <3>1 DEF HeadInv
  <2>17. CASE RestoresWidth(t)
    BY <2>17 DEF RestoresWidth, Requeue, Step, TypeOK, HeadInv, Draining, shared, history
  <2>18. CASE TooLargeRaises(t)
    BY <2>18 DEF TooLargeRaises, Raises, Leave, Step, Unwinds, TypeOK, HeadInv, Draining, shared, history
  <2>19. CASE Refused(t)
    <3>1. \A u \in Threads : ~Draining(u)'
      BY <2>19 DEF Refused, Requeue, Step, TypeOK, LockInv, Draining
    <3> QED
      BY <3>1 DEF HeadInv
  <2>20. CASE Busy(t)
    BY <2>20 DEF Busy, Step, TypeOK, HeadInv, Draining, shared, history
  <2>21. CASE ReportsStranded(t)
    BY <2>21 DEF ReportsStranded, Step, TypeOK, HeadInv, Draining, shared, history
  <2>22. CASE StopsBatching(t)
    BY <2>22 DEF StopsBatching, Returns, Leave, Step, Resumes, TypeOK, HeadInv, Draining, shared, history
  <2>23. CASE LateTests(t)
    BY <2>23 DEF LateTests, Step, TypeOK, HeadInv, Draining, shared, history
  <2>24. CASE LateRaises(t)
    BY <2>24 DEF LateRaises, Raises, Leave, Step, Unwinds, TypeOK, HeadInv, Draining, shared, history
  <2>25. CASE LateGivesUp(t)
    BY <2>25 DEF LateGivesUp, Returns, Leave, Step, Resumes, TypeOK, HeadInv, Draining, shared, history
  <2>26. CASE LateSleeps(t)
    BY <2>26 DEF LateSleeps, Step, TypeOK, HeadInv, Draining, shared, history
  <2>27. CASE Wakes(t)
    BY <2>27 DEF Wakes, Step, TypeOK, HeadInv, Draining, shared, history
  <2> QED
    BY <1>3, <2>1, <2>2, <2>3, <2>4, <2>5, <2>6, <2>7, <2>8, <2>9, <2>10, <2>11, <2>12,
       <2>13, <2>14, <2>15, <2>16, <2>17, <2>18, <2>19, <2>20, <2>21, <2>22, <2>23, <2>24, <2>25, <2>26, <2>27 DEF Drains
<1>4. CASE Tick
  BY <1>4 DEF Tick, TypeOK, HeadInv, Draining, shared, history
<1>5. CASE Quiescent
  BY <1>5 DEF Quiescent, vars, shared, local, history, TypeOK, HeadInv, Draining, shared, history
<1> QED
  BY <1>1, <1>2, <1>3, <1>4, <1>5 DEF Next
(* A batch is cut at the width of the moment, by a drainer who found the   *)
(* batching on; nobody else is between the breaker and the stop.           *)
LEMMA SendStep ==
    ASSUME TypeOK, LockInv, SendInv, BreakerInv, Next
    PROVE  SendInv'
<1>1. ASSUME NEW c \in Callers, Starts(c) \/ Continues(c)
      PROVE  SendInv'
  <2> c \in Threads
    BY DEF Threads
  <2>1. CASE Accept(c)
    BY <2>1 DEF Accept, Calls, Step, TypeOK, SendInv, shared, history
  <2>2. CASE TurnAway(c)
    BY <2>2 DEF TurnAway, Calls, Step, TypeOK, SendInv, shared, history
  <2>3. CASE BeginFlush(c)
    BY <2>3 DEF BeginFlush, Calls, Step, TypeOK, SendInv, shared, history
  <2>4. CASE BeginClose(c)
    BY <2>4 DEF BeginClose, Calls, Step, TypeOK, SendInv, shared, history
  <2>5. CASE ExitHook(c)
    BY <2>5 DEF ExitHook, Calls, Step, TypeOK, SendInv, shared, history
  <2>6. CASE Schedule(c)
    BY <2>6 DEF Schedule, Step, TypeOK, SendInv, shared, history
  <2>7. CASE ClearsDeadline(c)
    BY <2>7 DEF ClearsDeadline, Step, TypeOK, SendInv, shared, history
  <2>8. CASE ClearsAndRaises(c)
    BY <2>8 DEF ClearsAndRaises, Step, TypeOK, SendInv, shared, history
  <2>9. CASE ReportsUnsent(c)
    BY <2>9 DEF ReportsUnsent, Step, TypeOK, SendInv, shared, history
  <2>10. CASE Halts(c)
    BY <2>10 DEF Halts, Step, TypeOK, SendInv, shared, history
  <2>11. CASE Unhooks(c)
    BY <2>11 DEF Unhooks, Step, TypeOK, SendInv, shared, history
  <2>12. CASE Catches(c)
    BY <2>12 DEF Catches, Step, TypeOK, SendInv, shared, history
  <2>13. ASSUME NEW t \in Timers, Arm(c, t)
        PROVE  SendInv'
    <3> t \in Threads
      BY DEF Threads
    <3> QED
      BY <2>13 DEF Arm, Step, TypeOK, SendInv, shared, history
  <2>14. ASSUME NEW t \in Timers, StartFails(c, t)
        PROVE  SendInv'
    <3> t \in Threads
      BY DEF Threads
    <3> QED
      BY <2>14 DEF StartFails, Step, TypeOK, SendInv, shared, history
  <2> QED
    BY <1>1, <2>1, <2>2, <2>3, <2>4, <2>5, <2>6, <2>7, <2>8, <2>9, <2>10, <2>11, <2>12, <2>13, <2>14 DEF Starts, Continues
<1>2. ASSUME NEW t \in Timers, Fire(t) \/ OnTimer(t)
      PROVE  SendInv'
  <2> t \in Threads
    BY DEF Threads
  <2>1. CASE Fire(t)
    BY <2>1 DEF Fire, Step, TypeOK, SendInv, shared, history
  <2>2. CASE OnTimer(t)
    BY <2>2 DEF OnTimer, Step, TypeOK, SendInv, shared, history
  <2> QED
    BY <1>2, <2>1, <2>2
<1>3. ASSUME NEW t \in Threads, Drains(t)
      PROVE  SendInv'
  <2>1. CASE Acquire(t)
    BY <2>1 DEF Acquire, Step, DrainIsFree, TypeOK, SendInv, shared, history
  <2>2. CASE CancelTests(t)
    BY <2>2 DEF CancelTests, Step, AfterCancel, TypeOK, SendInv, shared, history
  <2>3. CASE CancelCalls(t)
    BY <2>3 DEF CancelCalls, Step, TypeOK, SendInv, shared, history
  <2>4. CASE CancelRaises(t)
    BY <2>4 DEF CancelRaises, Raises, Leave, Step, Unwinds, TypeOK, SendInv, shared, history
  <2>5. CASE CancelClears(t)
    BY <2>5 DEF CancelClears, Step, AfterCancel, TypeOK, SendInv, shared, history
  <2>6. CASE BudgetTests(t)
    BY <2>6 DEF BudgetTests, Step, TypeOK, SendInv, shared, history
  <2>7. CASE BudgetRaises(t)
    BY <2>7 DEF BudgetRaises, Raises, Leave, Step, Unwinds, TypeOK, SendInv, shared, history
  <2>8. CASE BudgetIsSpent(t)
    BY <2>8 DEF BudgetIsSpent, Returns, Leave, Step, Resumes, TypeOK, SendInv, shared, history
  <2>9. CASE BudgetIsLeft(t)
    BY <2>9 DEF BudgetIsLeft, Step, TypeOK, SendInv, shared, history
  <2>10. CASE FindsNothing(t)
    BY <2>10 DEF FindsNothing, Step, TypeOK, SendInv, shared, history
  <2>11. CASE Leaves(t)
    BY <2>11 DEF Leaves, Returns, Leave, Step, Resumes, TypeOK, SendInv, shared, history
  <2>12. CASE Slice(t)
    <3> DEFINE n == Lesser(pol.batchSize, Len(queue))
    <3>1. Len(queue) \in Nat /\ pol.batchSize \in Nat /\ n \in 0..Len(queue) /\ n <= pol.batchSize
      BY LenProperties, PolicyFields, FullWidthType DEF TypeOK, Lesser
    <3>2. batch'[t] = SubSeq(queue, 1, n)
      BY <2>12 DEF Slice, Oldest, TypeOK
    <3> HIDE DEF n
    <3>3. Len(batch'[t]) <= pol.batchSize
      BY <3>1, <3>2, Slices DEF TypeOK
    <3>4. ~BreakerOpens(pol)
      BY <2>12 DEF Slice, Step, BreakerInv, LockInv, Draining
    <3>5. \A u \in Threads : pc'[u] = "send" => u = t
      BY <2>12 DEF Slice, Step, TypeOK, LockInv, Draining
    <3> QED
      BY <2>12, <3>3, <3>4, <3>5 DEF Slice, SendInv, shared
  <2>13. CASE Sent(t)
    <3>1. \A u \in Threads : pc'[u] # "send"
      BY <2>13 DEF Sent, Step, TypeOK, LockInv, Draining
    <3> QED
      BY <3>1 DEF SendInv
  <2>14. CASE Widens(t)
    <3>1. \A u \in Threads : pc'[u] # "send"
      BY <2>14 DEF Widens, Requeue, Step, TypeOK, LockInv, Draining
    <3> QED
      BY <3>1 DEF SendInv
  <2>15. CASE TooLargeForMany(t)
    <3>1. \A u \in Threads : pc'[u] # "send"
      BY <2>15 DEF TooLargeForMany, Requeue, Step, TypeOK, LockInv, Draining
    <3> QED
      BY <3>1 DEF SendInv
  <2>16. CASE TooLargeForOne(t)
    <3>1. \A u \in Threads : pc'[u] # "send"
      BY <2>16 DEF TooLargeForOne, Step, TypeOK, LockInv, Draining
    <3> QED
      BY <3>1 DEF SendInv
  <2>17. CASE RestoresWidth(t)
    <3>1. \A u \in Threads : pc'[u] # "send"
      BY <2>17 DEF RestoresWidth, Requeue, Step, TypeOK, LockInv, Draining
    <3> QED
      BY <3>1 DEF SendInv
  <2>18. CASE TooLargeRaises(t)
    <3>1. \A u \in Threads : pc'[u] # "send"
      BY <2>18 DEF TooLargeRaises, Raises, Leave, Unwinds, Step, TypeOK, LockInv, Draining
    <3> QED
      BY <3>1 DEF SendInv
  <2>19. CASE Refused(t)
    <3>1. \A u \in Threads : pc'[u] # "send"
      BY <2>19 DEF Refused, Requeue, Step, TypeOK, LockInv, Draining
    <3> QED
      BY <3>1 DEF SendInv
  <2>20. CASE Busy(t)
    <3>1. \A u \in Threads : pc'[u] # "send"
      BY <2>20 DEF Busy, Step, TypeOK, LockInv, Draining
    <3> QED
      BY <3>1 DEF SendInv
  <2>21. CASE ReportsStranded(t)
    BY <2>21 DEF ReportsStranded, Step, TypeOK, SendInv, shared, history
  <2>22. CASE StopsBatching(t)
    BY <2>22 DEF StopsBatching, Returns, Leave, Step, Resumes, TypeOK, SendInv, shared, history
  <2>23. CASE LateTests(t)
    BY <2>23 DEF LateTests, Step, TypeOK, SendInv, shared, history
  <2>24. CASE LateRaises(t)
    BY <2>24 DEF LateRaises, Raises, Leave, Step, Unwinds, TypeOK, SendInv, shared, history
  <2>25. CASE LateGivesUp(t)
    BY <2>25 DEF LateGivesUp, Returns, Leave, Step, Resumes, TypeOK, SendInv, shared, history
  <2>26. CASE LateSleeps(t)
    BY <2>26 DEF LateSleeps, Step, TypeOK, SendInv, shared, history
  <2>27. CASE Wakes(t)
    BY <2>27 DEF Wakes, Step, TypeOK, SendInv, shared, history
  <2> QED
    BY <1>3, <2>1, <2>2, <2>3, <2>4, <2>5, <2>6, <2>7, <2>8, <2>9, <2>10, <2>11, <2>12,
       <2>13, <2>14, <2>15, <2>16, <2>17, <2>18, <2>19, <2>20, <2>21, <2>22, <2>23, <2>24, <2>25, <2>26, <2>27 DEF Drains
<1>4. CASE Tick
  BY <1>4 DEF Tick, TypeOK, SendInv, shared, history
<1>5. CASE Quiescent
  BY <1>5 DEF Quiescent, vars, shared, local, history, TypeOK, SendInv, shared, history
<1> QED
  BY <1>1, <1>2, <1>3, <1>4, <1>5 DEF Next
(* The failure that opens the breaker is handled by stopping the batching. *)
LEMMA BreakerStep ==
    ASSUME TypeOK, SendInv, BreakerInv, Next
    PROVE  BreakerInv'
<1>1. ASSUME NEW c \in Callers, Starts(c) \/ Continues(c)
      PROVE  BreakerInv'
  <2> c \in Threads
    BY DEF Threads
  <2>1. CASE Accept(c)
    BY <2>1 DEF Accept, Calls, Step, TypeOK, BreakerInv, shared, history
  <2>2. CASE TurnAway(c)
    BY <2>2 DEF TurnAway, Calls, Step, TypeOK, BreakerInv, shared, history
  <2>3. CASE BeginFlush(c)
    BY <2>3 DEF BeginFlush, Calls, Step, TypeOK, BreakerInv, shared, history
  <2>4. CASE BeginClose(c)
    BY <2>4 DEF BeginClose, Calls, Step, TypeOK, BreakerInv, shared, history
  <2>5. CASE ExitHook(c)
    BY <2>5 DEF ExitHook, Calls, Step, TypeOK, BreakerInv, shared, history
  <2>6. CASE Schedule(c)
    BY <2>6 DEF Schedule, Step, TypeOK, BreakerInv, shared, history
  <2>7. CASE ClearsDeadline(c)
    BY <2>7 DEF ClearsDeadline, Step, TypeOK, BreakerInv, shared, history
  <2>8. CASE ClearsAndRaises(c)
    BY <2>8 DEF ClearsAndRaises, Step, TypeOK, BreakerInv, shared, history
  <2>9. CASE ReportsUnsent(c)
    BY <2>9 DEF ReportsUnsent, Step, TypeOK, BreakerInv, shared, history
  <2>10. CASE Halts(c)
    BY <2>10 DEF Halts, Step, TypeOK, BreakerInv, shared, history
  <2>11. CASE Unhooks(c)
    BY <2>11 DEF Unhooks, Step, TypeOK, BreakerInv, shared, history
  <2>12. CASE Catches(c)
    BY <2>12 DEF Catches, Step, TypeOK, BreakerInv, shared, history
  <2>13. ASSUME NEW t \in Timers, Arm(c, t)
        PROVE  BreakerInv'
    <3> t \in Threads
      BY DEF Threads
    <3> QED
      BY <2>13 DEF Arm, Step, TypeOK, BreakerInv, shared, history
  <2>14. ASSUME NEW t \in Timers, StartFails(c, t)
        PROVE  BreakerInv'
    <3> t \in Threads
      BY DEF Threads
    <3> QED
      BY <2>14 DEF StartFails, Step, TypeOK, BreakerInv, shared, history
  <2> QED
    BY <1>1, <2>1, <2>2, <2>3, <2>4, <2>5, <2>6, <2>7, <2>8, <2>9, <2>10, <2>11, <2>12, <2>13, <2>14 DEF Starts, Continues
<1>2. ASSUME NEW t \in Timers, Fire(t) \/ OnTimer(t)
      PROVE  BreakerInv'
  <2> t \in Threads
    BY DEF Threads
  <2>1. CASE Fire(t)
    BY <2>1 DEF Fire, Step, TypeOK, BreakerInv, shared, history
  <2>2. CASE OnTimer(t)
    BY <2>2 DEF OnTimer, Step, TypeOK, BreakerInv, shared, history
  <2> QED
    BY <1>2, <2>1, <2>2
<1>3. ASSUME NEW t \in Threads, Drains(t)
      PROVE  BreakerInv'
  <2>1. CASE Acquire(t)
    BY <2>1 DEF Acquire, Step, DrainIsFree, TypeOK, BreakerInv, shared, history
  <2>2. CASE CancelTests(t)
    BY <2>2 DEF CancelTests, Step, AfterCancel, TypeOK, BreakerInv, shared, history
  <2>3. CASE CancelCalls(t)
    BY <2>3 DEF CancelCalls, Step, TypeOK, BreakerInv, shared, history
  <2>4. CASE CancelRaises(t)
    BY <2>4 DEF CancelRaises, Raises, Leave, Step, Unwinds, TypeOK, BreakerInv, shared, history
  <2>5. CASE CancelClears(t)
    BY <2>5 DEF CancelClears, Step, AfterCancel, TypeOK, BreakerInv, shared, history
  <2>6. CASE BudgetTests(t)
    BY <2>6 DEF BudgetTests, Step, TypeOK, BreakerInv, shared, history
  <2>7. CASE BudgetRaises(t)
    BY <2>7 DEF BudgetRaises, Raises, Leave, Step, Unwinds, TypeOK, BreakerInv, shared, history
  <2>8. CASE BudgetIsSpent(t)
    BY <2>8 DEF BudgetIsSpent, Returns, Leave, Step, Resumes, TypeOK, BreakerInv, shared, history
  <2>9. CASE BudgetIsLeft(t)
    BY <2>9 DEF BudgetIsLeft, Step, TypeOK, BreakerInv, shared, history
  <2>10. CASE FindsNothing(t)
    BY <2>10 DEF FindsNothing, Step, TypeOK, BreakerInv, shared, history
  <2>11. CASE Leaves(t)
    BY <2>11 DEF Leaves, Returns, Leave, Step, Resumes, TypeOK, BreakerInv, shared, history
  <2>12. CASE Slice(t)
    BY <2>12 DEF Slice, Step, TypeOK, BreakerInv, shared, history
  <2>13. CASE Sent(t)
    BY <2>13 DEF Sent, Step, TypeOK, BreakerInv, shared, history
  <2>14. CASE Widens(t)
    <3>1. pol' = AfterSent(pol, Len(batch[t]))
      BY <2>14 DEF Widens
    <3>2. AfterSent(pol, Len(batch[t])).failures = 0
      BY AfterSentType, LenProperties DEF TypeOK
    <3> QED
      BY <3>1, <3>2, CountAssumption DEF BreakerInv, BreakerOpens
  <2>15. CASE TooLargeForMany(t)
    <3>1. pol' = AfterHalving(pol, Len(batch[t]))
      BY <2>15 DEF TooLargeForMany
    <3>2. Len(batch[t]) \in Nat /\ Len(batch[t]) <= pol.batchSize /\ ~BreakerOpens(pol)
      BY <2>15, LenProperties DEF TooLargeForMany, Requeue, Step, TypeOK, SendInv
    <3>3. pol \in Policy /\ Len(batch[t]) <= FullWidth
      BY <3>2, PolicyFields, FullWidthType DEF TypeOK
    <3>4. pol'.failures = pol.failures
      BY <3>1, <3>2, <3>3, AfterHalvingType
    <3> QED
      BY <3>2, <3>4 DEF BreakerInv, BreakerOpens
  <2>16. CASE TooLargeForOne(t)
    BY <2>16 DEF TooLargeForOne, Step, TypeOK, BreakerInv, shared, history
  <2>17. CASE RestoresWidth(t)
    <3>1. pol' = AfterOversized(pol)
      BY <2>17 DEF RestoresWidth
    <3>2. AfterOversized(pol).failures = 0
      BY AfterOversizedType, LenProperties DEF TypeOK
    <3> QED
      BY <3>1, <3>2, CountAssumption DEF BreakerInv, BreakerOpens
  <2>18. CASE TooLargeRaises(t)
    <3>1. pol'.failures = pol.failures
      BY <2>18, RunEndsType DEF TooLargeRaises, TypeOK
    <3>2. ~BreakerOpens(pol)
      BY <2>18 DEF TooLargeRaises, Raises, Leave, Step, SendInv
    <3> QED
      BY <3>1, <3>2 DEF BreakerInv, BreakerOpens
  <2>19. CASE Refused(t)
    <3>1. pol' = AfterRefused(pol)
      BY <2>19 DEF Refused
    <3>2. AfterRefused(pol).failures = 0
      BY AfterRefusedType, LenProperties DEF TypeOK
    <3> QED
      BY <3>1, <3>2, CountAssumption DEF BreakerInv, BreakerOpens
  <2>20. CASE Busy(t)
    <3>1. BreakerOpens(pol') => pc'[t] = "trip"
      BY <2>20 DEF Busy, Step, TypeOK, BreakerOpens
    <3> QED
      BY <3>1 DEF BreakerInv
  <2>21. CASE ReportsStranded(t)
    BY <2>21 DEF ReportsStranded, Step, TypeOK, BreakerInv, shared, history
  <2>22. CASE StopsBatching(t)
    BY <2>22 DEF StopsBatching, Returns, Leave, Step, Resumes, TypeOK, BreakerInv, shared, history
  <2>23. CASE LateTests(t)
    BY <2>23 DEF LateTests, Step, TypeOK, BreakerInv, shared, history
  <2>24. CASE LateRaises(t)
    BY <2>24 DEF LateRaises, Raises, Leave, Step, Unwinds, TypeOK, BreakerInv, shared, history
  <2>25. CASE LateGivesUp(t)
    BY <2>25 DEF LateGivesUp, Returns, Leave, Step, Resumes, TypeOK, BreakerInv, shared, history
  <2>26. CASE LateSleeps(t)
    BY <2>26 DEF LateSleeps, Step, TypeOK, BreakerInv, shared, history
  <2>27. CASE Wakes(t)
    BY <2>27 DEF Wakes, Step, TypeOK, BreakerInv, shared, history
  <2> QED
    BY <1>3, <2>1, <2>2, <2>3, <2>4, <2>5, <2>6, <2>7, <2>8, <2>9, <2>10, <2>11, <2>12,
       <2>13, <2>14, <2>15, <2>16, <2>17, <2>18, <2>19, <2>20, <2>21, <2>22, <2>23, <2>24, <2>25, <2>26, <2>27 DEF Drains
<1>4. CASE Tick
  BY <1>4 DEF Tick, TypeOK, BreakerInv, shared, history
<1>5. CASE Quiescent
  BY <1>5 DEF Quiescent, vars, shared, local, history, TypeOK, BreakerInv, shared, history
<1> QED
  BY <1>1, <1>2, <1>3, <1>4, <1>5 DEF Next
-----------------------------------------------------------------------------
(* The theorems                                                            *)

LEMMA InitInv == Init => IInv
<1> SUFFICES ASSUME Init PROVE IInv
  OBVIOUS
<1>1. TypeOK
  <2>1. /\ queue \in Seq(Events)
        /\ Len(queue) <= MaxQueue
        /\ batch \in [Threads -> Seq(Events)]
    BY EmptySeq, QueueAssumption, WidthAssumption DEF Init
  <2>2. pol \in Policy /\ hook \in BOOLEAN
    BY InitialPolicyType, FlagAssumption DEF Init
  <2>3. pc \in [Threads -> Labels] /\ call \in [Threads -> {"none", "timer"} \cup Methods]
    BY DEF Init, Labels
  <2>4. wait \in [Threads -> 0..MaxRetryMs] /\ issued \in 0..MaxEvents
    BY IntervalAssumption, QueueAssumption DEF Init
  <2> QED
    BY <2>1, <2>2, <2>3, <2>4 DEF Init, TypeOK
<1>2. \A t \in Threads : pc[t] \in {"unused", "idle"}
  BY DEF Init
<1>3. ~BreakerOpens(pol)
  BY CountAssumption DEF Init, InitialPolicy, BreakerOpens
<1> QED
  BY <1>1, <1>2, <1>3 DEF IInv, LockInv, HeadInv, SendInv, BreakerInv, Draining

LEMMA NextInv == IInv /\ [Next]_vars => IInv'
<1> SUFFICES ASSUME IInv, [Next]_vars PROVE IInv'
  OBVIOUS
<1>1. CASE Next
  BY <1>1, LockStep, TypeStep, HeadStep, SendStep, BreakerStep DEF IInv
<1>2. CASE UNCHANGED vars
  BY <1>2 DEF IInv, TypeOK, LockInv, HeadInv, SendInv, BreakerInv, Draining,
              vars, shared, local, history
<1> QED
  BY <1>1, <1>2

(* The invariant holds in every state the buffer can reach.                *)
THEOREM Inductive == Spec => []IInv
BY InitInv, NextInv, PTL DEF Spec

(* Types: no width below one or above the full width, no count of failures *)
(* above the breaker's, no queue beyond max_queue, no wait above the       *)
(* ceiling.                                                                *)
THEOREM TypeCorrect == Spec => []TypeOK
<1>1. IInv => TypeOK
  BY DEF IInv
<1> QED
  BY <1>1, Inductive, PTL

(* Two callers never drain the same slice, and what a drainer deletes is   *)
(* what it sent, whoever enqueued, closed, flushed or raised meanwhile.    *)
THEOREM DrainsAreExclusive == Spec => []InFlightIsHead
<1>1. IInv => InFlightIsHead
  BY DEF IInv, LockInv, HeadInv, InFlightIsHead
<1> QED
  BY <1>1, Inductive, PTL

-----------------------------------------------------------------------------
(* Timers, and the sleeps of a close()                                     *)

NoCloser  == \A c \in Callers : "close" \notin Roles[c]
OneCloser == \A c, d \in Callers : "close" \in Roles[c] \cap Roles[d] => c = d

Cancels == {"cancel1", "cancel2", "cancel3"}

\* Where the owner of the drain lock is.
Held == Cancels \cup {"budget1", "budget2", "slice", "leave", "send", "widen", "restore",
                      "trip", "stop", "late1", "late2", "sleep"}

\* Where only a close() is, or one that has set a deadline.
OfClose == {"budget2", "late2", "clearDeadline", "unwind", "count", "halt", "unhook"}

\* Where a thread is that will come to drain, or to have a timer drain.
Coming == {"schedule", "arm", "acquire", "armed", "fired"}

(* The owner of the drain lock has not left flush.                         *)
HoldInv == \A t \in Threads : drainLock = t => pc[t] \in Held

(* A close() has its deadline until it is out of flush.                    *)
Budgeted(t) ==
    /\ call[t] = "close"
    /\ \/ pc[t] \in {"acquire", "clearDeadline", "unwind"} \cup (Held \ Cancels)
       \/ pc[t] \in Cancels /\ drainLock = t

CloserInv ==
    /\ HoldInv
    /\ \A c \in Callers : call[c] \in {"none"} \cup Roles[c]
    /\ \A t \in Timers : call[t] # "close"
    /\ \A t \in Threads : pc[t] \in {"clearDeadline", "unwind"} => call[t] = "close"
    /\ \A t \in Threads : Budgeted(t) => deadline # None
    /\ CloserNeverOversleeps

(* Where nobody closes, only the owner of the drain lock cancels timers;   *)
(* if one fires under its hands, that timer waits for the lock.  Whoever   *)
(* holds the lock and has not seen an empty queue goes on; otherwise       *)
(* somebody is coming.                                                     *)
PendingInv ==
    /\ deadline = None
    /\ \A t \in Threads : call[t] # "close" /\ pc[t] \notin OfClose
    /\ \A t \in Threads : pc[t] \in Cancels => drainLock = t
    /\ \A t \in Threads : pc[t] = "cancel2" /\ timerRef = None =>
           \E u \in Threads : pc[u] = "acquire"
    /\ queue # <<>> /\ ~stopped =>
           \E t \in Threads : pc[t] \in Coming \cup (Held \ {"leave"})

-----------------------------------------------------------------------------
(* What `_timer' names                                                     *)

\* Thread t, which is no timer that runs nor about to clear `_timer', acts
\* without regard to it.
Bypasses(t) ==
    /\ timerRef' = timerRef
    /\ \A u \in Threads \ {t} : pc'[u] = pc[u]
    /\ pc[t] \notin {"armed", "fired", "cancel3"}

(* `_timer' names what it named, which runs as it did.                     *)
LEMMA BypassesStep ==
    ASSUME TypeOK, TimerRefIsLive, NEW t \in Threads, Bypasses(t)
    PROVE  TimerRefIsLive'
<1>1. timerRef = None \/ timerRef \in Threads
  BY DEF TypeOK, Threads
<1> QED
  BY <1>1 DEF Bypasses, TimerRefIsLive

(* No step leaves `_timer' naming a timer that is through, if timers start.*)
LEMMA LiveStep ==
    ASSUME StartCanFail = FALSE, TypeOK, TimerRefIsLive, Next
    PROVE  TimerRefIsLive'
<1>1. ASSUME NEW c \in Callers, Starts(c) \/ Continues(c)
      PROVE  TimerRefIsLive'
  <2> c \in Threads
    BY DEF Threads
  <2>1. CASE Accept(c)
    <3>1. Bypasses(c)
      BY <2>1 DEF Accept, Calls, Step, Bypasses, shared, TypeOK
    <3> QED
      BY <3>1, BypassesStep
  <2>2. CASE TurnAway(c)
    <3>1. Bypasses(c)
      BY <2>2 DEF TurnAway, Calls, Step, Bypasses, shared, TypeOK
    <3> QED
      BY <3>1, BypassesStep
  <2>3. CASE BeginFlush(c)
    <3>1. Bypasses(c)
      BY <2>3 DEF BeginFlush, Calls, Step, Bypasses, shared, TypeOK
    <3> QED
      BY <3>1, BypassesStep
  <2>4. CASE BeginClose(c)
    <3>1. Bypasses(c)
      BY <2>4 DEF BeginClose, Calls, Step, Bypasses, shared, TypeOK
    <3> QED
      BY <3>1, BypassesStep
  <2>5. CASE ExitHook(c)
    <3>1. Bypasses(c)
      BY <2>5 DEF ExitHook, Calls, Step, Bypasses, shared, TypeOK
    <3> QED
      BY <3>1, BypassesStep
  <2>6. CASE Schedule(c)
    <3>1. Bypasses(c)
      BY <2>6 DEF Schedule, Step, Bypasses, shared, TypeOK
    <3> QED
      BY <3>1, BypassesStep
  <2>7. CASE ClearsDeadline(c)
    <3>1. Bypasses(c)
      BY <2>7 DEF ClearsDeadline, Step, Bypasses, shared, TypeOK
    <3> QED
      BY <3>1, BypassesStep
  <2>8. CASE ClearsAndRaises(c)
    <3>1. Bypasses(c)
      BY <2>8 DEF ClearsAndRaises, Step, Bypasses, shared, TypeOK
    <3> QED
      BY <3>1, BypassesStep
  <2>9. CASE ReportsUnsent(c)
    <3>1. Bypasses(c)
      BY <2>9 DEF ReportsUnsent, Step, Bypasses, shared, TypeOK
    <3> QED
      BY <3>1, BypassesStep
  <2>10. CASE Halts(c)
    <3>1. Bypasses(c)
      BY <2>10 DEF Halts, Step, Bypasses, shared, TypeOK
    <3> QED
      BY <3>1, BypassesStep
  <2>11. CASE Unhooks(c)
    <3>1. Bypasses(c)
      BY <2>11 DEF Unhooks, Step, Bypasses, shared, TypeOK
    <3> QED
      BY <3>1, BypassesStep
  <2>12. CASE Catches(c)
    <3>1. Bypasses(c)
      BY <2>12 DEF Catches, Step, Bypasses, shared, TypeOK
    <3> QED
      BY <3>1, BypassesStep
  <2>13. ASSUME NEW t \in Timers, Arm(c, t)
        PROVE  TimerRefIsLive'
    <3> t \in Threads
      BY DEF Threads
    <3> QED
      BY <2>13 DEF Arm, TypeOK, TimerRefIsLive
  <2>14. ASSUME NEW t \in Timers, StartFails(c, t)
        PROVE  TimerRefIsLive'
    <3> t \in Threads
      BY DEF Threads
    <3> QED
      BY <2>14 DEF StartFails
  <2> QED
    BY <1>1, <2>1, <2>2, <2>3, <2>4, <2>5, <2>6, <2>7, <2>8, <2>9, <2>10, <2>11, <2>12,
       <2>13, <2>14 DEF Starts, Continues
<1>2. ASSUME NEW t \in Timers, Fire(t) \/ OnTimer(t)
      PROVE  TimerRefIsLive'
  <2> t \in Threads
    BY DEF Threads
  <2>1. CASE Fire(t)
    BY <2>1 DEF Fire, Step, shared, TypeOK, TimerRefIsLive
  <2>2. CASE OnTimer(t)
    BY <2>2 DEF OnTimer, TimerRefIsLive
  <2> QED
    BY <1>2, <2>1, <2>2
<1>3. ASSUME NEW t \in Threads, Drains(t)
      PROVE  TimerRefIsLive'
  <2>1. CASE Acquire(t)
    <3>1. Bypasses(t)
      BY <2>1 DEF Acquire, Step, DrainIsFree, Bypasses, shared, TypeOK
    <3> QED
      BY <3>1, BypassesStep
  <2>2. CASE CancelTests(t)
    <3>1. Bypasses(t)
      BY <2>2 DEF CancelTests, Step, AfterCancel, Bypasses, shared, TypeOK
    <3> QED
      BY <3>1, BypassesStep
  <2>3. CASE CancelCalls(t)
    BY <2>3 DEF CancelCalls, TimerRefIsLive
  <2>4. CASE CancelRaises(t)
    <3>1. Bypasses(t)
      BY <2>4 DEF CancelRaises, Raises, Leave, Step, Unwinds, Bypasses, shared, TypeOK
    <3> QED
      BY <3>1, BypassesStep
  <2>5. CASE CancelClears(t)
    BY <2>5 DEF CancelClears, TimerRefIsLive
  <2>6. CASE BudgetTests(t)
    <3>1. Bypasses(t)
      BY <2>6 DEF BudgetTests, Step, Bypasses, shared, TypeOK
    <3> QED
      BY <3>1, BypassesStep
  <2>7. CASE BudgetRaises(t)
    <3>1. Bypasses(t)
      BY <2>7 DEF BudgetRaises, Raises, Leave, Step, Unwinds, Bypasses, shared, TypeOK
    <3> QED
      BY <3>1, BypassesStep
  <2>8. CASE BudgetIsSpent(t)
    <3>1. Bypasses(t)
      BY <2>8 DEF BudgetIsSpent, Returns, Leave, Step, Resumes, Bypasses, shared, TypeOK
    <3> QED
      BY <3>1, BypassesStep
  <2>9. CASE BudgetIsLeft(t)
    <3>1. Bypasses(t)
      BY <2>9 DEF BudgetIsLeft, Step, Bypasses, shared, TypeOK
    <3> QED
      BY <3>1, BypassesStep
  <2>10. CASE FindsNothing(t)
    <3>1. Bypasses(t)
      BY <2>10 DEF FindsNothing, Step, Bypasses, shared, TypeOK
    <3> QED
      BY <3>1, BypassesStep
  <2>11. CASE Leaves(t)
    <3>1. Bypasses(t)
      BY <2>11 DEF Leaves, Returns, Leave, Step, Resumes, Bypasses, shared, TypeOK
    <3> QED
      BY <3>1, BypassesStep
  <2>12. CASE Slice(t)
    <3>1. Bypasses(t)
      BY <2>12 DEF Slice, Step, Bypasses, shared, TypeOK
    <3> QED
      BY <3>1, BypassesStep
  <2>13. CASE Sent(t)
    <3>1. Bypasses(t)
      BY <2>13 DEF Sent, Step, Bypasses, shared, TypeOK
    <3> QED
      BY <3>1, BypassesStep
  <2>14. CASE Widens(t)
    <3>1. Bypasses(t)
      BY <2>14 DEF Widens, Requeue, Step, Bypasses, shared, TypeOK
    <3> QED
      BY <3>1, BypassesStep
  <2>15. CASE TooLargeForMany(t)
    <3>1. Bypasses(t)
      BY <2>15 DEF TooLargeForMany, Requeue, Step, Bypasses, shared, TypeOK
    <3> QED
      BY <3>1, BypassesStep
  <2>16. CASE TooLargeForOne(t)
    <3>1. Bypasses(t)
      BY <2>16 DEF TooLargeForOne, Step, Bypasses, shared, TypeOK
    <3> QED
      BY <3>1, BypassesStep
  <2>17. CASE RestoresWidth(t)
    <3>1. Bypasses(t)
      BY <2>17 DEF RestoresWidth, Requeue, Step, Bypasses, shared, TypeOK
    <3> QED
      BY <3>1, BypassesStep
  <2>18. CASE TooLargeRaises(t)
    <3>1. Bypasses(t)
      BY <2>18 DEF TooLargeRaises, Raises, Leave, Step, Unwinds, Bypasses, shared, TypeOK
    <3> QED
      BY <3>1, BypassesStep
  <2>19. CASE Refused(t)
    <3>1. Bypasses(t)
      BY <2>19 DEF Refused, Requeue, Step, Bypasses, shared, TypeOK
    <3> QED
      BY <3>1, BypassesStep
  <2>20. CASE Busy(t)
    <3>1. Bypasses(t)
      BY <2>20 DEF Busy, Step, Bypasses, shared, TypeOK
    <3> QED
      BY <3>1, BypassesStep
  <2>21. CASE ReportsStranded(t)
    <3>1. Bypasses(t)
      BY <2>21 DEF ReportsStranded, Step, Bypasses, shared, TypeOK
    <3> QED
      BY <3>1, BypassesStep
  <2>22. CASE StopsBatching(t)
    <3>1. Bypasses(t)
      BY <2>22 DEF StopsBatching, Returns, Leave, Step, Resumes, Bypasses, shared, TypeOK
    <3> QED
      BY <3>1, BypassesStep
  <2>23. CASE LateTests(t)
    <3>1. Bypasses(t)
      BY <2>23 DEF LateTests, Step, Bypasses, shared, TypeOK
    <3> QED
      BY <3>1, BypassesStep
  <2>24. CASE LateRaises(t)
    <3>1. Bypasses(t)
      BY <2>24 DEF LateRaises, Raises, Leave, Step, Unwinds, Bypasses, shared, TypeOK
    <3> QED
      BY <3>1, BypassesStep
  <2>25. CASE LateGivesUp(t)
    <3>1. Bypasses(t)
      BY <2>25 DEF LateGivesUp, Returns, Leave, Step, Resumes, Bypasses, shared, TypeOK
    <3> QED
      BY <3>1, BypassesStep
  <2>26. CASE LateSleeps(t)
    <3>1. Bypasses(t)
      BY <2>26 DEF LateSleeps, Step, Bypasses, shared, TypeOK
    <3> QED
      BY <3>1, BypassesStep
  <2>27. CASE Wakes(t)
    <3>1. Bypasses(t)
      BY <2>27 DEF Wakes, Step, Bypasses, shared, TypeOK
    <3> QED
      BY <3>1, BypassesStep
  <2> QED
    BY <1>3, <2>1, <2>2, <2>3, <2>4, <2>5, <2>6, <2>7, <2>8, <2>9, <2>10, <2>11, <2>12,
       <2>13, <2>14, <2>15, <2>16, <2>17, <2>18, <2>19, <2>20, <2>21, <2>22, <2>23, <2>24,
       <2>25, <2>26, <2>27 DEF Drains
<1>4. CASE Tick
  BY <1>4 DEF Tick, TimerRefIsLive
<1>5. CASE Quiescent
  BY <1>5 DEF Quiescent, vars, shared, local, TimerRefIsLive
<1> QED
  BY <1>1, <1>2, <1>3, <1>4, <1>5 DEF Next

-----------------------------------------------------------------------------
(* What becomes of queued events where nobody closes                       *)

\* Thread t goes on, or finds nothing to do, or was not what the others
\* relied on; it is not in a close() and does not touch a timer.
Passes(t) ==
    /\ UNCHANGED <<deadline, timerRef>>
    /\ \A u \in Threads \ {t} : /\ pc'[u] = pc[u] /\ call'[u] = call[u]
                                /\ drainLock' = u <=> drainLock = u
    /\ call'[t] # "close" /\ pc'[t] \notin OfClose
    /\ pc'[t] \in Cancels => drainLock' = t
    /\ pc'[t] = "cancel2" => timerRef # None
    /\ pc[t] = "acquire" => drainLock = None
    /\ \/ pc'[t] \in Coming \cup (Held \ {"leave"})
       \/ queue' = <<>> \/ stopped'
       \/ pc[t] \notin Coming \cup (Held \ {"leave"}) /\ UNCHANGED <<queue, stopped>>

(* So somebody still has the events in hand.                               *)
LEMMA PassesStep ==
    ASSUME PendingInv, NEW t \in Threads, Passes(t)
    PROVE  PendingInv'
<1>1. \A u \in Threads : call'[u] # "close" /\ pc'[u] \notin OfClose
  BY DEF PendingInv, Passes
<1>2. \A u \in Threads : pc'[u] \in Cancels => drainLock' = u
  BY DEF PendingInv, Passes
<1>3. ASSUME NEW u \in Threads, pc'[u] = "cancel2", timerRef' = None
      PROVE  \E v \in Threads : pc'[v] = "acquire"
  <2>1. u # t /\ pc[u] = "cancel2" /\ timerRef = None
    BY <1>3 DEF Passes
  <2>2. drainLock = u
    BY <2>1 DEF PendingInv, Cancels
  <2>3. pc[t] # "acquire"
    BY <2>2, ThreadAssumption DEF Passes
  <2> QED
    BY <2>1, <2>3 DEF PendingInv, Passes
<1>4. ASSUME queue' # <<>>, ~stopped'
      PROVE  \E u \in Threads : pc'[u] \in Coming \cup (Held \ {"leave"})
  <2>1. CASE pc'[t] \in Coming \cup (Held \ {"leave"})
    BY <2>1
  <2>2. CASE pc[t] \notin Coming \cup (Held \ {"leave"}) /\ UNCHANGED <<queue, stopped>>
    BY <1>4, <2>2 DEF PendingInv, Passes
  <2> QED
    BY <1>4, <2>1, <2>2 DEF Passes
<1> QED
  BY <1>1, <1>2, <1>3, <1>4 DEF PendingInv, Passes

(* No step leaves queued events to nobody, where nobody closes, every drop *)
(* can be logged and timers start.                                         *)
LEMMA PendingStep ==
    ASSUME NoCloser, LoggerTakesName, StartCanFail = FALSE, TypeOK, LockInv, TimerRefIsLive,
       PendingInv, Next
    PROVE  PendingInv'
<1>1. ASSUME NEW c \in Callers, Starts(c) \/ Continues(c)
      PROVE  PendingInv'
  <2> c \in Threads
    BY DEF Threads
  <2>1. CASE Accept(c)
    <3>1. Passes(c)
      BY <2>1 DEF Accept, Calls, Step, Passes, PendingInv, OfClose, Coming, Held, Cancels,
         LockInv, Draining, shared, history, TypeOK
    <3> QED
      BY <3>1, PassesStep
  <2>2. CASE TurnAway(c)
    <3>1. Passes(c)
      BY <2>2 DEF TurnAway, Calls, Step, Passes, PendingInv, OfClose, Coming, Held, Cancels,
         LockInv, Draining, shared, history, TypeOK
    <3> QED
      BY <3>1, PassesStep
  <2>3. CASE BeginFlush(c)
    <3>1. Passes(c)
      BY <2>3 DEF BeginFlush, Calls, Step, Passes, PendingInv, OfClose, Coming, Held,
         Cancels, LockInv, Draining, shared, history, TypeOK
    <3> QED
      BY <3>1, PassesStep
  <2>4. CASE BeginClose(c)
    BY <2>4 DEF BeginClose, Calls, NoCloser
  <2>5. CASE ExitHook(c)
    <3>1. Passes(c)
      BY <2>5 DEF ExitHook, Calls, Step, Passes, PendingInv, OfClose, Coming, Held, Cancels,
         LockInv, Draining, shared, history, TypeOK
    <3> QED
      BY <3>1, PassesStep
  <2>6. CASE Schedule(c)
    <3>1. CASE ~HasTimer
      <4>1. Passes(c)
        BY <2>6, <3>1 DEF Schedule, Step, Passes, PendingInv, OfClose, Coming, Held,
           Cancels, shared, TypeOK
      <4> QED
        BY <4>1, PassesStep
    <3>2. CASE HasTimer
      <4>1. /\ pc[c] = "schedule" /\ pc'[c] = "idle" /\ call'[c] = "none"
            /\ \A u \in Threads \ {c} : pc'[u] = pc[u] /\ call'[u] = call[u]
            /\ UNCHANGED shared
        BY <2>6, <3>2 DEF Schedule, Step, TypeOK
      <4>2. ~stopped => /\ timerRef \in Threads
                        /\ \/ pc[timerRef] \in {"armed", "fired"}
                           \/ \E u \in Threads : pc[u] = "cancel3"
        BY <3>2 DEF HasTimer, TimerRefIsLive, TypeOK, Threads
      <4>3. ~stopped => \E u \in Threads : pc'[u] \in Coming \cup (Held \ {"leave"})
        BY <4>1, <4>2 DEF Coming, Held, Cancels
      <4>4. \A u \in Threads : pc'[u] = "acquire" <=> pc[u] = "acquire"
        BY <4>1
      <4> QED
        BY <4>1, <4>3, <4>4 DEF PendingInv, shared, OfClose, Cancels
    <3> QED
      BY <3>1, <3>2
  <2>7. CASE ClearsDeadline(c)
    BY <2>7 DEF ClearsDeadline, Step, PendingInv, OfClose
  <2>8. CASE ClearsAndRaises(c)
    BY <2>8 DEF ClearsAndRaises, Step, PendingInv, OfClose
  <2>9. CASE ReportsUnsent(c)
    BY <2>9 DEF ReportsUnsent, Step, PendingInv, OfClose
  <2>10. CASE Halts(c)
    BY <2>10 DEF Halts, Step, PendingInv, OfClose
  <2>11. CASE Unhooks(c)
    BY <2>11 DEF Unhooks, Step, PendingInv, OfClose
  <2>12. CASE Catches(c)
    <3>1. Passes(c)
      BY <2>12 DEF Catches, Step, Passes, PendingInv, OfClose, Coming, Held, Cancels,
         LockInv, Draining, shared, history, TypeOK
    <3> QED
      BY <3>1, PassesStep
  <2>13. ASSUME NEW t \in Timers, Arm(c, t)
        PROVE  PendingInv'
    <3> t \in Threads
      BY DEF Threads
    <3>1. /\ pc'[t] = "armed" /\ pc'[c] = "idle" /\ pc[t] = "unused" /\ pc[c] = "arm" /\ call'[c] = "none"
          /\ \A u \in Threads \ {c, t} : pc'[u] = pc[u]
          /\ \A u \in Threads \ {c} : call'[u] = call[u]
          /\ timerRef' = t /\ UNCHANGED <<deadline, drainLock>>
      BY <2>13 DEF Arm, TypeOK
    <3>2. t # None
      BY ThreadAssumption
    <3> QED
      BY <3>1, <3>2 DEF PendingInv, OfClose, Cancels, Coming
  <2>14. ASSUME NEW t \in Timers, StartFails(c, t)
        PROVE  PendingInv'
    <3> t \in Threads
      BY DEF Threads
    <3> QED
      BY <2>14 DEF StartFails
  <2> QED
    BY <1>1, <2>1, <2>2, <2>3, <2>4, <2>5, <2>6, <2>7, <2>8, <2>9, <2>10, <2>11, <2>12,
       <2>13, <2>14 DEF Starts, Continues
<1>2. ASSUME NEW t \in Timers, Fire(t) \/ OnTimer(t)
      PROVE  PendingInv'
  <2> t \in Threads
    BY DEF Threads
  <2>1. CASE Fire(t)
    <3>1. /\ pc[t] = "armed" /\ pc'[t] = "fired" /\ \A u \in Threads \ {t} : pc'[u] = pc[u]
          /\ UNCHANGED <<shared, call>>
      BY <2>1 DEF Fire, Step, TypeOK
    <3> QED
      BY <3>1 DEF PendingInv, OfClose, Cancels, Coming, shared
  <2>2. CASE OnTimer(t)
    <3>1. /\ pc[t] = "fired" /\ pc'[t] = "acquire" /\ \A u \in Threads \ {t} : pc'[u] = pc[u]
          /\ call'[t] = "timer" /\ \A u \in Threads \ {t} : call'[u] = call[u]
          /\ UNCHANGED <<deadline, drainLock>>
      BY <2>2 DEF OnTimer, Step, TypeOK
    <3> QED
      BY <3>1 DEF PendingInv, OfClose, Cancels, Coming
  <2> QED
    BY <1>2, <2>1, <2>2
<1>3. ASSUME NEW t \in Threads, Drains(t)
      PROVE  PendingInv'
  <2>1. CASE Acquire(t)
    <3>1. Passes(t)
      BY <2>1, ThreadAssumption DEF Acquire, Step, DrainIsFree, Passes, PendingInv, OfClose,
         Coming, Held, Cancels, LockInv, Draining, shared, history, TypeOK
    <3> QED
      BY <3>1, PassesStep
  <2>2. CASE CancelTests(t)
    <3>1. Passes(t)
      BY <2>2 DEF CancelTests, Step, AfterCancel, Passes, PendingInv, OfClose, Coming, Held,
         Cancels, LockInv, Draining, shared, history, TypeOK
    <3> QED
      BY <3>1, PassesStep
  <2>3. CASE CancelCalls(t)
    <3>1. /\ pc[t] = "cancel2" /\ pc'[t] = "cancel3"
          /\ \A u \in Threads \ {t} : pc'[u] = pc[u] \/ pc'[u] = "unused"
          /\ timerRef # None /\ UNCHANGED <<shared, call>>
      BY <2>3 DEF CancelCalls, TypeOK
    <3> QED
      BY <3>1 DEF PendingInv, OfClose, Cancels, Held, shared
  <2>4. CASE CancelRaises(t)
    <3>1. /\ pc[t] = "cancel2" /\ timerRef = None /\ drainLock = t /\ drainLock' = None
          /\ UNCHANGED <<queue, stopped, deadline, timerRef>>
      BY <2>4 DEF CancelRaises, Raises, Leave, Step, PendingInv, Cancels
    <3>2. /\ pc'[t] \in {"unused", "exited", "raised"} /\ call'[t] # "close"
          /\ \A u \in Threads \ {t} : pc'[u] = pc[u] /\ call'[u] = call[u]
      BY <2>4, <3>1 DEF CancelRaises, Raises, Leave, Step, Unwinds, PendingInv, TypeOK
    <3>3. PICK u \in Threads : pc[u] = "acquire"
      BY <3>1 DEF PendingInv
    <3>4. \A v \in Threads \ {t} : pc[v] \notin Cancels
      BY <3>1 DEF PendingInv
    <3> QED
      BY <3>1, <3>2, <3>3, <3>4 DEF PendingInv, OfClose, Cancels, Coming
  <2>5. CASE CancelClears(t)
    <3>1. /\ pc[t] = "cancel3" /\ drainLock = t
          /\ UNCHANGED <<queue, stopped, deadline, drainLock, call>>
      BY <2>5 DEF CancelClears, Step, PendingInv, Cancels
    <3>2. pc'[t] = "budget1" /\ \A u \in Threads \ {t} : pc'[u] = pc[u]
      BY <2>5, <3>1 DEF CancelClears, Step, AfterCancel, TypeOK
    <3>3. \A v \in Threads \ {t} : pc[v] \notin Cancels
      BY <3>1 DEF PendingInv
    <3> QED
      BY <3>1, <3>2, <3>3 DEF PendingInv, OfClose, Cancels, Held
  <2>6. CASE BudgetTests(t)
    <3>1. Passes(t)
      BY <2>6 DEF BudgetTests, Step, Passes, PendingInv, OfClose, Coming, Held, Cancels,
         LockInv, Draining, shared, history, TypeOK
    <3> QED
      BY <3>1, PassesStep
  <2>7. CASE BudgetRaises(t)
    BY <2>7 DEF BudgetRaises, Raises, Leave, Step, Unwinds, PendingInv, OfClose
  <2>8. CASE BudgetIsSpent(t)
    BY <2>8 DEF BudgetIsSpent, Returns, Leave, Step, Resumes, PendingInv, OfClose
  <2>9. CASE BudgetIsLeft(t)
    BY <2>9 DEF BudgetIsLeft, Step, PendingInv, OfClose
  <2>10. CASE FindsNothing(t)
    <3>1. Passes(t)
      BY <2>10 DEF FindsNothing, Step, Passes, PendingInv, OfClose, Coming, Held, Cancels,
         LockInv, Draining, shared, history, TypeOK
    <3> QED
      BY <3>1, PassesStep
  <2>11. CASE Leaves(t)
    <3>1. Passes(t)
      BY <2>11, ThreadAssumption DEF Leaves, Returns, Leave, Step, Resumes, Passes,
         PendingInv, OfClose, Coming, Held, Cancels, LockInv, Draining, shared, history,
         TypeOK
    <3> QED
      BY <3>1, PassesStep
  <2>12. CASE Slice(t)
    <3>1. Passes(t)
      BY <2>12 DEF Slice, Step, Passes, PendingInv, OfClose, Coming, Held, Cancels, LockInv,
         Draining, shared, history, TypeOK
    <3> QED
      BY <3>1, PassesStep
  <2>13. CASE Sent(t)
    <3>1. Passes(t)
      BY <2>13 DEF Sent, Step, Passes, PendingInv, OfClose, Coming, Held, Cancels, LockInv,
         Draining, shared, history, TypeOK
    <3> QED
      BY <3>1, PassesStep
  <2>14. CASE Widens(t)
    <3>1. Passes(t)
      BY <2>14 DEF Widens, Requeue, Step, Passes, PendingInv, OfClose, Coming, Held,
         Cancels, LockInv, Draining, shared, history, TypeOK
    <3> QED
      BY <3>1, PassesStep
  <2>15. CASE TooLargeForMany(t)
    <3>1. Passes(t)
      BY <2>15 DEF TooLargeForMany, Requeue, Step, Passes, PendingInv, OfClose, Coming,
         Held, Cancels, LockInv, Draining, shared, history, TypeOK
    <3> QED
      BY <3>1, PassesStep
  <2>16. CASE TooLargeForOne(t)
    <3>1. Passes(t)
      BY <2>16 DEF TooLargeForOne, Step, Passes, PendingInv, OfClose, Coming, Held, Cancels,
         LockInv, Draining, shared, history, TypeOK
    <3> QED
      BY <3>1, PassesStep
  <2>17. CASE RestoresWidth(t)
    <3>1. Passes(t)
      BY <2>17 DEF RestoresWidth, Requeue, Step, Passes, PendingInv, OfClose, Coming, Held,
         Cancels, LockInv, Draining, shared, history, TypeOK
    <3> QED
      BY <3>1, PassesStep
  <2>18. CASE TooLargeRaises(t)
    BY <2>18 DEF TooLargeRaises
  <2>19. CASE Refused(t)
    <3>1. Passes(t)
      BY <2>19 DEF Refused, Requeue, Step, Passes, PendingInv, OfClose, Coming, Held,
         Cancels, LockInv, Draining, shared, history, TypeOK
    <3> QED
      BY <3>1, PassesStep
  <2>20. CASE Busy(t)
    <3>1. Passes(t)
      BY <2>20 DEF Busy, Step, Passes, PendingInv, OfClose, Coming, Held, Cancels, LockInv,
         Draining, shared, history, TypeOK
    <3> QED
      BY <3>1, PassesStep
  <2>21. CASE ReportsStranded(t)
    <3>1. Passes(t)
      BY <2>21 DEF ReportsStranded, Step, Passes, PendingInv, OfClose, Coming, Held,
         Cancels, LockInv, Draining, shared, history, TypeOK
    <3> QED
      BY <3>1, PassesStep
  <2>22. CASE StopsBatching(t)
    <3>1. Passes(t)
      BY <2>22, ThreadAssumption DEF StopsBatching, Returns, Leave, Step, Resumes, Passes,
         PendingInv, OfClose, Coming, Held, Cancels, LockInv, Draining, shared, history,
         TypeOK
    <3> QED
      BY <3>1, PassesStep
  <2>23. CASE LateTests(t)
    <3>1. Passes(t)
      BY <2>23 DEF LateTests, Step, Passes, PendingInv, OfClose, Coming, Held, Cancels,
         LockInv, Draining, shared, history, TypeOK
    <3> QED
      BY <3>1, PassesStep
  <2>24. CASE LateRaises(t)
    BY <2>24 DEF LateRaises, Raises, Leave, Step, Unwinds, PendingInv, OfClose
  <2>25. CASE LateGivesUp(t)
    BY <2>25 DEF LateGivesUp, Returns, Leave, Step, Resumes, PendingInv, OfClose
  <2>26. CASE LateSleeps(t)
    BY <2>26 DEF LateSleeps, Step, PendingInv, OfClose
  <2>27. CASE Wakes(t)
    <3>1. Passes(t)
      BY <2>27 DEF Wakes, Step, Passes, PendingInv, OfClose, Coming, Held, Cancels, LockInv,
         Draining, shared, history, TypeOK
    <3> QED
      BY <3>1, PassesStep
  <2> QED
    BY <1>3, <2>1, <2>2, <2>3, <2>4, <2>5, <2>6, <2>7, <2>8, <2>9, <2>10, <2>11, <2>12,
       <2>13, <2>14, <2>15, <2>16, <2>17, <2>18, <2>19, <2>20, <2>21, <2>22, <2>23, <2>24,
       <2>25, <2>26, <2>27 DEF Drains
<1>4. CASE Tick
  BY <1>4 DEF Tick, PendingInv, OfClose, Cancels, Coming, Held
<1>5. CASE Quiescent
  BY <1>5 DEF Quiescent, vars, shared, local, PendingInv
<1> QED
  BY <1>1, <1>2, <1>3, <1>4, <1>5 DEF Next

-----------------------------------------------------------------------------
(* How long the drainer of a close() sleeps                                *)

(* With one closer, who closes closes alone.                               *)
LEMMA OthersDoNotClose ==
    ASSUME OneCloser, CloserInv, NEW c \in Callers, "close" \in Roles[c]
    PROVE  \A d \in Callers \ {c} : call[d] # "close"
BY DEF OneCloser, CloserInv

\* Thread t begins no close() and no sleep of one, and has what deadline a
\* close() it is in had.
Within(t) ==
    /\ deadline' = deadline
    /\ \A u \in Threads \ {t} : /\ pc'[u] = pc[u] /\ call'[u] = call[u] /\ wait'[u] = wait[u]
                                /\ drainLock' = u <=> drainLock = u
    /\ drainLock' = t => pc'[t] \in Held
    /\ t \in Callers => call'[t] \in {"none"} \cup Roles[t]
    /\ t \in Timers => call'[t] # "close"
    /\ pc'[t] \in {"clearDeadline", "unwind"} => call'[t] = "close"
    /\ Budgeted(t)' => Budgeted(t)
    /\ call'[t] = "close" => pc'[t] # "sleep"

(* So every close() that drains keeps its deadline.                        *)
LEMMA WithinStep ==
    ASSUME CloserInv, NEW t \in Threads, Within(t)
    PROVE  CloserInv'
<1>1. HoldInv'
  BY DEF CloserInv, HoldInv, Within
<1>2. \A u \in Threads \ {t} : Budgeted(u)' => Budgeted(u)
  BY DEF Budgeted, Within
<1>3. \A u \in Threads : Budgeted(u)' => deadline' # None
  BY <1>2 DEF CloserInv, Within
<1>4. CloserNeverOversleeps'
  BY DEF CloserInv, CloserNeverOversleeps, Within, Threads
<1>5. \A c \in Callers : call'[c] \in {"none"} \cup Roles[c]
  BY DEF CloserInv, Within, Threads
<1> QED
  BY <1>1, <1>3, <1>4, <1>5 DEF CloserInv, Within, Threads

(* A millisecond takes as much from the sleep as from the budget.          *)
LEMMA TickKeepsBudget ==
    ASSUME TypeOK, CloserInv, Tick
    PROVE  CloserInv'
<1>1. /\ UNCHANGED <<drainLock, pc, call>>
      /\ deadline' = IF deadline = None THEN None ELSE Passing(deadline)
      /\ \A t \in Threads : wait'[t] = IF pc[t] = "sleep" THEN Passing(wait[t]) ELSE wait[t]
  BY DEF Tick
<1>2. deadline # None => deadline' # None /\ deadline \in Nat /\ deadline' = Passing(deadline)
  BY <1>1, QueueAssumption DEF TypeOK, Passing, Greater
<1>3. ASSUME NEW c \in Callers, pc[c] = "sleep", call[c] = "close"
      PROVE  deadline' # None /\ wait'[c] < Greater(1, deadline')
  <2>1. deadline # None /\ wait[c] < Greater(1, deadline) /\ wait'[c] = Passing(wait[c])
    BY <1>1, <1>3 DEF CloserInv, CloserNeverOversleeps, Threads
  <2>2. wait[c] \in Nat
    BY IntervalAssumption DEF TypeOK, Threads
  <2> QED
    BY <1>2, <2>1, <2>2 DEF Passing, Greater
<1>4. CloserNeverOversleeps'
  BY <1>1, <1>3 DEF CloserNeverOversleeps
<1>5. HoldInv'
  BY <1>1 DEF CloserInv, HoldInv
<1>6. \A t \in Threads : Budgeted(t)' => deadline' # None
  BY <1>1, <1>2 DEF CloserInv, Budgeted
<1> QED
  BY <1>1, <1>4, <1>5, <1>6 DEF CloserInv

(* No step lets a close() that drains sleep longer than its budget.        *)
LEMMA CloserStep ==
    ASSUME OneCloser, TypeOK, LockInv, CloserInv, Next
    PROVE  CloserInv'
<1>1. ASSUME NEW c \in Callers, Starts(c) \/ Continues(c)
      PROVE  CloserInv'
  <2> c \in Threads
    BY DEF Threads
  <2>1. CASE Accept(c)
    <3>1. Within(c)
      BY <2>1 DEF Accept, Calls, Step, Within, CloserInv, HoldInv, Budgeted, Held, Cancels,
         LockInv, Draining, shared, history, TypeOK
    <3> QED
      BY <3>1, WithinStep
  <2>2. CASE TurnAway(c)
    <3>1. Within(c)
      BY <2>2 DEF TurnAway, Calls, Step, Within, CloserInv, HoldInv, Budgeted, Held,
         Cancels, LockInv, Draining, shared, history, TypeOK
    <3> QED
      BY <3>1, WithinStep
  <2>3. CASE BeginFlush(c)
    <3>1. Within(c)
      BY <2>3 DEF BeginFlush, Calls, Step, Within, CloserInv, HoldInv, Budgeted, Held,
         Cancels, LockInv, Draining, shared, history, TypeOK
    <3> QED
      BY <3>1, WithinStep
  <2>4. CASE BeginClose(c)
    <3>1. /\ "close" \in Roles[c] /\ pc[c] = "idle" /\ pc'[c] = "acquire" /\ call'[c] = "close"
          /\ \A u \in Threads \ {c} : pc'[u] = pc[u] /\ call'[u] = call[u]
          /\ deadline' = CloseBudget /\ UNCHANGED <<drainLock, wait>>
      BY <2>4 DEF BeginClose, Calls, Step, TypeOK
    <3>2. CloseBudget \in Nat /\ None \notin Nat
      BY QueueAssumption
    <3>3. \A d \in Callers \ {c} : call'[d] # "close"
      BY <3>1, OthersDoNotClose, ThreadAssumption DEF Threads
    <3> QED
      BY <3>1, <3>2, <3>3, ThreadAssumption
         DEF CloserInv, HoldInv, Budgeted, Held, Cancels, CloserNeverOversleeps, Threads
  <2>5. CASE ExitHook(c)
    <3>1. Within(c)
      BY <2>5 DEF ExitHook, Calls, Step, Within, CloserInv, HoldInv, Budgeted, Held,
         Cancels, LockInv, Draining, shared, history, TypeOK
    <3> QED
      BY <3>1, WithinStep
  <2>6. CASE Schedule(c)
    <3>1. Within(c)
      BY <2>6 DEF Schedule, Step, Within, CloserInv, HoldInv, Budgeted, Held, Cancels,
         LockInv, Draining, shared, history, TypeOK
    <3> QED
      BY <3>1, WithinStep
  <2>7. CASE ClearsDeadline(c)
    <3>1. /\ pc[c] = "clearDeadline" /\ pc'[c] = "count" /\ call[c] = "close"
          /\ \A u \in Threads \ {c} : pc'[u] = pc[u]
          /\ UNCHANGED <<drainLock, wait, call>>
      BY <2>7 DEF ClearsDeadline, Step, TypeOK, CloserInv
    <3>2. "close" \in Roles[c] /\ drainLock # c
      BY <3>1 DEF CloserInv, HoldInv, Held, Cancels
    <3>3. \A d \in Callers \ {c} : call'[d] # "close"
      BY <3>1, <3>2, OthersDoNotClose
    <3> QED
      BY <3>1, <3>2, <3>3
         DEF CloserInv, HoldInv, Budgeted, Held, Cancels, CloserNeverOversleeps, Threads
  <2>8. CASE ClearsAndRaises(c)
    <3>1. /\ pc[c] = "unwind" /\ pc'[c] = "raised" /\ call[c] = "close"
          /\ \A u \in Threads \ {c} : pc'[u] = pc[u]
          /\ UNCHANGED <<drainLock, wait, call>>
      BY <2>8 DEF ClearsAndRaises, Step, TypeOK, CloserInv
    <3>2. "close" \in Roles[c] /\ drainLock # c
      BY <3>1 DEF CloserInv, HoldInv, Held, Cancels
    <3>3. \A d \in Callers \ {c} : call'[d] # "close"
      BY <3>1, <3>2, OthersDoNotClose
    <3> QED
      BY <3>1, <3>2, <3>3
         DEF CloserInv, HoldInv, Budgeted, Held, Cancels, CloserNeverOversleeps, Threads
  <2>9. CASE ReportsUnsent(c)
    <3>1. Within(c)
      BY <2>9 DEF ReportsUnsent, Step, Within, CloserInv, HoldInv, Budgeted, Held, Cancels,
         LockInv, Draining, shared, history, TypeOK
    <3> QED
      BY <3>1, WithinStep
  <2>10. CASE Halts(c)
    <3>1. Within(c)
      BY <2>10 DEF Halts, Step, Within, CloserInv, HoldInv, Budgeted, Held, Cancels,
         LockInv, Draining, shared, history, TypeOK
    <3> QED
      BY <3>1, WithinStep
  <2>11. CASE Unhooks(c)
    <3>1. Within(c)
      BY <2>11 DEF Unhooks, Step, Within, CloserInv, HoldInv, Budgeted, Held, Cancels,
         LockInv, Draining, shared, history, TypeOK
    <3> QED
      BY <3>1, WithinStep
  <2>12. CASE Catches(c)
    <3>1. Within(c)
      BY <2>12 DEF Catches, Step, Within, CloserInv, HoldInv, Budgeted, Held, Cancels,
         LockInv, Draining, shared, history, TypeOK
    <3> QED
      BY <3>1, WithinStep
  <2>13. ASSUME NEW t \in Timers, Arm(c, t)
        PROVE  CloserInv'
    <3> t \in Threads
      BY DEF Threads
    <3>1. /\ pc'[t] = "armed" /\ pc'[c] = "idle" /\ pc[t] = "unused" /\ pc[c] = "arm" /\ call'[c] = "none"
          /\ \A u \in Threads \ {c, t} : pc'[u] = pc[u]
          /\ \A u \in Threads \ {c} : call'[u] = call[u]
          /\ UNCHANGED <<deadline, drainLock, wait>>
      BY <2>13 DEF Arm, TypeOK
    <3> QED
      BY <3>1 DEF CloserInv, HoldInv, Budgeted, Held, Cancels, CloserNeverOversleeps,
         Threads
  <2>14. ASSUME NEW t \in Timers, StartFails(c, t)
        PROVE  CloserInv'
    <3> t \in Threads
      BY DEF Threads
    <3>1. Within(c)
      BY <2>14 DEF StartFails, Step, Within, CloserInv, HoldInv, Budgeted, Held, Cancels,
         LockInv, Draining, shared, history, TypeOK
    <3> QED
      BY <3>1, WithinStep
  <2> QED
    BY <1>1, <2>1, <2>2, <2>3, <2>4, <2>5, <2>6, <2>7, <2>8, <2>9, <2>10, <2>11, <2>12,
       <2>13, <2>14 DEF Starts, Continues
<1>2. ASSUME NEW t \in Timers, Fire(t) \/ OnTimer(t)
      PROVE  CloserInv'
  <2> t \in Threads
    BY DEF Threads
  <2>1. CASE Fire(t)
    <3>1. Within(t)
      BY <2>1 DEF Fire, Step, Within, CloserInv, HoldInv, Budgeted, Held, Cancels, LockInv,
         Draining, shared, history, TypeOK
    <3> QED
      BY <3>1, WithinStep
  <2>2. CASE OnTimer(t)
    <3>1. Within(t)
      BY <2>2, ThreadAssumption DEF OnTimer, Step, Within, CloserInv, HoldInv, Budgeted,
         Held, Cancels, LockInv, Draining, shared, history, TypeOK
    <3> QED
      BY <3>1, WithinStep
  <2> QED
    BY <1>2, <2>1, <2>2
<1>3. ASSUME NEW t \in Threads, Drains(t)
      PROVE  CloserInv'
  <2>1. CASE Acquire(t)
    <3>1. Within(t)
      BY <2>1, ThreadAssumption DEF Acquire, Step, DrainIsFree, Within, CloserInv, HoldInv,
         Budgeted, Held, Cancels, LockInv, Draining, shared, history, TypeOK
    <3> QED
      BY <3>1, WithinStep
  <2>2. CASE CancelTests(t)
    <3>1. Within(t)
      BY <2>2 DEF CancelTests, Step, AfterCancel, Within, CloserInv, HoldInv, Budgeted,
         Held, Cancels, LockInv, Draining, shared, history, TypeOK
    <3> QED
      BY <3>1, WithinStep
  <2>3. CASE CancelCalls(t)
    <3>1. /\ pc[t] = "cancel2" /\ pc'[t] = "cancel3"
          /\ \A u \in Threads \ {t} : pc'[u] = pc[u] \/ (pc[u] = "armed" /\ pc'[u] = "unused")
          /\ UNCHANGED <<deadline, drainLock, call, wait>>
      BY <2>3 DEF CancelCalls, shared, TypeOK
    <3> QED
      BY <3>1 DEF CloserInv, HoldInv, Budgeted, Held, Cancels, CloserNeverOversleeps,
         Threads
  <2>4. CASE CancelRaises(t)
    <3>1. Within(t)
      BY <2>4, ThreadAssumption DEF CancelRaises, Raises, Leave, Step, Unwinds, Within,
         CloserInv, HoldInv, Budgeted, Held, Cancels, LockInv, Draining, shared, history,
         TypeOK
    <3> QED
      BY <3>1, WithinStep
  <2>5. CASE CancelClears(t)
    <3>1. Within(t)
      BY <2>5 DEF CancelClears, Step, AfterCancel, Within, CloserInv, HoldInv, Budgeted,
         Held, Cancels, LockInv, Draining, shared, history, TypeOK
    <3> QED
      BY <3>1, WithinStep
  <2>6. CASE BudgetTests(t)
    <3>1. Within(t)
      BY <2>6 DEF BudgetTests, Step, Within, CloserInv, HoldInv, Budgeted, Held, Cancels,
         LockInv, Draining, shared, history, TypeOK
    <3> QED
      BY <3>1, WithinStep
  <2>7. CASE BudgetRaises(t)
    <3>1. Within(t)
      BY <2>7, ThreadAssumption DEF BudgetRaises, Raises, Leave, Step, Unwinds, Within,
         CloserInv, HoldInv, Budgeted, Held, Cancels, LockInv, Draining, shared, history,
         TypeOK
    <3> QED
      BY <3>1, WithinStep
  <2>8. CASE BudgetIsSpent(t)
    <3>1. Within(t)
      BY <2>8, ThreadAssumption DEF BudgetIsSpent, Returns, Leave, Step, Resumes, Within,
         CloserInv, HoldInv, Budgeted, Held, Cancels, LockInv, Draining, shared, history,
         TypeOK
    <3> QED
      BY <3>1, WithinStep
  <2>9. CASE BudgetIsLeft(t)
    <3>1. Within(t)
      BY <2>9 DEF BudgetIsLeft, Step, Within, CloserInv, HoldInv, Budgeted, Held, Cancels,
         LockInv, Draining, shared, history, TypeOK
    <3> QED
      BY <3>1, WithinStep
  <2>10. CASE FindsNothing(t)
    <3>1. Within(t)
      BY <2>10 DEF FindsNothing, Step, Within, CloserInv, HoldInv, Budgeted, Held, Cancels,
         LockInv, Draining, shared, history, TypeOK
    <3> QED
      BY <3>1, WithinStep
  <2>11. CASE Leaves(t)
    <3>1. Within(t)
      BY <2>11, ThreadAssumption DEF Leaves, Returns, Leave, Step, Resumes, Within,
         CloserInv, HoldInv, Budgeted, Held, Cancels, LockInv, Draining, shared, history,
         TypeOK
    <3> QED
      BY <3>1, WithinStep
  <2>12. CASE Slice(t)
    <3>1. Within(t)
      BY <2>12 DEF Slice, Step, Within, CloserInv, HoldInv, Budgeted, Held, Cancels,
         LockInv, Draining, shared, history, TypeOK
    <3> QED
      BY <3>1, WithinStep
  <2>13. CASE Sent(t)
    <3>1. Within(t)
      BY <2>13 DEF Sent, Step, Within, CloserInv, HoldInv, Budgeted, Held, Cancels, LockInv,
         Draining, shared, history, TypeOK
    <3> QED
      BY <3>1, WithinStep
  <2>14. CASE Widens(t)
    <3>1. Within(t)
      BY <2>14 DEF Widens, Requeue, Step, Within, CloserInv, HoldInv, Budgeted, Held,
         Cancels, LockInv, Draining, shared, history, TypeOK
    <3> QED
      BY <3>1, WithinStep
  <2>15. CASE TooLargeForMany(t)
    <3>1. Within(t)
      BY <2>15 DEF TooLargeForMany, Requeue, Step, Within, CloserInv, HoldInv, Budgeted,
         Held, Cancels, LockInv, Draining, shared, history, TypeOK
    <3> QED
      BY <3>1, WithinStep
  <2>16. CASE TooLargeForOne(t)
    <3>1. Within(t)
      BY <2>16 DEF TooLargeForOne, Step, Within, CloserInv, HoldInv, Budgeted, Held,
         Cancels, LockInv, Draining, shared, history, TypeOK
    <3> QED
      BY <3>1, WithinStep
  <2>17. CASE RestoresWidth(t)
    <3>1. Within(t)
      BY <2>17 DEF RestoresWidth, Requeue, Step, Within, CloserInv, HoldInv, Budgeted, Held,
         Cancels, LockInv, Draining, shared, history, TypeOK
    <3> QED
      BY <3>1, WithinStep
  <2>18. CASE TooLargeRaises(t)
    <3>1. Within(t)
      BY <2>18, ThreadAssumption DEF TooLargeRaises, Raises, Leave, Step, Unwinds, Within,
         CloserInv, HoldInv, Budgeted, Held, Cancels, LockInv, Draining, shared, history,
         TypeOK
    <3> QED
      BY <3>1, WithinStep
  <2>19. CASE Refused(t)
    <3>1. Within(t)
      BY <2>19 DEF Refused, Requeue, Step, Within, CloserInv, HoldInv, Budgeted, Held,
         Cancels, LockInv, Draining, shared, history, TypeOK
    <3> QED
      BY <3>1, WithinStep
  <2>20. CASE Busy(t)
    <3>1. Within(t)
      BY <2>20 DEF Busy, Step, Within, CloserInv, HoldInv, Budgeted, Held, Cancels, LockInv,
         Draining, shared, history, TypeOK
    <3> QED
      BY <3>1, WithinStep
  <2>21. CASE ReportsStranded(t)
    <3>1. Within(t)
      BY <2>21 DEF ReportsStranded, Step, Within, CloserInv, HoldInv, Budgeted, Held,
         Cancels, LockInv, Draining, shared, history, TypeOK
    <3> QED
      BY <3>1, WithinStep
  <2>22. CASE StopsBatching(t)
    <3>1. Within(t)
      BY <2>22, ThreadAssumption DEF StopsBatching, Returns, Leave, Step, Resumes, Within,
         CloserInv, HoldInv, Budgeted, Held, Cancels, LockInv, Draining, shared, history,
         TypeOK
    <3> QED
      BY <3>1, WithinStep
  <2>23. CASE LateTests(t)
    <3>1. Within(t)
      BY <2>23 DEF LateTests, Step, Within, CloserInv, HoldInv, Budgeted, Held, Cancels,
         LockInv, Draining, shared, history, TypeOK
    <3> QED
      BY <3>1, WithinStep
  <2>24. CASE LateRaises(t)
    <3>1. Within(t)
      BY <2>24, ThreadAssumption DEF LateRaises, Raises, Leave, Step, Unwinds, Within,
         CloserInv, HoldInv, Budgeted, Held, Cancels, LockInv, Draining, shared, history,
         TypeOK
    <3> QED
      BY <3>1, WithinStep
  <2>25. CASE LateGivesUp(t)
    <3>1. Within(t)
      BY <2>25, ThreadAssumption DEF LateGivesUp, Returns, Leave, Step, Resumes, Within,
         CloserInv, HoldInv, Budgeted, Held, Cancels, LockInv, Draining, shared, history,
         TypeOK
    <3> QED
      BY <3>1, WithinStep
  <2>26. CASE LateSleeps(t)
    <3>1. /\ pc[t] = "late2" /\ pc'[t] = "sleep" /\ deadline # None /\ wait[t] < deadline
          /\ \A u \in Threads \ {t} : pc'[u] = pc[u]
          /\ UNCHANGED <<drainLock, wait, call, deadline>>
      BY <2>26 DEF LateSleeps, Outlives, Step, shared, TypeOK
    <3>2. deadline \in Nat /\ wait[t] \in Nat
      BY <3>1, IntervalAssumption DEF TypeOK
    <3>3. wait[t] < Greater(1, deadline)
      BY <3>1, <3>2 DEF Greater
    <3> QED
      BY <3>1, <3>3 DEF CloserInv, HoldInv, Budgeted, Held, Cancels, CloserNeverOversleeps,
         Threads
  <2>27. CASE Wakes(t)
    <3>1. Within(t)
      BY <2>27 DEF Wakes, Step, Within, CloserInv, HoldInv, Budgeted, Held, Cancels,
         LockInv, Draining, shared, history, TypeOK
    <3> QED
      BY <3>1, WithinStep
  <2> QED
    BY <1>3, <2>1, <2>2, <2>3, <2>4, <2>5, <2>6, <2>7, <2>8, <2>9, <2>10, <2>11, <2>12,
       <2>13, <2>14, <2>15, <2>16, <2>17, <2>18, <2>19, <2>20, <2>21, <2>22, <2>23, <2>24,
       <2>25, <2>26, <2>27 DEF Drains
<1>4. CASE Tick
  BY <1>4, TickKeepsBudget
<1>5. CASE Quiescent
  BY <1>5 DEF Quiescent, vars, shared, local, CloserInv, HoldInv, Budgeted, CloserNeverOversleeps
<1> QED
  BY <1>1, <1>2, <1>3, <1>4, <1>5 DEF Next

-----------------------------------------------------------------------------
(* The theorems                                                            *)

(* If timers start, `_timer' never names one that cannot fire, unless some *)
(* thread is about to clear it: whoever closes, flushes or raises.         *)
THEOREM TimersAreLive ==
    ASSUME StartCanFail = FALSE
    PROVE  Spec => []TimerRefIsLive
<1>1. Init => TimerRefIsLive
  BY DEF Init, TimerRefIsLive
<1>2. IInv /\ TimerRefIsLive /\ [Next]_vars => TimerRefIsLive'
  <2>1. CASE UNCHANGED vars
    BY <2>1 DEF vars, shared, local, TimerRefIsLive
  <2> QED
    BY <2>1, LiveStep DEF IInv
<1> QED
  BY <1>1, <1>2, Inductive, PTL DEF Spec

(* If nobody closes, every drop can be logged and timers start, then queued*)
(* events always have somebody on the way to them, whatever raises between *)
(* the two reads of `_timer' or between an enqueue and the end of a drain. *)
THEOREM EventsArePending ==
    ASSUME NoCloser, LoggerTakesName, StartCanFail = FALSE
    PROVE  Spec => []FlushPending
<1>1. Init => PendingInv
  <2> SUFFICES ASSUME Init PROVE PendingInv
    OBVIOUS
  <2>1. \A t \in Threads : pc[t] \in {"idle", "unused"} /\ call[t] = "none"
    BY DEF Init
  <2> QED
    BY <2>1 DEF Init, PendingInv, OfClose, Cancels
<1>2. IInv /\ TimerRefIsLive /\ PendingInv /\ [Next]_vars => PendingInv'
  <2>1. CASE UNCHANGED vars
    BY <2>1 DEF vars, shared, local, PendingInv
  <2> QED
    BY <2>1, PendingStep DEF IInv
<1>3. PendingInv => FlushPending
  BY DEF PendingInv, FlushPending, AtRest, Coming, Held, Cancels
<1> QED
  BY <1>1, <1>2, <1>3, Inductive, TimersAreLive, PTL DEF Spec

(* If one caller closes, then a close() that drains starts no sleep that   *)
(* outlives its budget, and has a budget whenever it compares with it.     *)
THEOREM ClosersWakeInTime ==
    ASSUME OneCloser
    PROVE  Spec => []CloserNeverOversleeps
<1>1. Init => CloserInv
  <2> SUFFICES ASSUME Init PROVE CloserInv
    OBVIOUS
  <2>1. \A t \in Threads : pc[t] \in {"idle", "unused"} /\ call[t] = "none" /\ drainLock # t
    BY ThreadAssumption DEF Init
  <2> QED
    BY <2>1 DEF CloserInv, HoldInv, Budgeted, CloserNeverOversleeps, Threads
<1>2. IInv /\ CloserInv /\ [Next]_vars => CloserInv'
  <2>1. CASE UNCHANGED vars
    BY <2>1 DEF vars, shared, local, CloserInv, HoldInv, Budgeted, CloserNeverOversleeps
  <2> QED
    BY <2>1, CloserStep DEF IInv
<1>3. CloserInv => CloserNeverOversleeps
  BY DEF CloserInv
<1> QED
  BY <1>1, <1>2, <1>3, Inductive, PTL DEF Spec
=============================================================================
