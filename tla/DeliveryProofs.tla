--------------------------- MODULE DeliveryProofs ---------------------------
(***************************************************************************)
(* The buffer implements its contract, for any number of threads, events   *)
(* and failures; and whatever keeps the contract loses no event, repeats   *)
(* none and delivers in order.                                             *)
(***************************************************************************)
EXTENDS BufferProofs

-----------------------------------------------------------------------------
(* Cutting an increasing sequence in two                                   *)

Increasing(q) == \A i \in 1..Len(q) : \A j \in 1..(i - 1) : q[j] < q[i]

LEMMA Cut ==
    ASSUME NEW q \in Seq(Events), Increasing(q), NEW n \in 0..Len(q)
    PROVE  LET front == SubSeq(q, 1, n)
               back  == SubSeq(q, n + 1, Len(q))
           IN  /\ Range(q) = Range(front) \cup Range(back)
               /\ \A x \in Range(front) : \A i \in 1..Len(back) : x < back[i]
               /\ Increasing(back)
<1> DEFINE front == SubSeq(q, 1, n)
           back  == SubSeq(q, n + 1, Len(q))
<1> front = SubSeq(q, 1, n) /\ back = SubSeq(q, n + 1, Len(q))
  OBVIOUS
<1> HIDE DEF front, back
<1>1. Len(q) \in Nat /\ \A i \in 1..Len(q) : q[i] \in Nat
  <2>1. Len(q) \in Nat /\ \A i \in 1..Len(q) : q[i] \in Events
    BY LenProperties, ElementOfSeq
  <2> QED
    BY <2>1 DEF Events
<1>2. /\ front \in Seq(Events) /\ Len(front) = n
      /\ back \in Seq(Events) /\ Len(back) = Len(q) - n
  BY Slices
<1>3. \A i \in 1..n : front[i] = q[i]
  <2>1. \A i \in 1..n : q[i] \in Events
    BY <1>1, ElementOfSeq
  <2>2. \A i \in 1..(n - 1 + 1) : SubSeq(q, 1, n)[i] = q[1 + i - 1]
    BY <1>1, <2>1, SubSeqProperties
  <2> QED
    BY <1>1, <2>2
<1>4. \A i \in 1..(Len(q) - n) : back[i] = q[n + i]
  <2>1. \A i \in (n + 1)..Len(q) : q[i] \in Events
    BY <1>1, ElementOfSeq
  <2>2. \A i \in 1..(Len(q) - (n + 1) + 1) : SubSeq(q, n + 1, Len(q))[i] = q[n + 1 + i - 1]
    BY <1>1, <2>1, SubSeqProperties
  <2> QED
    BY <1>1, <2>2
<1>5. /\ Range(q) = {q[i] : i \in 1..Len(q)}
      /\ Range(front) = {q[i] : i \in 1..n}
      /\ Range(back) = {q[n + i] : i \in 1..(Len(q) - n)}
  <2>1. DOMAIN q = 1..Len(q) /\ DOMAIN front = 1..n /\ DOMAIN back = 1..(Len(q) - n)
    BY <1>2, LenProperties
  <2> QED
    BY <1>3, <1>4, <2>1 DEF Range
<1>6. Range(q) = Range(front) \cup Range(back)
  <2>1. \A i \in 1..Len(q) : i \in 1..n \/ (i - n \in 1..(Len(q) - n) /\ n + (i - n) = i)
    BY <1>1
  <2>2. ASSUME NEW x \in Range(q)
        PROVE  x \in Range(front) \cup Range(back)
    <3>1. PICK i \in 1..Len(q) : x = q[i]
      BY <1>5
    <3> QED
      BY <1>5, <2>1, <3>1
  <2>3. \A i \in 1..(Len(q) - n) : n + i \in 1..Len(q)
    BY <1>1
  <2>4. 1..n \subseteq 1..Len(q)
    BY <1>1
  <2> QED
    BY <1>5, <2>2, <2>3, <2>4
<1>7. ASSUME NEW x \in Range(front), NEW i \in 1..Len(back)
      PROVE  x < back[i]
  <2>1. PICK j \in 1..n : x = q[j]
    BY <1>5
  <2>2. n + i \in 1..Len(q) /\ j \in 1..(n + i - 1) /\ back[i] = q[n + i]
    BY <1>1, <1>2, <1>4
  <2> QED
    BY <2>1, <2>2 DEF Increasing
<1>8. Increasing(back)
  <2>1. SUFFICES ASSUME NEW i \in 1..Len(back), NEW j \in 1..(i - 1)
                 PROVE  back[j] < back[i]
    BY DEF Increasing
  <2>2. n + i \in 1..Len(q) /\ n + j \in 1..(n + i - 1)
    BY <1>1, <1>2
  <2>3. back[i] = q[n + i] /\ back[j] = q[n + j]
    BY <1>1, <1>2, <1>4
  <2> QED
    BY <2>2, <2>3 DEF Increasing
<1> QED
  BY <1>6, <1>7, <1>8 DEF front, back

-----------------------------------------------------------------------------
(* Every step of the buffer is a step of the contract, or none             *)

Keeps == Contract!Next \/ UNCHANGED Contract!vars

(* Only the events of a batch at the head of the queue ever leave it.       *)
LEMMA StepKeeps ==
    ASSUME HeadInv, Next
    PROVE  Keeps
<1>1. ASSUME NEW c \in Callers, Starts(c) \/ Continues(c)
      PROVE  Keeps
  <2> c \in Threads
    BY DEF Threads
  <2>1. CASE Accept(c)
    <3>1. Contract!Take
      BY <2>1 DEF Accept, Admits, Contract!Take
    <3> QED
      BY <3>1 DEF Keeps, Contract!Next
  <2>2. CASE TurnAway(c)
    <3>1. Contract!TurnAway
      BY <2>2 DEF TurnAway, shared, Contract!TurnAway
    <3> QED
      BY <3>1 DEF Keeps, Contract!Next
  <2>3. CASE BeginFlush(c)
    BY <2>3 DEF BeginFlush, Calls, Step, Keeps, Contract!vars, shared, history
  <2>4. CASE BeginClose(c)
    BY <2>4 DEF BeginClose, Calls, Step, Keeps, Contract!vars, shared, history
  <2>5. CASE ExitHook(c)
    BY <2>5 DEF ExitHook, Calls, Step, Keeps, Contract!vars, shared, history
  <2>6. CASE Schedule(c)
    BY <2>6 DEF Schedule, Step, Keeps, Contract!vars, shared, history
  <2>7. CASE ClearsDeadline(c)
    BY <2>7 DEF ClearsDeadline, Step, Keeps, Contract!vars, shared, history
  <2>8. CASE ClearsAndRaises(c)
    BY <2>8 DEF ClearsAndRaises, Step, Keeps, Contract!vars, shared, history
  <2>9. CASE ReportsUnsent(c)
    BY <2>9 DEF ReportsUnsent, Step, Keeps, Contract!vars, shared, history
  <2>10. CASE Halts(c)
    <3>1. Contract!Close
      BY <2>10 DEF Halts, history, Contract!Close
    <3> QED
      BY <3>1 DEF Keeps, Contract!Next
  <2>11. CASE Unhooks(c)
    BY <2>11 DEF Unhooks, Step, Keeps, Contract!vars, shared, history
  <2>12. CASE Catches(c)
    BY <2>12 DEF Catches, Step, Keeps, Contract!vars, shared, history
  <2>13. ASSUME NEW t \in Timers, Arm(c, t)
        PROVE  Keeps
    <3> t \in Threads
      BY DEF Threads
    <3> QED
      BY <2>13 DEF Arm, Step, Keeps, Contract!vars, shared, history
  <2>14. ASSUME NEW t \in Timers, StartFails(c, t)
        PROVE  Keeps
    <3> t \in Threads
      BY DEF Threads
    <3> QED
      BY <2>14 DEF StartFails, Step, Keeps, Contract!vars, shared, history
  <2> QED
    BY <1>1, <2>1, <2>2, <2>3, <2>4, <2>5, <2>6, <2>7, <2>8, <2>9, <2>10, <2>11, <2>12, <2>13, <2>14 DEF Starts, Continues
<1>2. ASSUME NEW t \in Timers, Fire(t) \/ OnTimer(t)
      PROVE  Keeps
  <2> t \in Threads
    BY DEF Threads
  <2>1. CASE Fire(t)
    BY <2>1 DEF Fire, Step, Keeps, Contract!vars, shared, history
  <2>2. CASE OnTimer(t)
    BY <2>2 DEF OnTimer, Step, Keeps, Contract!vars, shared, history
  <2> QED
    BY <1>2, <2>1, <2>2
<1>3. ASSUME NEW t \in Threads, Drains(t)
      PROVE  Keeps
  <2>1. CASE Acquire(t)
    BY <2>1 DEF Acquire, Step, DrainIsFree, Keeps, Contract!vars, shared, history
  <2>2. CASE CancelTests(t)
    BY <2>2 DEF CancelTests, Step, AfterCancel, Keeps, Contract!vars, shared, history
  <2>3. CASE CancelCalls(t)
    BY <2>3 DEF CancelCalls, Step, Keeps, Contract!vars, shared, history
  <2>4. CASE CancelRaises(t)
    BY <2>4 DEF CancelRaises, Raises, Leave, Step, Unwinds, Keeps, Contract!vars, shared, history
  <2>5. CASE CancelClears(t)
    BY <2>5 DEF CancelClears, Step, AfterCancel, Keeps, Contract!vars, shared, history
  <2>6. CASE BudgetTests(t)
    BY <2>6 DEF BudgetTests, Step, Keeps, Contract!vars, shared, history
  <2>7. CASE BudgetRaises(t)
    BY <2>7 DEF BudgetRaises, Raises, Leave, Step, Unwinds, Keeps, Contract!vars, shared, history
  <2>8. CASE BudgetIsSpent(t)
    BY <2>8 DEF BudgetIsSpent, Returns, Leave, Step, Resumes, Keeps, Contract!vars, shared, history
  <2>9. CASE BudgetIsLeft(t)
    BY <2>9 DEF BudgetIsLeft, Step, Keeps, Contract!vars, shared, history
  <2>10. CASE FindsNothing(t)
    BY <2>10 DEF FindsNothing, Step, Keeps, Contract!vars, shared, history
  <2>11. CASE Leaves(t)
    BY <2>11 DEF Leaves, Returns, Leave, Step, Resumes, Keeps, Contract!vars, shared, history
  <2>12. CASE Slice(t)
    BY <2>12 DEF Slice, Step, Keeps, Contract!vars, shared, history
  <2>13. CASE Sent(t)
    <3>1. Len(batch[t]) \in 1..Len(queue) /\ batch[t] = SubSeq(queue, 1, Len(batch[t]))
      BY <2>13 DEF Sent, Step, HeadInv, Draining
    <3>2. queue' = SubSeq(queue, Len(batch[t]) + 1, Len(queue))
      BY <2>13 DEF Sent, Deleted
    <3>3. Contract!Deliver(Len(batch[t]))
      BY <2>13, <3>1, <3>2 DEF Sent, Contract!Deliver, Contract!LeaveLine, Contract!First, Contract!Range, Range
    <3> QED
      BY <3>1, <3>3 DEF Keeps, Contract!Next
  <2>14. CASE Widens(t)
    BY <2>14 DEF Widens, Requeue, Step, Keeps, Contract!vars, shared, history
  <2>15. CASE TooLargeForMany(t)
    BY <2>15 DEF TooLargeForMany, Requeue, Step, Keeps, Contract!vars, shared, history
  <2>16. CASE TooLargeForOne(t)
    <3>1. Len(batch[t]) \in 1..Len(queue) /\ batch[t] = SubSeq(queue, 1, Len(batch[t]))
      BY <2>16 DEF TooLargeForOne, Step, HeadInv, Draining
    <3>2. queue' = SubSeq(queue, Len(batch[t]) + 1, Len(queue))
      BY <2>16 DEF TooLargeForOne, Deleted
    <3>3. Contract!GiveUp(Len(batch[t]))
      BY <2>16, <3>1, <3>2 DEF TooLargeForOne, Contract!GiveUp, Contract!LeaveLine, Contract!First, Contract!Range, Range
    <3> QED
      BY <3>1, <3>3 DEF Keeps, Contract!Next
  <2>17. CASE RestoresWidth(t)
    BY <2>17 DEF RestoresWidth, Requeue, Step, Keeps, Contract!vars, shared, history
  <2>18. CASE TooLargeRaises(t)
    BY <2>18 DEF TooLargeRaises, Raises, Leave, Step, Unwinds, Keeps, Contract!vars, shared, history
  <2>19. CASE Refused(t)
    <3>1. Len(batch[t]) \in 1..Len(queue) /\ batch[t] = SubSeq(queue, 1, Len(batch[t]))
      BY <2>19 DEF Refused, Step, Requeue, HeadInv, Draining
    <3>2. queue' = SubSeq(queue, Len(batch[t]) + 1, Len(queue))
      BY <2>19 DEF Refused, Deleted
    <3>3. Contract!GiveUp(Len(batch[t]))
      BY <2>19, <3>1, <3>2 DEF Refused, Contract!GiveUp, Contract!LeaveLine, Contract!First, Contract!Range, Range
    <3> QED
      BY <3>1, <3>3 DEF Keeps, Contract!Next
  <2>20. CASE Busy(t)
    BY <2>20 DEF Busy, Step, Keeps, Contract!vars, shared, history
  <2>21. CASE ReportsStranded(t)
    BY <2>21 DEF ReportsStranded, Step, Keeps, Contract!vars, shared, history
  <2>22. CASE StopsBatching(t)
    <3>1. Contract!Close
      BY <2>22 DEF StopsBatching, history, Contract!Close
    <3> QED
      BY <3>1 DEF Keeps, Contract!Next
  <2>23. CASE LateTests(t)
    BY <2>23 DEF LateTests, Step, Keeps, Contract!vars, shared, history
  <2>24. CASE LateRaises(t)
    BY <2>24 DEF LateRaises, Raises, Leave, Step, Unwinds, Keeps, Contract!vars, shared, history
  <2>25. CASE LateGivesUp(t)
    BY <2>25 DEF LateGivesUp, Returns, Leave, Step, Resumes, Keeps, Contract!vars, shared, history
  <2>26. CASE LateSleeps(t)
    BY <2>26 DEF LateSleeps, Step, Keeps, Contract!vars, shared, history
  <2>27. CASE Wakes(t)
    BY <2>27 DEF Wakes, Step, Keeps, Contract!vars, shared, history
  <2> QED
    BY <1>3, <2>1, <2>2, <2>3, <2>4, <2>5, <2>6, <2>7, <2>8, <2>9, <2>10, <2>11, <2>12,
       <2>13, <2>14, <2>15, <2>16, <2>17, <2>18, <2>19, <2>20, <2>21, <2>22, <2>23, <2>24, <2>25, <2>26, <2>27 DEF Drains
<1>4. CASE Tick
  BY <1>4 DEF Tick, Keeps, Contract!vars, shared, history
<1>5. CASE Quiescent
  BY <1>5 DEF Quiescent, vars, shared, history, Keeps, Contract!vars
<1> QED
  BY <1>1, <1>2, <1>3, <1>4, <1>5 DEF Next

-----------------------------------------------------------------------------
(* What every keeper of the contract has                                   *)

Ledger == Accounted /\ FirstInFirstOut

LEMMA LedgerOfQueue ==
    ASSUME TypeOK, Accounted
    PROVE  /\ Range(queue) \cup acked \cup dropped = 1..issued
           /\ issued \in Nat
           /\ \A i \in 1..Len(queue) : queue[i] \in Range(queue)
<1>1. DOMAIN queue = 1..Len(queue)
  BY LenProperties DEF TypeOK
<1>2. \A i \in 1..Len(queue) : queue[i] \in Range(queue)
  BY <1>1 DEF Range
<1> QED
  BY <1>2 DEF Accounted, TypeOK

LEMMA RangeOfAppend ==
    ASSUME NEW q \in Seq(Events), NEW e \in Events
    PROVE  Range(Append(q, e)) = Range(q) \cup {e}
<1>1. /\ Append(q, e) \in Seq(Events) /\ Len(Append(q, e)) = Len(q) + 1
      /\ \A i \in 1..Len(q) : Append(q, e)[i] = q[i]
      /\ Append(q, e)[Len(q) + 1] = e
  BY AppendProperties
<1>2. DOMAIN q = 1..Len(q) /\ DOMAIN Append(q, e) = 1..(Len(q) + 1) /\ Len(q) \in Nat
  BY <1>1, LenProperties
<1>3. 1..(Len(q) + 1) = 1..Len(q) \cup {Len(q) + 1}
  BY <1>2
<1> QED
  BY <1>1, <1>2, <1>3 DEF Range

LEMMA TakeKeepsLedger ==
    ASSUME TypeOK, TypeOK', Ledger, Contract!Take
    PROVE  Ledger'
<1>1. /\ queue' = Append(queue, issued + 1) /\ issued' = issued + 1
      /\ UNCHANGED <<acked, dropped>>
  BY DEF Contract!Take
<1>2. issued + 1 \in Events /\ issued \in Nat
  BY <1>1, QueueAssumption DEF TypeOK, Events
<1>3. Range(queue') = Range(queue) \cup {issued + 1}
  BY <1>1, <1>2, RangeOfAppend DEF TypeOK
<1>4. 1..(issued + 1) = (1..issued) \cup {issued + 1}
  BY <1>2
<1>5. Accounted'
  <2>1. issued + 1 \notin 1..issued
    BY <1>2
  <2> QED
    BY <1>1, <1>3, <1>4, <2>1 DEF Ledger, Accounted
<1>6. FirstInFirstOut'
  <2>1. /\ Len(queue') = Len(queue) + 1 /\ Len(queue) \in Nat
        /\ \A i \in 1..Len(queue) : queue'[i] = queue[i]
        /\ queue'[Len(queue) + 1] = issued + 1
    BY <1>1, <1>2, AppendProperties, LenProperties DEF TypeOK
  <2>2. \A x \in Range(queue) \cup acked : x \in Nat /\ x < issued + 1
    BY <1>2 DEF Ledger, Accounted
  <2>3. \A i \in 1..Len(queue) : queue[i] \in Range(queue)
    BY LedgerOfQueue DEF Ledger
  <2>4. ASSUME NEW i \in 1..Len(queue')
        PROVE  /\ \A e \in acked' : e < queue'[i]
               /\ \A j \in 1..(i - 1) : queue'[j] < queue'[i]
    <3>1. CASE i \in 1..Len(queue)
      <4>1. \A j \in 1..(i - 1) : j \in 1..Len(queue)
        BY <2>1, <3>1
      <4> QED
        BY <1>1, <2>1, <3>1, <4>1 DEF Ledger, FirstInFirstOut
    <3>2. CASE i = Len(queue) + 1
      <4>1. \A j \in 1..(i - 1) : j \in 1..Len(queue)
        BY <2>1, <3>2
      <4> QED
        BY <1>1, <2>1, <2>2, <2>3, <3>2, <4>1
    <3> QED
      BY <2>1, <3>1, <3>2
  <2> QED
    BY <2>4 DEF FirstInFirstOut
<1> QED
  BY <1>5, <1>6 DEF Ledger

LEMMA LeavingKeepsLedger ==
    ASSUME TypeOK, Ledger, NEW n \in 1..Len(queue), Contract!Deliver(n) \/ Contract!GiveUp(n)
    PROVE  Ledger'
<1> DEFINE front == SubSeq(queue, 1, n)
           back  == SubSeq(queue, n + 1, Len(queue))
<1>1. /\ queue' = back /\ issued' = issued
      /\ \/ acked' = acked \cup Range(front) /\ dropped' = dropped
         \/ acked' = acked /\ dropped' = dropped \cup Range(front)
  BY DEF Contract!Deliver, Contract!GiveUp, Contract!LeaveLine, Contract!First, Contract!Range, Range
<1>2. queue \in Seq(Events) /\ Increasing(queue) /\ n \in 0..Len(queue)
  BY LenProperties DEF TypeOK, Ledger, FirstInFirstOut, Increasing
<1>3. /\ Range(queue) = Range(front) \cup Range(back)
      /\ \A x \in Range(front) : \A i \in 1..Len(back) : x < back[i]
      /\ Increasing(back)
  BY <1>2, Cut
<1>4. back \in Seq(Events)
  BY <1>2, Slices
<1> HIDE DEF front, back
<1>5. /\ DOMAIN back = 1..Len(back)
      /\ \A i \in 1..Len(back) : back[i] \in Range(back) /\ back[i] \in Nat
  <2>1. DOMAIN back = 1..Len(back)
    BY <1>4, LenProperties
  <2>2. \A i \in 1..Len(back) : back[i] \in Events
    BY <1>4, ElementOfSeq
  <2>3. \A i \in 1..Len(back) : back[i] \in Nat
    BY <2>2 DEF Events
  <2>4. \A i \in 1..Len(back) : back[i] \in Range(back)
    BY <2>1 DEF Range
  <2> QED
    BY <2>1, <2>3, <2>4
<1>6. Range(front) \cap Range(back) = {}
  <2>1. SUFFICES ASSUME NEW x \in Range(front), x \in Range(back)
                 PROVE  FALSE
    OBVIOUS
  <2>2. PICK i \in 1..Len(back) : x = back[i]
    BY <1>5, <2>1 DEF Range
  <2>3. back[i] < back[i] /\ back[i] \in Nat
    BY <1>3, <1>5, <2>2
  <2> QED
    BY <2>3
<1>7. \A i \in 1..Len(back) : \A e \in acked : e < back[i]
  <2>1. DOMAIN queue = 1..Len(queue)
    BY <1>2, LenProperties
  <2>2. \A x \in Range(queue) : \E i \in 1..Len(queue) : x = queue[i]
    BY <2>1 DEF Range
  <2>3. \A x \in Range(back) : \A e \in acked : e < x
    BY <1>3, <2>2 DEF Ledger, FirstInFirstOut
  <2> QED
    BY <1>5, <2>3
<1>8. Accounted'
  BY <1>1, <1>3, <1>6 DEF Ledger, Accounted
<1>9. FirstInFirstOut'
  BY <1>1, <1>3, <1>7 DEF FirstInFirstOut, Increasing
<1> QED
  BY <1>8, <1>9 DEF Ledger

LEMMA KeeperKeepsLedger ==
    ASSUME TypeOK, TypeOK', Ledger, Keeps
    PROVE  Ledger'
<1>1. CASE Contract!Take
  BY <1>1, TakeKeepsLedger
<1>2. CASE Contract!TurnAway
  <2>1. /\ issued' = issued + 1 /\ dropped' = dropped \cup {issued + 1}
        /\ UNCHANGED <<queue, acked>>
    BY <1>2 DEF Contract!TurnAway
  <2>2. issued \in Nat
    BY LedgerOfQueue DEF Ledger
  <2>3. 1..(issued + 1) = (1..issued) \cup {issued + 1} /\ issued + 1 \notin 1..issued
    BY <2>2
  <2>4. Accounted'
    BY <2>1, <2>3 DEF Ledger, Accounted
  <2> QED
    BY <2>1, <2>4 DEF Ledger, FirstInFirstOut
<1>3. ASSUME NEW n \in 1..Len(queue), Contract!Deliver(n) \/ Contract!GiveUp(n)
      PROVE  Ledger'
  BY <1>3, LeavingKeepsLedger
<1>4. CASE Contract!Close
  BY <1>4 DEF Contract!Close, Ledger, Accounted, FirstInFirstOut
<1>5. CASE UNCHANGED Contract!vars
  BY <1>5 DEF Contract!vars, Ledger, Accounted, FirstInFirstOut
<1> QED
  BY <1>1, <1>2, <1>3, <1>4, <1>5 DEF Keeps, Contract!Next

-----------------------------------------------------------------------------
(* The theorems                                                            *)

LEMMA VarsKeep == [Next]_vars /\ IInv => Keeps
<1>1. Next /\ IInv => Keeps
  BY StepKeeps DEF IInv
<1>2. UNCHANGED vars => Keeps
  BY DEF vars, shared, history, Keeps, Contract!vars
<1> QED
  BY <1>1, <1>2

(* The buffer implements DeliveryContract: events leave from the head of   *)
(* the line only, delivered or given up out loud, are turned away out loud,*)
(* and a buffer that stopped stays so.                                     *)
THEOREM ImplementsContract == Spec => KeepsContract
<1>1. Init => Contract!Init
  BY DEF Init, Contract!Init
<1>2. IInv /\ [Next]_vars => [Contract!Next]_Contract!vars
  BY VarsKeep DEF Keeps
<1> QED
  BY <1>1, <1>2, Inductive, PTL DEF Spec, KeepsContract, Contract!Spec

LEMMA LedgerInvariant == Spec => []Ledger
<1>1. Init => Ledger
  BY EmptySeq DEF Init, Ledger, Accounted, FirstInFirstOut, Range
<1>2. IInv /\ IInv' /\ Ledger /\ [Next]_vars => Ledger'
  BY VarsKeep, KeeperKeepsLedger DEF IInv
<1> QED
  BY <1>1, <1>2, Inductive, PTL DEF Spec

(* An event handed to enqueue is queued, or accepted by the server, or     *)
(* dropped with an announcement, and only one of these.                    *)
THEOREM NothingIsLost == Spec => []Accounted
<1>1. Ledger => Accounted
  BY DEF Ledger
<1> QED
  BY <1>1, LedgerInvariant, PTL

(* Delivery keeps the order of enqueue, across retries, halvings, drops and*)
(* whichever threads drain.                                                *)
THEOREM OrderIsKept == Spec => []FirstInFirstOut
<1>1. Ledger => FirstInFirstOut
  BY DEF Ledger
<1> QED
  BY <1>1, LedgerInvariant, PTL
=============================================================================
