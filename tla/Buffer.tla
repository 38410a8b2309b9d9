------------------------------- MODULE Buffer -------------------------------
(***************************************************************************)
(* The event buffer (class Buffer): application threads enqueue, flush and *)
(* close; a threading.Timer thread flushes when a batch stays short; the   *)
(* interpreter's exit hook flushes once more.  One drains at a time.       *)
(*                                                                         *)
(* Granularity.  A section under `_lock' is one step.  An attribute read or*)
(* written without `_lock' (`_timer', `_close_deadline', `_stopped') is a  *)
(* step of its own, and a test followed by a use is two: CPython may switch*)
(* threads between any two bytecodes.  The answer to a request and what the*)
(* drainer does with it under `_drain_lock' are one step, as only the      *)
(* drainer reads the run lengths it updates; the width, which enqueue reads*)
(* too, is written in a step after the deletion.                           *)
(*                                                                         *)
(* Time is counted in milliseconds of a small constant scale.              *)
(***************************************************************************)
EXTENDS RetryPolicy, Sequences, Functions

CONSTANTS
    Callers,         \* application threads
    Timers,          \* identities for threading.Timer threads, re-used: a bound
    Roles,           \* which methods each caller may call
    MaxQueue,        \* BatchOptions.max_queue
    CloseBudget,     \* CLOSE_DRAIN_BUDGET_S
    FlushOnExit,     \* BatchOptions.flush_on_exit
    MaxEvents,       \* events the environment ever enqueues: a bound
    Statuses,        \* statuses the server may answer; NoStatus for no answer
    Advised,         \* Retry-After values it may send along, 0 for none
    Oversized,       \* events the gateway refuses with 413, alone or in company
    Poison,          \* events json.dumps cannot serialise: `_send' raises TypeError
    LoggerTakesName, \* FALSE for logging.Logger, which refuses extra={"name": ...}
    StartCanFail,    \* Timer.start() may raise RuntimeError: no thread to be had
    None

Threads == Callers \cup Timers
Events  == 1..MaxEvents
Methods == {"enqueue", "flush", "close", "exit"}

ASSUME ThreadAssumption ==
    /\ Callers \cap Timers = {}
    /\ None \notin Threads
    /\ Roles \in [Callers -> SUBSET Methods]

ASSUME QueueAssumption ==
    /\ MaxQueue \in Nat
    /\ Size <= MaxQueue
    /\ CloseBudget \in Nat
    /\ MaxEvents \in Nat
    /\ None \notin Nat

ASSUME ServerAssumption ==
    /\ Statuses \subseteq {NoStatus} \cup 200..599
    /\ Advised \subseteq Nat
    /\ Oversized \subseteq Events
    /\ Poison \subseteq Events

ASSUME FlagAssumption == {FlushOnExit, LoggerTakesName, StartCanFail} \subseteq BOOLEAN

VARIABLES
    queue,     \* _queue, under _lock
    pol,       \* _batch_size and the three run lengths, under _drain_lock
    stopped,   \* _stopped
    deadline,  \* _close_deadline: None, or the milliseconds left until it
    drainLock, \* the thread that holds _drain_lock, or None
    timerRef,  \* _timer
    hook,      \* the exit hook is registered
    pc,        \* where each thread is
    call,      \* the method it is in
    batch,     \* its local `batch'
    wait,      \* its local `backoff_ms', then what is left of the sleep
    issued,    \* history: how many events have been handed to enqueue
    acked,     \* history: events the server answered with success
    dropped,   \* history: events whose drop was announced
    told       \* history: events counted by a line that says they are stranded

shared  == <<queue, pol, stopped, deadline, drainLock, timerRef, hook>>
local   == <<pc, call, batch, wait>>
history == <<issued, acked, dropped, told>>
vars    == <<shared, local, history>>

Labels ==
    {"idle", "raised", "exited", "unused", "armed", "fired",
     "schedule", "arm", "acquire", "cancel1", "cancel2", "cancel3",
     "budget1", "budget2", "slice", "leave", "send", "widen", "restore", "trip", "stop", "late1", "late2", "sleep",
     "clearDeadline", "count", "halt", "unhook", "unwind"}

Init ==
    /\ queue = <<>>
    /\ pol = InitialPolicy
    /\ stopped = FALSE
    /\ deadline = None
    /\ drainLock = None
    /\ timerRef = None
    /\ hook = FlushOnExit
    /\ pc = [t \in Threads |-> IF t \in Timers THEN "unused" ELSE "idle"]
    /\ call = [t \in Threads |-> "none"]
    /\ batch = [t \in Threads |-> <<>>]
    /\ wait = [t \in Threads |-> 0]
    /\ issued = 0
    /\ acked = {}
    /\ dropped = {}
    /\ told = {}

-----------------------------------------------------------------------------
\* Definitions marked "Mutant" are deliberate slips: substituted for the
\* definition that follows them, they show that a property notices.

Step(t, from, to) == pc[t] = from /\ pc' = [pc EXCEPT ![t] = to]

Calls(c, method, to) ==
    /\ method \in Roles[c]
    /\ Step(c, "idle", to)
    /\ call' = [call EXCEPT ![c] = IF to = "idle" THEN "none" ELSE method]

\* Where a thread goes when flush() returns to the method that called it,
\* and where when flush() raises instead: the timer and the exit hook
\* suppress the exception, close() runs its `finally' and lets it through.
Resumes(t) ==
    CASE call[t] = "timer" -> "unused"
      [] call[t] = "exit"  -> "exited"
      [] call[t] = "close" -> "clearDeadline"
      [] OTHER             -> "idle"

Unwinds(t) ==
    CASE call[t] = "timer" -> "unused"
      [] call[t] = "exit"  -> "exited"
      [] call[t] = "close" -> "unwind"
      [] OTHER             -> "raised"

\* Leaving `with self._drain_lock' from `from', by returning or by raising.
Leave(t, from, to) ==
    /\ Step(t, from, to)
    /\ drainLock' = None
    /\ batch' = [batch EXCEPT ![t] = <<>>]
    /\ wait' = [wait EXCEPT ![t] = 0]
    /\ call' = [call EXCEPT ![t] = IF to \in {"clearDeadline", "unwind", "raised"} THEN @ ELSE "none"]

Returns(t, from) == Leave(t, from, Resumes(t))

\* Mutant: the lock is not released when flush() raises.
RaisesLocked(t, from) ==
    /\ Step(t, from, Unwinds(t))
    /\ batch' = [batch EXCEPT ![t] = <<>>]
    /\ wait' = [wait EXCEPT ![t] = 0]
    /\ UNCHANGED <<drainLock, call>>

Raises(t, from) == Leave(t, from, Unwinds(t))

-----------------------------------------------------------------------------
(* enqueue                                                                 *)

\* Mutants: one event too many; no test of `_stopped'.
AdmitsOneMore   == ~stopped /\ Len(queue) <= MaxQueue
AdmitsAfterStop == Len(queue) < MaxQueue

Admits == ~stopped /\ Len(queue) < MaxQueue

Accept(c) ==
    /\ issued < MaxEvents
    /\ Admits
    /\ issued' = issued + 1
    /\ queue' = Append(queue, issued')
    /\ Calls(c, "enqueue", IF Len(queue') >= pol.batchSize THEN "acquire" ELSE "schedule")
    /\ UNCHANGED <<pol, stopped, deadline, drainLock, timerRef, hook, batch, wait,
                   acked, dropped, told>>

\* Stopped or full.  The log call's extra={"name": ...} makes a
\* logging.Logger raise KeyError, which then comes out of enqueue.
TurnAway(c) ==
    /\ issued < MaxEvents
    /\ ~Admits
    /\ issued' = issued + 1
    /\ dropped' = dropped \cup {issued'}
    /\ \/ LoggerTakesName /\ Calls(c, "enqueue", "idle")
       \/ ~LoggerTakesName /\ Calls(c, "enqueue", "raised")
    /\ UNCHANGED <<shared, batch, wait, acked, told>>

\* Mutant: leaves the event to a drain that may have seen an empty queue.
HasTimerOrDrain == timerRef # None \/ stopped \/ drainLock # None

HasTimer == timerRef # None \/ stopped

\* _schedule_flush: the test, then the assignment.
Schedule(c) ==
    /\ \/ HasTimer /\ Step(c, "schedule", "idle") /\ call' = [call EXCEPT ![c] = "none"]
       \/ ~HasTimer /\ Step(c, "schedule", "arm") /\ UNCHANGED call
    /\ UNCHANGED <<shared, batch, wait, history>>

Arm(c, t) ==
    /\ pc[c] = "arm"
    /\ pc[t] = "unused"
    /\ t # timerRef
    /\ timerRef' = t
    /\ pc' = [pc EXCEPT ![c] = "idle", ![t] = "armed"]
    /\ call' = [call EXCEPT ![c] = "none"]
    /\ UNCHANGED <<queue, pol, stopped, deadline, drainLock, hook, batch, wait, history>>

\* timer.start() raises after `_timer' was assigned.
StartFails(c, t) ==
    /\ StartCanFail
    /\ pc[t] = "unused"
    /\ t # timerRef
    /\ timerRef' = t
    /\ Step(c, "arm", "raised")
    /\ UNCHANGED <<queue, pol, stopped, deadline, drainLock, hook, call, batch, wait, history>>

-----------------------------------------------------------------------------
(* The timer thread                                                        *)

\* The interval is over and cancel() came too late.
Fire(t) ==
    /\ Step(t, "armed", "fired")
    /\ UNCHANGED <<shared, call, batch, wait, history>>

\* Mutant: `_timer' keeps naming the timer that fired.
OnTimerKeepsRef(t) ==
    /\ Step(t, "fired", "acquire")
    /\ call' = [call EXCEPT ![t] = "timer"]
    /\ UNCHANGED <<shared, batch, wait, history>>

OnTimer(t) ==
    /\ Step(t, "fired", "acquire")
    /\ timerRef' = None
    /\ call' = [call EXCEPT ![t] = "timer"]
    /\ UNCHANGED <<queue, pol, stopped, deadline, drainLock, hook, batch, wait, history>>

-----------------------------------------------------------------------------
(* The callers of flush                                                    *)

BeginFlush(c) ==
    /\ Calls(c, "flush", "acquire")
    /\ UNCHANGED <<shared, batch, wait, history>>

BeginClose(c) ==
    /\ Calls(c, "close", "acquire")
    /\ deadline' = CloseBudget
    /\ UNCHANGED <<queue, pol, stopped, drainLock, timerRef, hook, batch, wait, history>>

ExitHook(c) ==
    /\ hook
    /\ Calls(c, "exit", "acquire")
    /\ UNCHANGED <<shared, batch, wait, history>>

-----------------------------------------------------------------------------
(* flush                                                                   *)

\* Mutant: no drain lock.
DrainUnguarded == TRUE

DrainIsFree == drainLock = None

Acquire(t) ==
    /\ DrainIsFree
    /\ Step(t, "acquire", "cancel1")
    /\ drainLock' = t
    /\ UNCHANGED <<queue, pol, stopped, deadline, timerRef, hook, call, batch, wait, history>>

\* _cancel_timer is called by flush, under the drain lock, and by close,
\* after it: `_timer' is read for the test, read again for cancel(), and
\* cleared.  Each is a step.
AfterCancel(t) == IF drainLock = t THEN "budget1" ELSE "unhook"

CancelTests(t) ==
    /\ Step(t, "cancel1", IF timerRef = None THEN AfterCancel(t) ELSE "cancel2")
    /\ UNCHANGED <<shared, call, batch, wait, history>>

\* cancel() has no effect on a timer that fired.
CancelCalls(t) ==
    /\ pc[t] = "cancel2"
    /\ timerRef # None
    /\ pc' = [u \in Threads |->
                IF u = t THEN "cancel3"
                ELSE IF u = timerRef /\ pc[u] = "armed" THEN "unused"
                ELSE pc[u]]
    /\ UNCHANGED <<shared, call, batch, wait, history>>

\* `_timer' became None since the test: AttributeError.
CancelRaises(t) ==
    /\ timerRef = None
    /\ \/ drainLock = t /\ Raises(t, "cancel2")
       \/ drainLock # t /\ Step(t, "cancel2", "raised") /\ UNCHANGED <<drainLock, call, batch, wait>>
    /\ UNCHANGED <<queue, pol, stopped, deadline, timerRef, hook, history>>

CancelClears(t) ==
    /\ Step(t, "cancel3", AfterCancel(t))
    /\ timerRef' = None
    /\ UNCHANGED <<queue, pol, stopped, deadline, drainLock, hook, call, batch, wait, history>>

\* _out_of_close_budget: the test against None, then the comparison.
BudgetTests(t) ==
    /\ Step(t, "budget1", IF deadline = None THEN "slice" ELSE "budget2")
    /\ UNCHANGED <<shared, call, batch, wait, history>>

\* It became None since the test: TypeError.
BudgetRaises(t) ==
    /\ deadline = None
    /\ Raises(t, "budget2")
    /\ UNCHANGED <<queue, pol, stopped, deadline, timerRef, hook, history>>

BudgetIsSpent(t) ==
    /\ deadline = 0
    /\ Returns(t, "budget2")
    /\ UNCHANGED <<queue, pol, stopped, deadline, timerRef, hook, history>>

BudgetIsLeft(t) ==
    /\ deadline \notin {None, 0}
    /\ Step(t, "budget2", "slice")
    /\ UNCHANGED <<shared, call, batch, wait, history>>

FindsNothing(t) ==
    /\ stopped \/ queue = <<>>
    /\ Step(t, "slice", "leave")
    /\ UNCHANGED <<shared, call, batch, wait, history>>

\* `_lock' was released; now `_drain_lock' is.
Leaves(t) ==
    /\ Returns(t, "leave")
    /\ UNCHANGED <<queue, pol, stopped, deadline, timerRef, hook, history>>

\* Mutant: the newest events first.
NewestFirst(n) == SubSeq(queue, Len(queue) - n + 1, Len(queue))

\* self._queue[:n]
Oldest(n) == SubSeq(queue, 1, n)

Slice(t) ==
    /\ ~stopped /\ queue # <<>>
    /\ Step(t, "slice", "send")
    /\ batch' = [batch EXCEPT ![t] = Oldest(Lesser(pol.batchSize, Len(queue)))]
    /\ UNCHANGED <<shared, call, wait, history>>

-----------------------------------------------------------------------------
(* The answer to a request and the retry table                             *)

Answers(b) ==
    CASE Range(b) \cap Poison # {}    -> {NoStatus}
      [] Range(b) \cap Oversized # {} -> {413}
      [] OTHER                        -> Statuses

\* Mutant: deletes one event, however many were sent.
DeletesOne(n) == SubSeq(queue, 2, Len(queue))

\* del self._queue[:n]
Deleted(n) == SubSeq(queue, n + 1, Len(queue))

\* Back to the top of the loop.
Requeue(t, from) ==
    /\ Step(t, from, "budget1")
    /\ batch' = [batch EXCEPT ![t] = <<>>]
    /\ UNCHANGED <<call, wait, drainLock>>

\* The events are deleted under `_lock', the width is changed after it.
Sent(t) ==
    /\ \E status \in Answers(batch[t]) : Succeeded(status)
    /\ Step(t, "send", "widen")
    /\ queue' = Deleted(Len(batch[t]))
    /\ acked' = acked \cup Range(batch[t])
    /\ UNCHANGED <<pol, stopped, deadline, drainLock, timerRef, hook, call, batch, wait,
                   issued, dropped, told>>

Widens(t) ==
    /\ Requeue(t, "widen")
    /\ pol' = AfterSent(pol, Len(batch[t]))
    /\ UNCHANGED <<queue, stopped, deadline, timerRef, hook, history>>

TooLargeForMany(t) ==
    /\ \E status \in Answers(batch[t]) : IsTooLarge(status)
    /\ Len(batch[t]) > 1
    /\ Requeue(t, "send")
    /\ pol' = AfterHalving(pol, Len(batch[t]))
    /\ UNCHANGED <<queue, stopped, deadline, timerRef, hook, history>>

\* The drop is logged, with extra={"name": ...}, before it is made: a
\* logging.Logger raises KeyError there and the event stays at the head.
TooLargeForOne(t) ==
    /\ \E status \in Answers(batch[t]) : IsTooLarge(status)
    /\ Len(batch[t]) = 1
    /\ LoggerTakesName
    /\ Step(t, "send", "restore")
    /\ queue' = Deleted(1)
    /\ dropped' = dropped \cup Range(batch[t])
    /\ UNCHANGED <<pol, stopped, deadline, drainLock, timerRef, hook, call, batch, wait,
                   issued, acked, told>>

RestoresWidth(t) ==
    /\ Requeue(t, "restore")
    /\ pol' = AfterOversized(pol)
    /\ UNCHANGED <<queue, stopped, deadline, timerRef, hook, history>>

\* Mutant: deletes first and logs, or fails to, afterwards.
TooLargeRaisesLate(t) ==
    /\ \E status \in Answers(batch[t]) : IsTooLarge(status)
    /\ Len(batch[t]) = 1
    /\ ~LoggerTakesName
    /\ Raises(t, "send")
    /\ queue' = Deleted(1)
    /\ pol' = RunEnds(pol)
    /\ UNCHANGED <<stopped, deadline, timerRef, hook, history>>

TooLargeRaises(t) ==
    /\ \E status \in Answers(batch[t]) : IsTooLarge(status)
    /\ Len(batch[t]) = 1
    /\ ~LoggerTakesName
    /\ Raises(t, "send")
    /\ pol' = RunEnds(pol)
    /\ UNCHANGED <<queue, stopped, deadline, timerRef, hook, history>>

Refused(t) ==
    /\ \E status \in Answers(batch[t]) :
          ~Succeeded(status) /\ ~IsTooLarge(status) /\ ~IsRetryable(status)
    /\ Requeue(t, "send")
    /\ queue' = Deleted(Len(batch[t]))
    /\ pol' = AfterRefused(pol)
    /\ dropped' = dropped \cup Range(batch[t])
    /\ UNCHANGED <<stopped, deadline, timerRef, hook, issued, acked, told>>

\* A retryable status, no answer at all, or `_send' raised something that
\* is not an IntemptApiError.
Busy(t) ==
    LET p == AfterRetryable(pol) IN
    /\ pol' = p
    /\ \E status \in Answers(batch[t]) :
          /\ IsRetryable(status)
          /\ \E advised \in IF status = NoStatus THEN {0} ELSE Advised :
                wait' = [wait EXCEPT ![t] = IF BreakerOpens(p) THEN 0 ELSE BackoffMs(p, advised)]
    /\ Step(t, "send", IF BreakerOpens(p) THEN "trip" ELSE "late1")
    /\ UNCHANGED <<queue, stopped, deadline, drainLock, timerRef, hook, call, batch, history>>

\* The breaker: the number of events left is logged, then batching stops.
ReportsStranded(t) ==
    /\ Step(t, "trip", "stop")
    /\ told' = told \cup Range(queue)
    /\ UNCHANGED <<shared, call, batch, wait, issued, acked, dropped>>

StopsBatching(t) ==
    /\ Returns(t, "stop")
    /\ stopped' = TRUE
    /\ UNCHANGED <<queue, pol, deadline, timerRef, hook, history>>

\* A wait that outlives the close budget is not started.  Again the test
\* against None comes before the comparison.
LateTests(t) ==
    /\ Step(t, "late1", IF deadline = None THEN "sleep" ELSE "late2")
    /\ UNCHANGED <<shared, call, batch, wait, history>>

\* Mutant: a wait that ends with the budget is started.
OutlivesByMore(t) == wait[t] > deadline

Outlives(t) == wait[t] >= deadline

LateRaises(t) ==
    /\ deadline = None
    /\ Raises(t, "late2")
    /\ UNCHANGED <<queue, pol, stopped, deadline, timerRef, hook, history>>

LateGivesUp(t) ==
    /\ deadline # None /\ Outlives(t)
    /\ Returns(t, "late2")
    /\ UNCHANGED <<queue, pol, stopped, deadline, timerRef, hook, history>>

LateSleeps(t) ==
    /\ deadline # None /\ ~Outlives(t)
    /\ Step(t, "late2", "sleep")
    /\ UNCHANGED <<shared, call, batch, wait, history>>

\* The sleep is over; back to the top of the loop.
Wakes(t) ==
    /\ wait[t] = 0
    /\ Step(t, "sleep", "budget1")
    /\ batch' = [batch EXCEPT ![t] = <<>>]
    /\ UNCHANGED <<shared, call, wait, history>>

-----------------------------------------------------------------------------
(* The rest of close                                                       *)

\* The `finally' around flush(), on the way out and on the way up.
ClearsDeadline(c) ==
    /\ Step(c, "clearDeadline", "count")
    /\ deadline' = None
    /\ UNCHANGED <<queue, pol, stopped, drainLock, timerRef, hook, call, batch, wait, history>>

ClearsAndRaises(c) ==
    /\ Step(c, "unwind", "raised")
    /\ deadline' = None
    /\ UNCHANGED <<queue, pol, stopped, drainLock, timerRef, hook, call, batch, wait, history>>

ReportsUnsent(c) ==
    /\ Step(c, "count", "halt")
    /\ told' = told \cup Range(queue)
    /\ UNCHANGED <<shared, call, batch, wait, issued, acked, dropped>>

Halts(c) ==
    /\ Step(c, "halt", "cancel1")
    /\ stopped' = TRUE
    /\ UNCHANGED <<queue, pol, deadline, drainLock, timerRef, hook, call, batch, wait, history>>

Unhooks(c) ==
    /\ Step(c, "unhook", "idle")
    /\ hook' = FALSE
    /\ call' = [call EXCEPT ![c] = "none"]
    /\ UNCHANGED <<queue, pol, stopped, deadline, drainLock, timerRef, batch, wait, history>>

-----------------------------------------------------------------------------
\* The application catches what a method raised.
Catches(c) ==
    /\ Step(c, "raised", "idle")
    /\ call' = [call EXCEPT ![c] = "none"]
    /\ UNCHANGED <<shared, batch, wait, history>>

Passing(n) == Greater(0, n - 1)

\* A millisecond passes, where somebody counts it.
Tick ==
    /\ \/ deadline # None /\ deadline > 0
       \/ \E t \in Threads : pc[t] = "sleep" /\ wait[t] > 0
    /\ deadline' = IF deadline = None THEN None ELSE Passing(deadline)
    /\ wait' = [t \in Threads |-> IF pc[t] = "sleep" THEN Passing(wait[t]) ELSE wait[t]]
    /\ UNCHANGED <<queue, pol, stopped, drainLock, timerRef, hook, pc, call, batch, history>>

\* Nobody has anything left to do.
AtRest(t) == pc[t] \in {"idle", "raised", "exited", "unused"}

Quiescent == (\A t \in Threads : AtRest(t)) /\ UNCHANGED vars

Drains(t) ==
    \/ Acquire(t) \/ CancelTests(t) \/ CancelCalls(t) \/ CancelRaises(t) \/ CancelClears(t)
    \/ BudgetTests(t) \/ BudgetRaises(t) \/ BudgetIsSpent(t) \/ BudgetIsLeft(t)
    \/ FindsNothing(t) \/ Leaves(t) \/ Slice(t)
    \/ Sent(t) \/ Widens(t) \/ TooLargeForMany(t) \/ TooLargeForOne(t) \/ RestoresWidth(t)
    \/ TooLargeRaises(t) \/ Refused(t) \/ Busy(t)
    \/ ReportsStranded(t) \/ StopsBatching(t)
    \/ LateTests(t) \/ LateRaises(t) \/ LateGivesUp(t) \/ LateSleeps(t) \/ Wakes(t)

\* What a thread does once it is inside a method; what it may start.
Continues(c) ==
    \/ Schedule(c) \/ \E t \in Timers : Arm(c, t) \/ StartFails(c, t)
    \/ ClearsDeadline(c) \/ ClearsAndRaises(c) \/ ReportsUnsent(c) \/ Halts(c) \/ Unhooks(c)
    \/ Catches(c)

Starts(c) == Accept(c) \/ TurnAway(c) \/ BeginFlush(c) \/ BeginClose(c) \/ ExitHook(c)

Next ==
    \/ \E c \in Callers : Starts(c) \/ Continues(c)
    \/ \E t \in Timers : Fire(t) \/ OnTimer(t)
    \/ \E t \in Threads : Drains(t)
    \/ Tick
    \/ Quiescent

Spec == Init /\ [][Next]_vars

\* Threads are scheduled, timers fire, requests are answered and the clock
\* moves; nobody is obliged to call anything.
Fairness ==
    /\ \A c \in Callers : WF_vars(Continues(c))
    /\ \A t \in Timers : WF_vars(Fire(t) \/ OnTimer(t))
    /\ \A t \in Threads : WF_vars(Drains(t))
    /\ WF_vars(Tick)

FairSpec == Spec /\ Fairness
=============================================================================
