-------------------------- MODULE BufferProperties --------------------------
(***************************************************************************)
(* What the buffer must never do, what it must eventually do, and what its *)
(* documentation says of it.                                               *)
(***************************************************************************)
EXTENDS Buffer

(* Every variable has a value of its type.                                 *)
TypeOK ==
    /\ queue \in Seq(Events)
    /\ Len(queue) <= MaxQueue
    /\ pol \in Policy
    /\ stopped \in BOOLEAN
    /\ deadline \in {None} \cup 0..CloseBudget
    /\ drainLock \in Threads \cup {None}
    /\ timerRef \in Timers \cup {None}
    /\ hook \in BOOLEAN
    /\ pc \in [Threads -> Labels]
    /\ call \in [Threads -> {"none", "timer"} \cup Methods]
    /\ batch \in [Threads -> Seq(Events)]
    /\ wait \in [Threads -> 0..MaxRetryMs]
    /\ issued \in 0..MaxEvents
    /\ acked \subseteq Events
    /\ dropped \subseteq Events
    /\ told \subseteq Events

-----------------------------------------------------------------------------
(* Safety                                                                  *)

Draining(t) == pc[t] \in {"send", "trip", "stop", "late1", "late2", "sleep"}

(* The drainer is between its checks, or has a batch: it has the lock.     *)
LockInv ==
    \A t \in Threads :
        pc[t] \in {"budget1", "budget2", "slice", "leave", "widen", "restore"} \/ Draining(t)
        => drainLock = t

(* A batch is the head of the queue until it is deleted from it.           *)
HeadInv ==
    \A t \in Threads : Draining(t) =>
        /\ Len(batch[t]) \in 1..Len(queue)
        /\ batch[t] = SubSeq(queue, 1, Len(batch[t]))

(* A request is at most a batch wide and is made while the breaker is shut.*)
SendInv ==
    \A t \in Threads : pc[t] = "send" => Len(batch[t]) <= pol.batchSize /\ ~BreakerOpens(pol)

(* An open breaker has stopped the batching, or is about to.               *)
BreakerInv ==
    BreakerOpens(pol) => stopped \/ \E t \in Threads : pc[t] \in {"trip", "stop"}

(* What is true of every state and of every step from it: the invariant by *)
(* which the rest is proved.                                               *)
IInv == TypeOK /\ LockInv /\ HeadInv /\ SendInv /\ BreakerInv

(* _drain_lock, "so two callers can never drain the same slice": what a    *)
(* drainer has in flight is still the head of the queue when it deletes    *)
(* that many events from it, whatever was enqueued meanwhile, and nobody   *)
(* else has a batch.                                                       *)
InFlightIsHead ==
    \A t \in Threads : Draining(t) =>
        /\ drainLock = t
        /\ Len(batch[t]) \in 1..Len(queue)
        /\ batch[t] = SubSeq(queue, 1, Len(batch[t]))

(* An event handed to enqueue is in exactly one place: still queued, or    *)
(* accepted by the server, or dropped with an announcement.  None vanishes *)
(* and none that has left is ever sent again.                              *)
Accounted ==
    /\ 1..issued = Range(queue) \cup acked \cup dropped
    /\ Range(queue) \cap (acked \cup dropped) = {}
    /\ acked \cap dropped = {}

(* Events are delivered in the order in which enqueue took them, across    *)
(* retries, halvings, drops and whichever threads drained.                 *)
FirstInFirstOut ==
    \A i \in 1..Len(queue) :
        /\ \A e \in acked : e < queue[i]
        /\ \A j \in 1..(i - 1) : queue[j] < queue[i]

(* Queued events are somebody's business: while batching is on and the     *)
(* queue is not empty, a thread is on its way through flush or a timer is  *)
(* running ("a dead timer stops every later auto-flush").  It holds while  *)
(* nobody closes, every drop can be logged and timers start.               *)
FlushPending == queue # <<>> /\ ~stopped => \E t \in Threads : ~AtRest(t)

(* `_timer', on whose word _schedule_flush starts no other timer, never    *)
(* names one that cannot fire, unless somebody is about to clear it.  It   *)
(* holds while timers start.                                               *)
TimerRefIsLive ==
    \/ timerRef = None
    \/ pc[timerRef] \in {"armed", "fired"}
    \/ \E t \in Threads : pc[t] = "cancel3"

(* A close() that drains never starts a sleep that outlives its budget.  It*)
(* holds while one thread closes.                                          *)
CloserNeverOversleeps ==
    \A c \in Callers :
        pc[c] = "sleep" /\ call[c] = "close" => deadline # None /\ wait[c] < Greater(1, deadline)

(* The detailed buffer keeps the contract, batches, halvings, retries,     *)
(* timers and closers included: it takes, delivers and gives up as the     *)
(* contract allows, and every other step is invisible to it.               *)
Contract ==
    INSTANCE DeliveryContract WITH
        pending <- queue, handed <- issued, delivered <- acked, givenUp <- dropped,
        open <- ~stopped

KeepsContract == Contract!Spec

-----------------------------------------------------------------------------
(* Liveness, under FairSpec                                                *)

(* Every event taken leaves the queue, or the breaker stops batching: the  *)
(* hand-over between callers and timers never forgets one.                 *)
EventuallyLeaves == \A e \in Events : e \in Range(queue) ~> (e \notin Range(queue) \/ stopped)

(* close() returns or raises, whatever the server answers and whoever else *)
(* is draining.                                                            *)
CloseEnds == \A c \in Callers : call[c] = "close" ~> pc[c] \in {"idle", "raised"}

-----------------------------------------------------------------------------
(* What the documentation says                                             *)

(* _buffer.py:282 "Drain within the budget, then report anything left      *)
(* behind": once batching has stopped and nobody drains, what is queued was*)
(* counted by the line that says so.                                       *)
StrandedAreReported ==
    stopped /\ (\A t \in Threads : AtRest(t)) => Range(queue) \subseteq told

(* README.md "close() drains for at most 30 seconds, then stops retrying": *)
(* nobody who keeps a close() waiting is asleep when its budget is spent.  *)
CloseKeepsBudget ==
    \A c, t \in Threads :
        call[c] = "close" /\ deadline = 0 /\ pc[t] = "sleep" => wait[t] = 0

(* _buffer.py:257 "everything behind them sends fine": an oversized event  *)
(* does not hold up the one behind it for ever.                            *)
OthersSendFine ==
    \A e \in Events \ Oversized : e \in Range(queue) ~> (e \notin Range(queue) \/ stopped)
=============================================================================
