# Verification of intempt-python

TLA+ models of the Intempt server-side Python SDK (`src/src/intempt`), TLC
configurations that check them on small instances, and proofs, checked by
TLAPS, of the main results for every value of the constants.  Source paths below
are relative to `src/src/intempt` unless they say otherwise.

## 1. The system

The library is a thin client: an application calls `track`, `identify`,
`group`, `ecommerce.*`, `consent.*`, `recommend` and the flag methods; each is one
HTTP POST to the service, except that, when batching is configured, the writes are
buffered and sent in batches by whoever drains the buffer.  One client object is
shared by all threads of an application.

| component | state | operations | interacts with |
| --- | --- | --- | --- |
| **Buffer** (`_buffer.py`) | `_queue`, `_stopped`, `_timer`, `_close_deadline`, `_batch_size`, three run lengths; `_lock` and `_drain_lock` | `enqueue`, `flush`, `close`, the timer's `_on_timer`, the interpreter's exit hook | application threads and `threading.Timer` threads call it; it calls the client's `_send` and the logger |
| **Retry policy** (`_buffer.py`, `_errors.py`) | the width and the run lengths | `_handle_failure`, `_handle_too_large`, `_widen_if_earned`, `_backoff_ms`, `IntemptApiError.retryable` | part of `flush` |
| **Transport** (`_transport.py`) | `_config`, the pooled `_conn`, `_closed`; one `_lock` | `post`, `set_config`, `close` | called by the client; uses `http.client` |
| **Client** (`_client.py`) | `_config`, `_opted_in`, `_closed` (none locked) | the data and decision methods, `opt_in`, `opt_out`, `set_config`, `flush`, `close` | owns a buffer and a transport |
| **track_batch** (`_client.py:168`) | futures of a thread pool | chunks sent one after the other or in parallel | client, transport |
| **Flags** (`_flags.py`, `_client.py:282`) | none | `variation` and its typed forms, `all_flags`, `wait_for_initialization` | transport |
| **Configuration** (`_config.py`) | frozen values, replaced as a whole | `resolve_config`, `merge_config` | client, transport |
| **Helpers, package surface, errors** (`_util.py`, `__init__.py`, `_errors.py`) | none | `chunk`, `non_blank`, `require_identifier`, `compact`, timestamps; exception classes | everything |

### What is hard about it, and what makes it correct

*Buffer.*  Application threads, timer threads, `close()` and the exit hook all
drain one queue.  The slice is sent outside `_lock` and deleted by its length
afterwards; only `_drain_lock` makes that sound.  `_timer` and
`_close_deadline` are tested and used without any lock.  The logger, the timer
and `_send` may raise in the middle of a method.  Correct means: no event is
lost without an announcement, none is sent again after it left the queue, order is kept, a
non-empty queue always has somebody on the way to it, `close()` ends, and does
not start a wait that its budget cannot pay for.

*Retry policy.*  Four numbers are updated in place by six outcomes, each of
which resets a different subset.  A missing reset shows only after a long
sequence of answers.  Correct means that each number is what its name says of
the whole history.

*Transport.*  A connection is reused by every thread; a request may time out
with its answer still to come, `set_config` may move the client to another
host and `close()` may come between two waiting threads.  Correct means: one
exchange at a time, to the host in force, never over a connection with an
answer outstanding, and none after `close()`.

*Client.*  Three attributes no lock protects decide whether an event is sent,
discarded or refused, and are read at different moments of one call.  Correct
means: a write that has returned was accepted, or dropped out loud, or held
back by the opt-out gate; what was buffered when `opt_out()` was called is not
delivered; `close()` sends what it drains; the client and its transport agree
on the configuration.

*The calls.*  Nine methods write and seven read, each with a validation, a gate and
a request of its own; consent goes through none of what the others share.
`set_config` is validated by other code than the constructor.  Two read paths
interpret one response.  Correct means: no sequence of patches makes a client
the constructor would have refused, or sends a host's requests to another
host's port; each event of a batch is sent once, in order unless a pool sends
the chunks, and all of them if the call returns; every item on
the wire names somebody its endpoint can resolve; no write leaves a client that
is opted out; a flag read returns the caller's default, or what was served under
that key with that type, whatever the service does.

## 2. The modules

| module | what it is |
| --- | --- |
| `RetryPolicy` | the retry table as pure functions on the policy's four numbers |
| `RetryHistory` | the retry table run against every sequence of answers, with the answers kept; each number compared with its definition on the history |
| `Buffer` | the buffer: threads, timers, locks, drains, failures, close |
| `DeliveryContract` | what a buffer promises, with threads, batches and retries left out: the abstract specification |
| `BufferProperties` | the buffer's invariants, liveness properties and refinement mapping |
| `MCBuffer` | values for the buffer's runs |
| `Transport` | the pooled connection behind its lock, as actions a client is composed from |
| `Client` | the client over the transport and over a buffer of which only the contract is used |
| `ClientProperties` | the client's properties |
| `MCClient` | values for the client's runs |
| `Configuration` | `resolve_config` and `merge_config` as predicates and functions on option records |
| `Requests` | what a call puts on the wire, what it refuses, and what `Transport.post` makes of an answer; pure |
| `Flags` | from the answer of the evaluation endpoint to the value the caller gets; pure |
| `Session` | every method of a client that does not batch, with its arguments, one call a step |
| `SessionProperties` | what the calls promise |
| `MCSession` | values for the session's runs |
| `RetryPolicyProofs`, `RetryHistoryProofs` | theorems about the functions of the retry table, and about its every history |
| `BufferProofs`, `DeliveryProofs` | theorems about the buffer, and that it keeps its contract |
| `ClientProofs`, `ClientPlacesProofs`, `ClientLedgerProofs` | theorems about the wire; where threads and events of a client are; what becomes of the events |
| `SessionProofs` | theorems about the calls |

`Buffer` extends `RetryPolicy`; `Client` extends `Transport`.  `Transport` has no
next-state relation of its own: whatever it does is done by a call of the
client.  `Client` does not contain `Buffer`: the product of the two would be out of TLC's
reach and most of it irrelevant to the client.  It has instead a line, a
drainer and a door that closes, that is the contract, and `Buffer` implements
the contract: the run `buffer_close` checks `KeepsContract` and
`DeliveryProofs` proves it.
So what is checked of `Client` holds of the client with this buffer as far as
it depends on the contract alone.

`Configuration`, `Requests` and `Flags` are layers of operators, each extending
the one before, and `Session` is the machine over them.  `Client` and `Session`
are two views of the same class: `Client` has the threads, the buffer and the lock, and an event is
a number in it; `Session` has one thread and the contents of calls, requests
and answers.  What depends on both, such as a request under way while `set_config`
runs, is in `Client` only.

### Granularity

CPython may switch threads between any two bytecodes, and the models assume no
more than that.

- A section under `_lock` of the buffer is one step.
- An attribute read or written outside the lock that its other users take is a
  step of its own.  A test followed by a use is two:
  `_cancel_timer` is `CancelTests`, `CancelCalls` (or `CancelRaises`) and
  `CancelClears`; `_out_of_close_budget` is `BudgetTests` and then one of
  `BudgetRaises`, `BudgetIsSpent`, `BudgetIsLeft`; the same test before a
  backoff is `LateTests` and its successors; `_schedule_flush` is `Schedule` and
  `Arm`; `close()` counts (`ReportsUnsent`) and then stops (`Halts`).
- The run lengths of the policy are read by the drainer only, under the drain
  lock, so they are updated in one step with the answer.  The width is read
  by `enqueue` too; where it is written after a deletion (`Widens`,
  `RestoresWidth`) it is a step of its own.
- `flush` releases `_lock` before `_drain_lock` when it finds nothing:
  `FindsNothing`, then `Leaves`.  An `enqueue` may come in between, and its event
  must not be forgotten.
- The transport's lock is held across a whole exchange: `Begins` takes it,
  `Accepted` or `Rejected` gives it back.
- In the client, `is_opted_in()` reads `_opted_in` and then `_closed`.  It is one
  step: `_closed` never goes back, so the answer is that of the moment of one of
  the two reads.  Every other read of an attribute is a step of its own: the
  `_closed` of `_assert_open`, the gate of `_submit`, the gate of `_send`, the
  `_config` from which the path is made, and the two of `set_config`.
- In `Session` a call is one step, for no other caller can come in between: it
  leaves the call, its requests, their answers and its result in variables, and
  `Return` clears them before the next call.  The pool of `track_batch` is the
  exception: its workers race for the transport's lock.  What can be told
  from outside is the order in which the chunks are posted, and the step
  chooses one: when the k-th chunk is posted k - 1 others were, and each worker
  may hold one it took before and has not posted (`PostingOrders`).

### History variables

`issued`, `acked`, `dropped` and `told` of the buffer, and `issued` to `cutOff` of the client,
record what happened and are read by no guard, except that `issued` numbers
the events and bounds them.  Definitions whose comment begins with "Mutant" are
not part of the models: each is a slip (a dropped guard, a missing reset, a
swapped order) which, put in place of the definition after it, makes the
property named in `PROJECT.json` fail.

## 3. How the models correspond to the code

`PROJECT.json` maps every definition to its lines.  In outline:

| code | model |
| --- | --- |
| `Buffer.enqueue` (`_buffer.py:102`) | `Accept` or `TurnAway`, then `Schedule`/`Arm` or the drain |
| `Buffer.flush` (`:136`) | `Acquire` ... `Slice`, then the answer (`Sent`, `TooLargeForMany`, `TooLargeForOne`, `TooLargeRaises`, `Refused`, `Busy`), and back to the budget test |
| `_handle_failure`, `_handle_too_large`, `_widen_if_earned`, `_backoff_ms` | the actions above, with `AfterSent`, `AfterHalving`, `AfterOversized`, `AfterRefused`, `AfterRetryable`, `BackoffMs` of `RetryPolicy` |
| `Buffer.close` (`:281`) | `BeginClose`, the drain, `ClearsDeadline` or `ClearsAndRaises`, `ReportsUnsent`, `Halts`, the cancelling, `Unhooks` |
| `_on_timer`, `_on_exit` | `Fire`, `OnTimer`; `ExitHook`; both swallow what `flush` raises |
| `Transport.post` (`_transport.py:135`) | `PostIsRefused`, `PostStarts`, `PostCannotStart`, `PostCannotEncode`, then `Answered` or `Lost` |
| `Transport.set_config`, `close` | `Reconfigured`, `Shuts` |
| `Intempt.track` and its kin, `_submit`, `consent` | `WriteBegins`, `AssertsOpen`, `PassesGate`, `DiscardsQuietly`, `Enqueues`, `TurnedAway` |
| `_send` and the path (`_client.py:600`) | `PassesSendGate`, `Discards`, `ReadsPath`, then the transport's actions |
| `track_batch` | `BatchBegins`, `SendsNext`, `WorkerTakes`, `WorkerEnds`, `PoolEnds` |
| `flush`, `close` of the client | `FlushBegins`, `CloseBegins`, `DrainLocks` ... `DrainRaises`, `StopsBuffer`, `Marks`, `Releases` |
| `opt_in`, `opt_out`, `set_config` | `OptsIn`, `OptsOut`; `SetConfigBegins`, `Assigns`, `PassesOn`, `Applies` |
| `resolve_config` (`_config.py:99`) | `ResolveAccepts`, `Resolved`: the initial states of `Session` |
| `merge_config` (`:167`) | `MergeAccepts`, `Merged`, `PortOf`; `SetConfig` of `Session` |
| `track`, `identify`, `group`, `ecommerce.*`, `consent.*` with their arguments | `Track`, `Identify`, `Group`, `Commerce`, `RecordConsent`; `Submits` is `_submit` and `_send` |
| `track_batch` with its events (`_client.py:168`) | `TrackBatch`, `SendsChunks`, `Chunk`; `SendsInTurn` without a pool, `SendsByPool` and `PostingOrders` with one; `FirstFailure`, `Crashes` |
| `recommend`, `variation` and the typed forms, `all_flags`, `wait_for_initialization` | `Recommend`, `Vary`, `ReadAll`, `WaitForInitialization` |
| `post`'s result, `parse_retry_after` (`_transport.py:66`) | `Posted`, `RetryAfterMs`, `Overflows` |
| `_choose_or_empty`, `_variation_detail`, `all_flags` (`_client.py:290`) | `ChoicesOf`, `Absorbs`, `Variation`, `Typed`, `AllFlags` |

The environment is modelled by what it may do: a server answers any status of
a set, or nothing, with any `Retry-After` of a set; an event may be too large
for the gateway (`Oversized`) or impossible to serialise (`Poison`); the logger
is a `logging.Logger`, which refuses `extra={"name": ...}` with a `KeyError`,
or one that takes it (`LoggerTakesName`); a `Timer` may fail to start; a `feed_id`
may lie outside ASCII.  In `Session` an identifier is left out, empty, blank, of
another type or usable; the JSON of a flag's body is one of `Bodies`, of which
`"huge"` is an integer that no float can hold; a choice may be no mapping, or have a
list for a name.  Time is an integer of milliseconds on a small scale
that only the close budget and the waits count.

## 4. The runs

All passing runs explore the whole state space of their instance.  Deadlock is
checked in every run: a state in which nobody has anything left to do steps to
itself (`Quiescent`), and any other state without a successor is an error.

| run | what it asks | bounds |
| --- | --- | --- |
| `buffer_safety` | two producers, one of which may flush; success, 413, a refusal and a retryable failure at every request: `InFlightIsHead`, `Accounted`, `FirstInFirstOut`, `FlushPending`, `TimerRefIsLive` and, under fairness, `EventuallyLeaves` | 3 events, the last of which cannot be serialised, a queue of 2, batches of 2, 2 timers, breaker after 2 failures |
| `buffer_close` | a producer against `close()` (also twice) and the exit hook, with the logger that raises, `Retry-After`, an oversized event and a timer that may not start: the proofs' invariant `IInv`, `Accounted`, `CloserNeverOversleeps`, the contract `KeepsContract` and, under fairness, `CloseEnds` | 2 events, budget of 3 ms, waits up to 4 ms |
| `retry_history` | every sequence of answers: `FailuresAreARow`, `NoticePerRow`, `ReductionEnds`, `WideningIsEarned` | 6 answers, widths up to 3, breaker after 3, widening after 2, notice after 2 |
| `client_safety` | one thread that calls `track_batch`, one that writes consent, reads and reconfigures, one that opts in and out, flushes and closes; with and without a buffer: the type invariant and the seven safety properties of `ClientProperties` | 2 events, 2 workers, 2 configurations |
| `session` | every method with its arguments, under every configuration that patches reach and for every answer: the nine invariants of `SessionProperties` | patches of at most 2 options, sizes of the wrong type among them, batches of at most 3 events in chunks of 1 or 2, lists of at most 2 choices, 2 keys |
| `close_strands`, `close_waits`, `oversized_blocks`, `silent_after_close`, `pool_poisoned`, `flag_read_raises`, `retry_after_raises` | one sentence of the documentation each, which the code does not keep (section 7) | the smallest instance that shows it |

*Why the bounds are enough.*  A race in the buffer needs two threads and
whoever holds the lock; two callers and two timers give four, with one timer
running while another is created.  Two events fill the queue (`MaxQueue` = 2)
and a batch, and a third arrives while a drain is under way or finds the
queue full.  Timer identities are re-used, which stands for any number of
`Timer` objects of which at most two are alive.  The breaker after two failures
rather than five, the widening after two successes rather than ten and the
notice after one drop or two make the thresholds reachable; the proofs do not fix them.
The budget (2 or 3) and the longest wait (4) are such that a wait can be
shorter than what is left of the budget, equal to it, and longer.  In
`retry_history` six answers are enough for a reduction from width 3, a full
run of successes, its interruption and another one.  `DropsBound` saturates the
tally of drops one above the only value with which the code compares it.  In the client two
events are a batch whose chunks fail independently, two workers are two
requests that wait for one connection, and two configurations differ in host
and in path.  In `session` the number of calls is not bounded: the state keeps
only the present call, and the configurations that patches reach are few.
Patches of two options have every pair of a valid and an invalid one; a chunk
size of 0, 1, 2 and of the wrong type against batches of 0 to 3 events gives no
chunk, whole chunks and a remainder, and with a pool of 2 the orders in which up to
three chunks can be posted, with failures that come before an earlier chunk's; two choices are a match before or after a malformed one, and a
duplicate name.

The bounds are `MaxEvents`, `MaxAnswers`, `Timers`, `Workers`, `Roles` (who may
call what), `Configs`, `MaxNamed`, `MaxBatch`, `MaxChoices`, `DropsBound` and the small time scale; every guard that
enforces one says so in the module.

*Symmetry.*  `Workers` in `client_safety` are interchangeable, and no liveness
property is checked there.

*Fairness* (`FairSpec` of `Buffer`, used by `buffer_safety`, `buffer_close` and
`oversized_blocks`).  Weak fairness of each thread inside a method, of each
timer, and of the clock: the operating system schedules every runnable thread, an armed
`Timer` fires unless it is cancelled, a request ends because the socket has a
timeout, and time passes.  Nobody is obliged to call anything, `flush()` least of
all: an event leaves the queue by the timers and the width alone.  Weak fairness
of `Acquire` says that a thread gets a lock that stays free; a lock that is
taken over and over might starve it, and the code has no more to offer there.
`CloseEnds` holds all the same, because the number of events is bounded; with
producers that never stop, `close()` may wait for the drain lock for as long as
they keep it busy.

### What the properties say, beyond the obvious

- `InFlightIsHead`: what a drainer has in flight is still the head of the queue
  when he deletes that many events from it, whoever appended meanwhile, and
  nobody else has a batch.
- `Accounted`: an event handed to `enqueue` is in exactly one place, queued,
  accepted or announced as dropped, also when the logger, the timer or
  the budget test raise.
- `FlushPending`: while batching is on and the queue is not empty, somebody is
  on his way.  It is the hand-over between a drainer who found nothing and an
  `enqueue` that saw a timer.
- `TimerRefIsLive`: `_timer`, on whose word no other timer is started, never
  names one that cannot fire.
- `CloserNeverOversleeps`: a draining `close()` never starts a wait that outlives
  its budget.
- `NoticePerRow`, `FailuresAreARow`, `WideningIsEarned`, `ReductionEnds`: the
  four numbers against the history of all answers.
- `ExchangesAreExclusive`, `NoLateAnswers`, `ClosedIsQuiet`: one exchange at a
  time, over a connection nobody else's answer may arrive on, to the host
  in force, and none after `close()`.
- `NothingSwallowed`: ARCHITECTURE.md's "Errors surface. Nothing is swallowed",
  chunk by chunk, and no chunk still under way when the call is over.
- `OptOutHolds`: events in the buffer at `opt_out()` that no request has taken
  up are not delivered, unless somebody opts in again.
- `CloseStillSends`: what `close()` drains is sent and not discarded by the gate
  that the same flag closes.
- `ConfigsAgree`: the client and the transport have the same configuration when
  no `set_config` is under way, provided one thread calls it.

- `ConfigStaysUsable`, `PairWasAsked`: `set_config` against the
  constructor, over any sequence of patches.  `max_request_events` and
  `max_concurrent_requests` are not among the usable options: no branch of
  `merge_config` looks at their values.
- `BatchIsWhole`: each request of `track_batch` is a run of the batch of at most
  the configured size, and no two share an event.  Without a pool they are, end to end, a
  prefix of the batch.  With one they come in an order of their own, and are
  all of the batch also when one fails.  All was posted and accepted when the
  call returns; what it raises is the failure nearest to the start of the
  batch, which need not be the first in time; nothing was posted when it
  refuses, also when `set_config` made the size 0.
- `RequestsNameSomebody`: every item of every request has an identifier its
  endpoint resolves, whichever validation let it through.  For `/track` the property
  has what `require_identifier` tests, so a `profile_id` alone will do; the
  documentation says it will not (section 7).
- `WritesAreSuppressed`: no method posts a write after `opt_out()` or `close()`,
  and only reads pass when opted out.
- `ReadsSurviveOutages`, `ServedOrDefault`, `ReadPathsAgree`: what a flag read
  may return for a failed exchange, an unusable body and any list of choices,
  and that the two read paths tell the same.

## 5. What is proved

The proofs hold for any number of callers, timers, workers, events, hosts and
configurations, any thresholds and any set of statuses that satisfy the
named assumptions of the modules, and for behaviours of any length.  Every
safety invariant and action property of the passing runs is a theorem.  What a
theorem assumes beyond the constants' assumptions is said where it is listed
below.

**Retry policy** (`RetryPolicyProofs`).  Every outcome maps a `Policy` to a
`Policy`: no width below one or above the full one, no count of failures above
the breaker's.  `BackoffIsBounded`: every wait lies between the floor and the
ceiling, whatever `Retry-After` says.  `HalvingShrinks`: a batch of several
events refused with 413 is strictly narrower next time and the refusal does
not count toward the breaker.

**Histories** (`RetryHistoryProofs`).  Over every sequence of answers the numbers
keep within their bounds (`HistoryTypes`) and are what they stand for:
`FailuresCountARow`, `OneNoticePerRow`, `WidthIsEarned`, `ReductionIsNotForGood`.
The run `retry_history` shows this for six answers and thresholds of two or
three, the theorems for any number of answers and the code's five, ten and three.  Nothing
is proved by induction over a history.  What is proved instead is how each
definition on the history changes with one more answer: `RunGrows` for the
length of a run, `NoticedGrows` for the rows that got long enough, `RowGrows` for
the successes that filled a width; each rests on `LastIsLast`, that of the positions
where a run may have ended one is the last.  For the width two invariants are
needed: `EarnInv`, that the tally of successes is the length of the
current row at the current width, and `WidthInv`, that along a row of successes
the width has only grown, by doubling.  `EarnInv` needs `WidthInv` where the
width has just grown: no success of the row can have filled the new one.
`ReductionIsNotForGood` is a count: had the width not grown along the row, all
of the row would have filled it, and the tally would be past its limit.

**Buffer** (`BufferProofs`).  `TypeCorrect`: `Spec => []TypeOK`.
`DrainsAreExclusive`: `Spec => []InFlightIsHead`.  Neither is inductive.  The
invariant `IInv` has four more parts:

- `LockInv`: a thread between its checks, or with a batch, or about to change
  the width, holds the drain lock;
- `HeadInv`: a batch is the head of the queue until it is deleted from it;
- `SendInv`: a request is no wider than the width and is made only while the
  breaker is shut.  Types need it: after a 413 the width is half of *the batch*,
  and a failure adds one to a count that must stay in range;
- `BreakerInv`: an open breaker has stopped the batching or is about to.
  `SendInv` needs it, for the next drainer finds `_stopped` only if the one
  before has set it before he gave the lock back.

`TypeStep`, `LockStep`, `HeadStep`, `SendStep` and `BreakerStep` prove that each
part survives every action, one step per action; `HeadStep` rests on two lemmas on sequences
(`HeadOfAppend`: an event that joins the tail does not move the head; `Slices`: what a
slice and what is left of a deletion are).  The run `buffer_close` checks `IInv` too.

The second half of `BufferProofs` is about timers and sleeps.

- `TimersAreLive` (`TimerRefIsLive`), if timers start (`StartCanFail` is
  `FALSE`).  The invariant is inductive once types are known: a timer that ends
  its run clears `_timer` or finds it cleared, whoever cancels meanwhile.
  With a timer that cannot start it does not hold, as section 7 says.
- `EventsArePending` (`FlushPending`), if besides nobody closes (`NoCloser`) and the
  logger takes every drop (`LoggerTakesName`).  `PendingInv` adds
  where the owner of the drain lock may be, that only he cancels timers, and that when `_timer` was
  cleared between his two reads of it somebody is waiting for the lock.  Neither hypothesis
  can be spared: an event enqueued behind the count of `close()` has nobody on the way to
  it (`close_strands`), and a log call that raises ends a drain with the queue
  not empty (`oversized_blocks`).
- `ClosersWakeInTime` (`CloserNeverOversleeps`), if one caller closes
  (`OneCloser`).  `CloserInv` says where a `close()` has its deadline; another
  `close()` could clear it.

`TimerRefIsLive` and `FlushPending` are checked by `buffer_safety`, where nobody
closes, and `CloserNeverOversleeps` by `buffer_close`, where one caller does: each
run meets the hypotheses of the theorem.

**Delivery** (`DeliveryProofs`).  `ImplementsContract`: `Spec => KeepsContract`.
`StepKeeps` goes through the actions: from `HeadInv`, an answer that deletes a
batch deletes the head of the queue, which is what the contract's `Deliver` and
`GiveUp` do; `Accept`, `TurnAway`, `Halts` and `StopsBatching` are `Take`, `TurnAway`
and `Close`; every other action is invisible.  From then on only the
contract's steps matter, and `NothingIsLost` (`Spec => []Accounted`)
and `OrderIsKept` (`Spec => []FirstInFirstOut`) need no further look at the
threads.  Each of the two needs the other: what leaves the queue is no longer in it
because the queue is strictly increasing (`Cut`).

**Client and transport** (`ClientProofs`).  `RequestsAreExclusive`,
`NothingAfterClose` and `AnswersMatch`: the specification keeps
`ExchangesAreExclusive`, `ClosedIsQuiet` and `NoLateAnswers`.  The invariant
`WireInv` says that the lock is held exactly by the thread that waits for an answer; the
pooled connection leads to the current host; while the lock is held there
is a connection with a request sent, and while it is free there is none such; and a thread about
to hand on a configuration has one.  Most actions of the client do not touch the wire:
`QuietSteps` treats them at once, and only the actions on the connection have
proofs of their own.

**What becomes of events** (`ClientPlacesProofs`, `ClientLedgerProofs`).
`ClientTypes`, `WritesAreAccountedFor` (`NothingSwallowed`) and `OptOutIsKept`
(`OptOutHolds`) hold for any number of callers and workers;
`CloseSendsWhatItDrains` (`CloseStillSends`) if one caller closes
(`OneCloser`) and `OneSetterAgrees` (`ConfigsAgree`) if one reconfigures
(`OneSetter`), as in the run `client_safety`.  The argument has three layers:

- `ShapeInv`: what a thread may hold at each label.  Only the owner of the drain
  lock drains; only a caller that waits for its pool owns workers, or has lost
  a request of theirs; a request holds events only while it is under way.
- `PlaceInv`: an event is in line, or in one call that has yet to hand it
  over, or in one request, and in each of them once; a drain's request holds
  the head of the line.  It needs `ShapeInv` at every step that moves events, to know
  that the place they are moved to was empty.
- over these, one invariant per conclusion.  `AccountInv`: a request that
  returned is accounted for, and a caller's latest write is, up to what it or its
  workers have yet to hand over.  `RevokedInv`: no request past the gate holds an
  event that was revoked; by `PlaceInv` an event still in the line is in no
  other request.  `CloserInv`: while a `close()` drains the client does not count
  as closed, for only the one who closes could say so.  `SetterInv`: what
  `set_config` hands on is the client's configuration of now.

`LedgerInvariant` states the conjunction of the first two layers with `AccountInv`
and `RevokedInv`.  For each family of actions that leave a part alone there is
one lemma (`Bypasses`, `Clears`, `NoNewCloser`, `KeepsConfigs`), so that only the
actions that matter have proofs of their own.

**The calls** (`SessionProofs`).  For any options, patches, arguments, choices and
answers: `PatchesKeepUsable` and `HostKeepsItsPort` for the
configuration, `OptOutSuppresses` for the writes, `OutagesServeDefaults`,
`BothPathsAgree` and `ReadsAreServed` for the flag reads.  `PatchesKeepUsable` and `HostKeepsItsPort` are
inductive; their step is the accepted patch, where `Merged` must be seen to take
host and port from one option.  `WritesAreSuppressed` and the flag reads
are established by every call anew and kept by nothing, so there the invariant is what each
call leaves in `call`, `sent`, `answers` and `outcome`.  `BothPathsAgree` rests on a
lemma about cardinality: a name that occurs at most once has one index, so the
first choice of that name, which `variation` takes, is the last one, which
`all_flags` keeps.

`SessionTypes`, `EveryRequestNamesSomebody` and `BatchesAreWhole` go through every
method.  `SessionTypes` needs `SizesInv`, that the two sizes of a configuration
are integers or of the wrong type altogether, whatever the patches were, and that a
wait asked for is never negative.  It claims types and no more: an exception that is
neither of the documented two is a result a call may have, and the runs
`flag_read_raises` and `retry_after_raises` show two that should not be.
`EveryRequestNamesSomebody` follows the three validations to
the requests they let through.  `BatchesAreWhole` is about chunks: chunk *i* is the
slice of the batch between two multiples of the size (`ChunksAreSlices`,
`ChunkPlaces`), so chunks are apart (`ChunksAreApart`) and every event is in one
(`ChunksCover`).  `BatchSends` says of both ways to send that there are an order,
which is a bijection, and the answers chunk by chunk; an order of all chunks
posts all of the batch, and the first failure by chunk is the one nearest to the
start because the chunks begin at growing multiples.  In turn the order is the
identity, and the chunks put end to end are a prefix of the batch.  `FlattenSeq` is recursive; what it does to slices is proved by
induction on their number, carried by a set in place of a predicate:
of the numbers at which the claim fails one would be the least (`LeastOf`, from
the well-foundedness of `<`).

*Assumptions.*  `WidthAssumption`, `IntervalAssumption`, `CountAssumption`,
`ThreadAssumption`, `QueueAssumption`, `ServerAssumption`, `FlagAssumption`,
`TransportAssumption`, `ClientAssumption`, `ConfigAssumption`, `FlagsAssumption`
(a key is no name of a malformed choice, the default no body of a response), `SessionAssumption` (a host
option is split in two, choices form a sequence), `ArgumentAssumption` (a batch is
a sequence; a patch's size is an integer, or `Junk` when using it raises `TypeError`; a
header's number is an integer),
`HistoryAssumption`: what `resolve_config`
enforces (positive sizes and intervals, a queue not below the batch size) and what Python gives (threads
and `None` are different things).  `PowerAssumption`, that `2^n` is a natural
number for the exponents in use, is a fact of arithmetic for which the provers
have no theory.  TLC evaluates all of them in every run.

*Only model-checked.*  Liveness (`CloseEnds`, `EventuallyLeaves`): the provers
have no rule for fairness or `ENABLED`.  That a contract's deliveries go on, which
would be the liveness of `DeliveryContract`, is not stated for the same reason.

## 6. What is not modelled, and why

- The arithmetic of timestamps: `ensure_timestamp` is modelled by whether it
  refuses a value, and the clock not at all.
- Headers, credentials, the encoding of JSON, status lines; `path`, `debug` and the
  properties of an event, which no branch reads.
- The reason of a `FlagDetail`, which is internal and never returned.
- A client that batches with the contents of its events: `Session` has no
  buffer, `Client` no contents.  The validation comes before the buffer in every
  method, so that what `Session` shows of it holds there too.
- The intervals of timers: an armed timer may fire at any moment.
- `KeyboardInterrupt` and other exceptions that are not `Exception`.
- In `Client` a drain is begun by `flush` and `close` only.  The one that an `enqueue`
  begins on its own thread when the queue has a batch's length is in `Buffer`
  (`Accept` goes on to `acquire`); in `Client` the `FlushBegins` of another caller stands
  for it, so what such a drain raises does not come out of the write there.
- Sizes that are NaN.
- A log handler that calls the same buffer again: `_lock` is not reentrant and
  the thread would wait for itself (a hazard in `PROJECT.json`).
- Daemon threads at interpreter exit; the exit hook is one more caller.
- `keep_alive=False` is in the model (`Taken`, `Answered`, `PostCannotEncode`) and in the
  proofs, and no run exercises it.
- The examples, the scripts and the repository's release gates: they run from
  top to bottom, use the library and are part of no component of it.  The package's
  `__init__` is a list of names.

## 7. What the runs found

Each is a run that TLC is expected to refute, with a sentence of the repository.

| run | what happens |
| --- | --- |
| `oversized_blocks` | with a `logging.Logger`, the drop of an oversized event raises `KeyError` out of the log call, before the event is deleted: it stays at the head and nothing behind it is sent (`_buffer.py:241`; "everything behind them sends fine", `_buffer.py:257`) |
| `pool_poisoned` | a `feed_id` outside ASCII makes `http.client` raise after it began the request; the connection stays pooled and the next request, of whatever thread, fails (`_transport.py:164`) |
| `close_strands` | an event accepted between `close()`'s count and `_stopped = True` stays queued for good and no line says so (`_buffer.py:289`) |
| `close_waits` | `close()` waits for the drain lock of a thread whose backoff began before the deadline was set (`_buffer.py:285`; "drains for at most 30 seconds") |
| `flag_read_raises` | a choice that is no mapping, or a number no float can hold, raises out of a flag read (`_client.py:308`, `:328`, `:331`, `:352`; "A service problem never raises out of a flag read", CHANGELOG.md:32) |
| `retry_after_raises` | a `Retry-After` that is finite in seconds and infinite in milliseconds raises `OverflowError` out of `post`, in place of the error it came with, and also for an accepted request (`_transport.py:90`; "An unusable Retry-After must be ignored, never propagated as a crash from an error path", `_transport.py:79`) |
| `silent_after_close` | `close()` sets its flag between the two tests of a `track()`, which then returns without sending, raising or logging (`_client.py:584`) |

Seen while modelling and contradicted by the repository too, though no run is
spent on them, for each can be read off one place of the code:

- a `profile_id` alone identifies an event of `track`, `identify`, `track_batch` and
  `ecommerce.*` (`_util.py:92`, `HasIdentifier`).  The docstring of the same
  function says "At least one of user_id or account_id must be present and
  non-blank" (`_util.py:91`), its error "one of user_id or account_id is required"
  (`:96`), README.md:73 of the two "That is the whole list", ARCHITECTURE.md:55 and
  CHANGELOG.md:74 "The only identifiers are `user_id` and `account_id`";
- a `flush()` on another thread is bounded by `close()`: the one `_close_deadline`
  is tested by whoever drains (`_buffer.py:141`, `:225`; `BudgetIsSpent`,
  `LateGivesUp`).  ARCHITECTURE.md:112 and README.md:106 say "`flush()` is **not**
  bounded", CHANGELOG.md:87 "`flush()` is unbounded";
- `set_config(port=...)` and `set_config(credentials=...)` are accepted and have no
  effect, and beside another option, as in `set_config(port=8080, timeout=5)`, the patch is
  half applied (`_config.py:177`, `Unread`).  The docstring says
  that such options "are refused rather than ignored. Accepting them silently left a
  caller believing they had changed something that never moved" (`_config.py:170`);
- likewise the buffer keeps the `max_request_events` and the logger it was made
  with (`_client.py:152`) when `set_config` changes them, and the pooled connection
  its timeout (`_transport.py:123`).

Seen while modelling, and not contradicted by a sentence we found.  In the models:

- the `AttributeError` of `_cancel_timer` and the `TypeError` of the deadline test
  when another thread clears the attribute in between (`CancelRaises`,
  `BudgetRaises`, `LateRaises`); a `Timer` that cannot start and leaves its name
  in `_timer` (`StartFails`);
- an event that `json.dumps` refuses is retried like a network failure until
  the breaker stops all batching (`Busy`, by way of `Poison`);
- a request that read its path before `set_config` and reaches the transport
  after it goes to the new host with the old path, or the other way round; two
  concurrent `set_config` calls may leave the transport with the older
  configuration;
- a request past the gate is sent after `opt_out()` has returned; a `close()` whose
  drain raises leaves the client open (`DrainRaises`);
- `set_config(max_request_events=0)` is accepted, and every later
  `track_batch` of a client that does not batch is refused (`ChunkIsDefined`); a size
  that is no number is accepted too, and every later `track_batch` raises `TypeError`
  (`Crashes`);
- of two choices with one name `variation` takes the first and `all_flags` the
  last (`ReadPathsAgree` is about keys that occur once);
- consent by a user id is refused when a profile id is given that is blank but
  not empty, and the client has no source (`ConsentIsUsable`).

Outside them: `timeout` accepts NaN and infinity (`_config.py:124`); `$` in
`KEY_PATTERN` admits a trailing newline (`_flags.py:44`); a naive datetime is
UTC as a timestamp (`_util.py:34`) and local time among the properties of an
event (`_transport.py:202`); `number_variation` also converts the default its caller passed (`_client.py:352`).

## 8. Plan

Done, in this order: the retry policy and its history; the buffer, its contract
and its liveness; the transport and the client; the proofs of the buffer's
types and of the exclusion of drains, of the contract, of the ledger and the
order; the proofs of the wire; the configuration, the requests, the flag reads
and the session over them, with their proofs; the proofs of the client's ledger,
of the buffer's timers and sleeps, of chunks and requests, and of the retry
table along every history.

To come:

1. `EventsArePending` with callers that close, for as long as none has begun to:
   the state does not say yet whether one has;
2. the part of `CloseEnds` that is a safety property: what every round of a
   drain makes smaller, while nobody enqueues.
