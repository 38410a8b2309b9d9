------------------------------- MODULE Client -------------------------------
(***************************************************************************)
(* The client (class Intempt): application threads write, read, opt in and *)
(* out, reconfigure, flush and close one object.  It adds to the transport *)
(* it owns three attributes that no lock protects and, when batching is    *)
(* configured, a buffer, of which only the contract of DeliveryContract is *)
(* used here: a line, one drainer at a time, a door that closes.           *)
(*                                                                         *)
(* Granularity.  Every read of an attribute is a step of its own, except   *)
(* that is_opted_in() is one: `_closed', which it reads second, never goes *)
(* back, so its answer is that of the moment of one of its two reads.      *)
(***************************************************************************)
EXTENDS Transport, Naturals, Sequences, FiniteSets, Functions

CONSTANTS
    Callers,      \* application threads, and timers that flush
    Workers,      \* identities for the threads of track_batch's pool
    Roles,        \* which methods each caller may call
    Configs,      \* what set_config may be given: [endpoint, path]
    FirstConfig,  \* what the client is constructed with
    MaxEvents,    \* events the application ever writes: a bound
    OddFeedIds,   \* recommend() may be given a feed_id outside ASCII
    BadPayloads   \* a body may hold what json.dumps refuses

Threads == Callers \cup Workers
Events  == 1..MaxEvents
Reads   == {"recommend", "variation"}
Methods == Reads \cup {"track", "track_batch", "consent", "flush", "close",
                       "opt_in", "opt_out", "set_config"}

ASSUME ClientAssumption ==
    /\ Callers \cap Workers = {}
    /\ None \notin Threads
    /\ Roles \in [Callers -> SUBSET Methods]
    /\ MaxEvents \in Nat
    /\ {OddFeedIds, BadPayloads} \subseteq BOOLEAN

ASSUME ConfigAssumption ==
    /\ Configs \cup {FirstConfig} \subseteq [endpoint : Endpoints, path : STRING]
    /\ None \notin Configs \cup {FirstConfig}

VARIABLES
    cfg,        \* the client's own _config
    optedIn,    \* _opted_in
    closed,     \* _closed
    buffered,   \* _buffer is not None: fixed at construction
    line,       \* the buffer's queue
    accepting,  \* ... is not stopped
    drainer,    \* ... is drained by this thread, or None
    pc,         \* where each thread is
    call,       \* the method it is in; "send" in a thread of a pool
    todo,       \* events its call has yet to enqueue or to send
    body,       \* the events of the request it is making
    seen,       \* the configuration it has read, or None
    owner,      \* the caller in whose pool a worker runs, or None
    erred,      \* a request of the caller's pool has failed
    issued,     \* history: how many events the application has written
    mine,       \* history: the events of each caller's latest write
    taken,      \* history: events the buffer took
    delivered,  \* history: events the service accepted
    dropped,    \* history: events the buffer dropped, with an announcement
    discarded,  \* history: events discarded because is_opted_in() was false
    revoked,    \* history: events in line at the latest opt_out
    silenced,   \* history: discarded by _submit, though nobody had opted out
    cutOff      \* history: discarded by close()'s own drain, likewise

state   == <<cfg, optedIn, closed, buffered>>
buffer  == <<line, accepting, drainer>>
local   == <<pc, call, todo, body, seen, owner, erred>>
history == <<issued, mine, taken, delivered, dropped, discarded,
             revoked, silenced, cutOff>>
vars    == <<transport, state, buffer, local, history>>

Labels ==
    {"idle", "raised", "unused", "open", "gate", "enqueue", "sendGate", "path", "post",
     "wait", "sent", "failed", "pool", "drainLock", "drain", "stopBuffer", "mark",
     "release", "assign", "arg", "apply"}

Init ==
    /\ TransportInit(FirstConfig)
    /\ cfg = FirstConfig
    /\ optedIn = TRUE
    /\ closed = FALSE
    /\ buffered \in BOOLEAN
    /\ line = <<>> /\ accepting = TRUE /\ drainer = None
    /\ pc = [t \in Threads |-> IF t \in Callers THEN "idle" ELSE "unused"]
    /\ call = [t \in Threads |-> "none"]
    /\ todo = [t \in Threads |-> <<>>]
    /\ body = [t \in Threads |-> {}]
    /\ seen = [t \in Threads |-> None]
    /\ owner = [w \in Workers |-> None]
    /\ erred = [c \in Callers |-> FALSE]
    /\ issued = 0
    /\ mine = [c \in Callers |-> {}]
    /\ taken = {} /\ delivered = {} /\ dropped = {} /\ discarded = {}
    /\ revoked = {} /\ silenced = {} /\ cutOff = {}

-----------------------------------------------------------------------------
\* Definitions marked "Mutant" are deliberate slips: substituted for the
\* definition that follows them, they show that a property notices.

Step(t, from, to) == pc[t] = from /\ pc' = [pc EXCEPT ![t] = to]

Calls(c, method, to) ==
    /\ method \in Roles[c]
    /\ Step(c, "idle", to)
    /\ call' = [call EXCEPT ![c] = IF to = "idle" THEN "none" ELSE method]

\* A method returns or raises: its locals are gone.
Ends(c, from, to) ==
    /\ Step(c, from, to)
    /\ call' = [call EXCEPT ![c] = "none"]
    /\ todo' = [todo EXCEPT ![c] = <<>>]
    /\ body' = [body EXCEPT ![c] = {}]
    /\ seen' = [seen EXCEPT ![c] = None]
    /\ UNCHANGED <<owner, erred>>

IsOptedIn == optedIn /\ ~closed

\* The application hands over n events: their numbers, in order.
Writes(c, n) ==
    /\ issued' = issued + n
    /\ issued' <= MaxEvents
    /\ mine' = [mine EXCEPT ![c] = (issued + 1)..issued']
    /\ UNCHANGED <<taken, delivered, dropped, discarded, revoked, silenced, cutOff>>

Numbers(n) == [i \in 1..n |-> issued + i]

-----------------------------------------------------------------------------
(* track, identify, group, ecommerce and consent; recommend and the flags  *)

WriteBegins(c) ==
    /\ \E method \in {"track", "consent"} : Calls(c, method, "open")
    /\ Writes(c, 1)
    /\ todo' = [todo EXCEPT ![c] = Numbers(1)]
    /\ UNCHANGED <<transport, state, buffer, body, seen, owner, erred>>

ReadBegins(c) ==
    /\ \E method \in Reads : Calls(c, method, "open")
    /\ UNCHANGED <<transport, state, buffer, todo, body, seen, owner, erred, history>>

\* _assert_open
AssertsOpen(c) ==
    /\ \/ closed /\ Ends(c, "open", "raised")
       \/ /\ ~closed
          /\ Step(c, "open", IF call[c] \in Reads THEN "path" ELSE "gate")
          /\ UNCHANGED <<call, todo, body, seen, owner, erred>>
    /\ UNCHANGED <<transport, state, buffer, history>>

\* The gate of _submit and of consent, passed.
PassesGate(c) ==
    /\ IsOptedIn
    /\ LET queues == buffered /\ call[c] # "consent" IN
       /\ Step(c, "gate", IF call[c] = "consent" THEN "path"
                          ELSE IF queues THEN "enqueue" ELSE "sendGate")
       /\ body' = IF queues THEN body ELSE [body EXCEPT ![c] = Range(todo[c])]
       /\ todo' = IF queues THEN todo ELSE [todo EXCEPT ![c] = <<>>]
    /\ UNCHANGED <<transport, state, buffer, call, seen, owner, erred, history>>

\* Not opted in, or closed since _assert_open: nothing is logged.
DiscardsQuietly(c) ==
    /\ ~IsOptedIn
    /\ Ends(c, "gate", "idle")
    /\ discarded' = discarded \cup Range(todo[c])
    /\ silenced' = IF optedIn THEN silenced \cup Range(todo[c]) ELSE silenced
    /\ UNCHANGED <<transport, state, buffer, issued, mine, taken, delivered, dropped,
                   revoked, cutOff>>

\* Buffer.enqueue, one event of the call after the other.  The drain that an
\* enqueue begins when the line has a batch's length is stood for by the
\* FlushBegins of another caller; Buffer has it where it is.
MovesOn(c) ==
    IF Len(todo[c]) = 1 THEN Ends(c, "enqueue", "idle")
    ELSE /\ pc[c] = "enqueue"
         /\ todo' = [todo EXCEPT ![c] = Tail(@)]
         /\ UNCHANGED <<pc, call, body, seen, owner, erred>>

\* Mutant: hands the whole call over for each event of it.
EnqueuesAll(c) ==
    /\ MovesOn(c)
    /\ accepting
    /\ line' = line \o todo[c]
    /\ taken' = taken \cup Range(todo[c])
    /\ UNCHANGED <<transport, state, accepting, drainer, issued, mine, delivered,
                   dropped, discarded, revoked, silenced, cutOff>>

Enqueues(c) ==
    /\ MovesOn(c)
    /\ accepting
    /\ line' = Append(line, Head(todo[c]))
    /\ taken' = taken \cup {Head(todo[c])}
    /\ UNCHANGED <<transport, state, accepting, drainer, issued, mine, delivered,
                   dropped, discarded, revoked, silenced, cutOff>>

\* Stopped or full: logged, and the log call may raise out of the method.
TurnedAway(c) ==
    /\ \/ MovesOn(c)
       \/ Ends(c, "enqueue", "raised")
    /\ pc[c] = "enqueue"
    /\ dropped' = dropped \cup {Head(todo[c])}
    /\ UNCHANGED <<transport, state, buffer, issued, mine, taken, delivered,
                   discarded, revoked, silenced, cutOff>>

-----------------------------------------------------------------------------
(* _send and post                                                          *)

\* Mutant: only the call site is gated.
SendIsAllowed == TRUE

SendIsOpen == IsOptedIn

PassesSendGate(t) ==
    /\ SendIsOpen
    /\ Step(t, "sendGate", "path")
    /\ UNCHANGED <<transport, state, buffer, call, todo, body, seen, owner, erred, history>>

\* A warning is logged and _send returns as if it had sent.
Discards(t) ==
    /\ ~SendIsOpen
    /\ Step(t, "sendGate", "sent")
    /\ discarded' = discarded \cup body[t]
    /\ cutOff' = IF optedIn /\ call[t] = "close" THEN cutOff \cup body[t] ELSE cutOff
    /\ UNCHANGED <<transport, state, buffer, call, todo, body, seen, owner, erred,
                   issued, mine, taken, delivered, dropped, revoked, silenced>>

\* The path is made from the client's configuration, before the lock.
ReadsPath(t) ==
    /\ Step(t, "path", "post")
    /\ seen' = [seen EXCEPT ![t] = cfg]
    /\ UNCHANGED <<transport, state, buffer, call, todo, body, owner, erred, history>>

Posts(t, to) ==
    /\ Step(t, "post", to)
    /\ UNCHANGED <<state, buffer, call, todo, body, seen, owner, erred, history>>

Begins(t)         == Posts(t, "wait") /\ PostStarts(t)
Unserialisable(t) == Posts(t, "failed") /\ BadPayloads /\ UNCHANGED transport
Refused(t)        == Posts(t, "failed") /\ PostIsRefused
CannotStart(t)    == Posts(t, "failed") /\ PostCannotStart
CannotEncode(t)   ==
    Posts(t, "failed") /\ PostCannotEncode /\ OddFeedIds /\ call[t] = "recommend"

Accepted(t) ==
    /\ Step(t, "wait", "sent")
    /\ Answered(t)
    /\ delivered' = delivered \cup body[t]
    /\ UNCHANGED <<state, buffer, call, todo, body, seen, owner, erred, issued, mine,
                   taken, dropped, discarded, revoked, silenced, cutOff>>

\* A status outside 200..299, or no answer: both raise IntemptApiError.
Rejected(t) ==
    /\ Step(t, "wait", "failed")
    /\ Answered(t) \/ Lost(t)
    /\ UNCHANGED <<state, buffer, call, todo, body, seen, owner, erred, history>>

-----------------------------------------------------------------------------
(* What the caller of _send or post does next                              *)

Returns(c) ==
    /\ call[c] \in Reads \cup {"track", "consent"}
    /\ Ends(c, "sent", "idle")
    /\ UNCHANGED <<transport, state, buffer, history>>

\* A flag is never worth an exception: the caller's default is served.
ServesDefault(c) ==
    /\ call[c] = "variation"
    /\ Ends(c, "failed", "idle")
    /\ UNCHANGED <<transport, state, buffer, history>>

Raises(c) ==
    /\ call[c] \in {"recommend", "track", "consent", "track_batch"}
    /\ Ends(c, "failed", "raised")
    /\ UNCHANGED <<transport, state, buffer, history>>

\* The application catches it.
Catches(c) ==
    /\ Step(c, "raised", "idle")
    /\ mine' = [mine EXCEPT ![c] = {}]
    /\ UNCHANGED <<transport, state, buffer, call, todo, body, seen, owner, erred, issued,
                   taken, delivered, dropped, discarded, revoked, silenced, cutOff>>

-----------------------------------------------------------------------------
(* track_batch                                                             *)

\* Chunks of one event, sent in turn, sent by a pool, or submitted like any
\* other write.  max_concurrent_requests may be patched at any time.
BatchBegins(c) ==
    \E n \in 1..MaxEvents :
        /\ Writes(c, n)
        /\ UNCHANGED <<transport, state, buffer, seen, owner, erred>>
        /\ \/ /\ buffered \/ ~IsOptedIn
              /\ Calls(c, "track_batch", "open")
              /\ todo' = [todo EXCEPT ![c] = Numbers(n)]
              /\ UNCHANGED body
           \/ /\ ~buffered /\ IsOptedIn
              /\ Calls(c, "track_batch", "sendGate")
              /\ todo' = [todo EXCEPT ![c] = Tail(Numbers(n))]
              /\ body' = [body EXCEPT ![c] = {Head(Numbers(n))}]
           \/ /\ ~buffered /\ IsOptedIn
              /\ Calls(c, "track_batch", "pool")
              /\ todo' = [todo EXCEPT ![c] = Numbers(n)]
              /\ UNCHANGED body

SendsNext(c) ==
    /\ call[c] = "track_batch"
    /\ \/ todo[c] = <<>> /\ Ends(c, "sent", "idle")
       \/ /\ todo[c] # <<>>
          /\ Step(c, "sent", "sendGate")
          /\ todo' = [todo EXCEPT ![c] = Tail(@)]
          /\ body' = [body EXCEPT ![c] = {Head(todo[c])}]
          /\ UNCHANGED <<call, seen, owner, erred>>
    /\ UNCHANGED <<transport, state, buffer, history>>

WorkerTakes(w, c) ==
    /\ pc[c] = "pool"
    /\ todo[c] # <<>>
    /\ Step(w, "unused", "sendGate")
    /\ owner' = [owner EXCEPT ![w] = c]
    /\ call' = [call EXCEPT ![w] = "send"]
    /\ body' = [body EXCEPT ![w] = {Head(todo[c])}]
    /\ todo' = [todo EXCEPT ![c] = Tail(@)]
    /\ UNCHANGED <<transport, state, buffer, seen, erred, history>>

\* The future keeps the exception.
WorkerEnds(w) ==
    /\ \/ Step(w, "sent", "unused") /\ UNCHANGED erred
       \/ Step(w, "failed", "unused") /\ erred' = [erred EXCEPT ![owner[w]] = TRUE]
    /\ owner' = [owner EXCEPT ![w] = None]
    /\ call' = [call EXCEPT ![w] = "none"]
    /\ body' = [body EXCEPT ![w] = {}]
    /\ seen' = [seen EXCEPT ![w] = None]
    /\ UNCHANGED <<transport, state, buffer, todo, history>>

\* Mutant: does not wait for the requests that are still being made.
NothingSubmitted(c) == todo[c] = <<>>

AllSettled(c) == todo[c] = <<>> /\ \A w \in Workers : owner[w] # c

\* Errors are raised after every worker settled.
PoolEnds(c) ==
    /\ AllSettled(c)
    /\ Step(c, "pool", IF erred[c] THEN "raised" ELSE "idle")
    /\ erred' = [erred EXCEPT ![c] = FALSE]
    /\ call' = [call EXCEPT ![c] = "none"]
    /\ UNCHANGED <<transport, state, buffer, todo, body, seen, owner, history>>

-----------------------------------------------------------------------------
(* flush and close; the buffer they drain                                  *)

FlushBegins(c) ==
    /\ Calls(c, "flush", IF buffered THEN "drainLock" ELSE "idle")
    /\ UNCHANGED <<transport, state, buffer, todo, body, seen, owner, erred, history>>

\* Mutant: the client counts as closed before its buffer is drained.
ClosesFirst(c) ==
    /\ Calls(c, "close", IF closed THEN "idle" ELSE IF buffered THEN "drainLock" ELSE "mark")
    /\ closed' = TRUE
    /\ UNCHANGED <<transport, cfg, optedIn, buffered, buffer, todo, body, seen, owner, erred, history>>

CloseBegins(c) ==
    /\ Calls(c, "close", IF closed THEN "idle" ELSE IF buffered THEN "drainLock" ELSE "mark")
    /\ UNCHANGED <<transport, state, buffer, todo, body, seen, owner, erred, history>>

DrainLocks(t) ==
    /\ drainer = None
    /\ Step(t, "drainLock", "drain")
    /\ drainer' = t
    /\ UNCHANGED <<transport, state, line, accepting, call, todo, body, seen, owner, erred, history>>

First(n) == SubSeq(line, 1, n)

LeaveLine(n) == line' = SubSeq(line, n + 1, Len(line))

DrainTakes(t) ==
    /\ accepting
    /\ Step(t, "drain", "sendGate")
    /\ \E n \in 1..Len(line) : body' = [body EXCEPT ![t] = Range(First(n))]
    /\ UNCHANGED <<transport, state, buffer, call, todo, seen, owner, erred, history>>

Drains(t) == call[t] \in {"flush", "close"}

Again(t, from) ==
    /\ Step(t, from, "drain")
    /\ body' = [body EXCEPT ![t] = {}]
    /\ seen' = [seen EXCEPT ![t] = None]
    /\ UNCHANGED <<transport, state, accepting, drainer, call, todo, owner, erred>>

DrainSent(t) ==
    /\ Drains(t)
    /\ Again(t, "sent")
    /\ LeaveLine(Cardinality(body[t]))
    /\ UNCHANGED history

\* Retried, or dropped with an announcement.
DrainRetries(t) ==
    /\ Drains(t)
    /\ Again(t, "failed")
    /\ UNCHANGED <<line, history>>

DrainDrops(t) ==
    /\ Drains(t)
    /\ Again(t, "failed")
    /\ LeaveLine(Cardinality(body[t]))
    /\ dropped' = dropped \cup body[t]
    /\ UNCHANGED <<issued, mine, taken, delivered, discarded, revoked, silenced, cutOff>>

\* The drain lock is released: flush() returns, close() goes on.
Unlocks(t, from) ==
    /\ drainer' = None
    /\ IF call[t] = "close"
       THEN /\ Step(t, from, "stopBuffer")
            /\ body' = [body EXCEPT ![t] = {}]
            /\ seen' = [seen EXCEPT ![t] = None]
            /\ UNCHANGED <<call, todo, owner, erred>>
       ELSE Ends(t, from, "idle")
    /\ UNCHANGED <<transport, state, line, history>>

\* A close() has set its deadline and not cleared it.
Budgeted == \E c \in Callers : call[c] = "close" /\ pc[c] \notin {"stopBuffer", "mark", "release"}

\* Nothing left, batching is off, or the budget is spent.
DrainEnds(t) ==
    /\ line = <<>> \/ ~accepting \/ Budgeted
    /\ Unlocks(t, "drain")
    /\ UNCHANGED accepting

\* The breaker.
DrainStops(t) ==
    /\ Drains(t)
    /\ Unlocks(t, "failed")
    /\ accepting' = FALSE

\* flush() raises, and so does a close() that called it, which then never
\* marks the client as closed.
DrainRaises(t) ==
    /\ Drains(t)
    /\ Ends(t, "failed", "raised")
    /\ drainer' = None
    /\ UNCHANGED <<transport, state, line, accepting, history>>

StopsBuffer(c) ==
    /\ Step(c, "stopBuffer", "mark")
    /\ accepting' = FALSE
    /\ UNCHANGED <<transport, state, line, drainer, call, todo, body, seen, owner, erred, history>>

Marks(c) ==
    /\ Step(c, "mark", "release")
    /\ closed' = TRUE
    /\ UNCHANGED <<transport, cfg, optedIn, buffered, buffer, call, todo, body, seen, owner, erred, history>>

Releases(c) ==
    /\ Shuts
    /\ Ends(c, "release", "idle")
    /\ UNCHANGED <<state, buffer, history>>

-----------------------------------------------------------------------------
(* opt_in, opt_out and set_config                                          *)

PastGate(t) == pc[t] \in {"path", "post", "wait", "sent"}

OptsOut(c) ==
    /\ Calls(c, "opt_out", "idle")
    /\ optedIn' = FALSE
    /\ revoked' = Range(line) \ UNION {body[t] : t \in {u \in Threads : PastGate(u)}}
    /\ UNCHANGED <<transport, cfg, closed, buffered, buffer, todo, body, seen, owner, erred,
                   issued, mine, taken, delivered, dropped, discarded, silenced, cutOff>>

OptsIn(c) ==
    /\ Calls(c, "opt_in", "idle")
    /\ optedIn' = TRUE
    /\ revoked' = {}
    /\ UNCHANGED <<transport, cfg, closed, buffered, buffer, todo, body, seen, owner, erred,
                   issued, mine, taken, delivered, dropped, discarded, silenced, cutOff>>

\* merge_config reads `_config'; the patches here set both of its fields.
SetConfigBegins(c) ==
    /\ Calls(c, "set_config", "assign")
    /\ \E new \in Configs : seen' = [seen EXCEPT ![c] = new]
    /\ UNCHANGED <<transport, state, buffer, todo, body, owner, erred, history>>

Assigns(c) ==
    /\ Step(c, "assign", "arg")
    /\ cfg' = seen[c]
    /\ UNCHANGED <<transport, optedIn, closed, buffered, buffer, call, todo, body, seen, owner, erred,
                   issued, mine, taken, delivered, dropped, discarded, revoked, silenced, cutOff>>

\* `_config' is read again for the call of Transport.set_config.
PassesOn(c) ==
    /\ Step(c, "arg", "apply")
    /\ seen' = [seen EXCEPT ![c] = cfg]
    /\ UNCHANGED <<transport, state, buffer, call, todo, body, owner, erred, history>>

\* Mutant: does not wait for the request that is being made.
AppliesIfFree(c) ==
    /\ Ends(c, "apply", "idle")
    /\ IF lock = None THEN Reconfigured(seen[c]) ELSE UNCHANGED transport
    /\ UNCHANGED <<state, buffer, history>>

Applies(c) ==
    /\ Ends(c, "apply", "idle")
    /\ Reconfigured(seen[c])
    /\ UNCHANGED <<state, buffer, history>>

-----------------------------------------------------------------------------
Quiescent == (\A t \in Threads : pc[t] \in {"idle", "raised", "unused"}) /\ UNCHANGED vars

WriteOrRead(c) ==
    \/ WriteBegins(c) \/ ReadBegins(c) \/ AssertsOpen(c) \/ PassesGate(c) \/ DiscardsQuietly(c)
    \/ Enqueues(c) \/ TurnedAway(c)
    \/ Returns(c) \/ ServesDefault(c) \/ Raises(c) \/ Catches(c)

Send(t) ==
    \/ PassesSendGate(t) \/ Discards(t) \/ ReadsPath(t)
    \/ Begins(t) \/ Unserialisable(t) \/ Refused(t) \/ CannotStart(t) \/ CannotEncode(t)
    \/ Accepted(t) \/ Rejected(t)

Batch(c) ==
    \/ BatchBegins(c) \/ SendsNext(c) \/ PoolEnds(c)
    \/ \E w \in Workers : WorkerTakes(w, c)

Drain(c) ==
    \/ FlushBegins(c) \/ DrainLocks(c) \/ DrainTakes(c) \/ DrainSent(c) \/ DrainRetries(c)
    \/ DrainDrops(c) \/ DrainEnds(c) \/ DrainStops(c) \/ DrainRaises(c)

Close(c) == CloseBegins(c) \/ StopsBuffer(c) \/ Marks(c) \/ Releases(c)

Settings(c) ==
    OptsOut(c) \/ OptsIn(c) \/ SetConfigBegins(c) \/ Assigns(c) \/ PassesOn(c) \/ Applies(c)

Next ==
    \/ \E c \in Callers : WriteOrRead(c) \/ Batch(c) \/ Drain(c) \/ Close(c) \/ Settings(c)
    \/ \E w \in Workers : WorkerEnds(w)
    \/ \E t \in Threads : Send(t)
    \/ Quiescent

Spec == Init /\ [][Next]_vars
=============================================================================
