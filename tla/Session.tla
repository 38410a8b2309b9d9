------------------------------ MODULE Session -------------------------------
(***************************************************************************)
(* One thread and a client that does not batch: what each call refuses,    *)
(* what it sends, and what it returns or raises for the answers it gets,   *)
(* under every configuration that set_config can reach.  Client has the    *)
(* threads and the buffer, and requests without contents; here a call is   *)
(* one step, and has its arguments.                                        *)
(***************************************************************************)
EXTENDS Flags, Functions

CONSTANTS
    Options,      \* what the constructor may be given
    Patches,      \* what set_config may be given
    People,       \* the identifiers a call may be given
    Contexts,     \* the identifiers of a FlagContext
    Happenings,   \* the options track and identify may be given
    Batches,      \* what track_batch may be given
    Orders,       \* the products ordered may be given
    Answers,      \* what may come of a write or of recommend
    Evaluations   \* what may come of a flag read

\* A host is the two halves of its string, or not given.
HostIsSplit(h) == h = None \/ h = [name |-> h.name, port |-> h.port]

ASSUME SessionAssumption ==
    /\ \A o \in Options : HostIsSplit(o.host)
    /\ \A p \in Patches : HostIsSplit(p.host)
    /\ \A a \in Evaluations : a.body.choices \in Seq(Choice)

\* A size, which set_config takes of any type, is the integer it acts as (a
\* fraction of workers is rounded up, less than one event is none), or Junk
\* where comparing it, or range(), raises TypeError; NaN is left out.  A
\* Retry-After is a number of seconds or of milliseconds.
ASSUME ArgumentAssumption ==
    /\ Batches \subseteq Seq(Happenings)
    /\ \A p \in Patches :
           {p.max_request_events, p.max_concurrent_requests} \subseteq Int \cup {None, Junk}
    /\ \A a \in Answers \cup Evaluations : a.header.n \in Int

VARIABLES
    cfg,        \* _config
    optedIn,    \* _opted_in
    closed,     \* _closed
    call,       \* the call that is returning: [op, given]
    sent,       \* the requests it posted, in the order it posted them
    answers,    \* what came of each
    outcome     \* what it returns or raises

client == <<cfg, optedIn, closed>>
vars   == <<client, call, sent, answers, outcome>>

Refused  == Ends("refused", None, None)
Returned == Ends("returned", None, None)
Idle     == [op |-> "idle", given |-> None]

Rests ==
    /\ call = Idle
    /\ sent = <<>>
    /\ answers = <<>>
    /\ outcome = Returned

Init ==
    /\ cfg \in {Resolved(o) : o \in {p \in Options : ResolveAccepts(p) /\ p.batch = None}}
    /\ optedIn = TRUE
    /\ closed = FALSE
    /\ Rests

\* The call returns or raises, and the application makes its next one.
Return ==
    /\ call # Idle
    /\ call' = Idle
    /\ sent' = <<>>
    /\ answers' = <<>>
    /\ outcome' = Returned
    /\ UNCHANGED client

-----------------------------------------------------------------------------

Makes(op, given) == call' = [op |-> op, given |-> given]

IsOptedIn == optedIn /\ ~closed

Sends(requests, replies, result) == sent' = requests /\ answers' = replies /\ outcome' = result

\* IntemptConfigError, before anything is sent.
Refuses == Sends(<<>>, <<>>, Refused)

ReturnsAtOnce == Sends(<<>>, <<>>, Returned)

\* An exception that is neither of the documented two.
Crashes == Sends(<<>>, <<>>, Ends("crash", None, None))

\* _send returns nothing.
Quietly(a) == IF Fails(a) THEN Posted(a) ELSE Returned

\* A mistake and a closed client are refused, an opted-out one returns.
NothingToSend(accepts) == IF accepts /\ ~closed THEN ReturnsAtOnce ELSE Refuses

\* _submit, after the validation that is the method's own.
Submits(accepts, events) ==
    /\ IF accepts /\ IsOptedIn
       THEN \E a \in Answers :
                Sends(<<Request(TrackPath(cfg.source_id), None, events)>>, <<a>>, Quietly(a))
       ELSE NothingToSend(accepts)
    /\ UNCHANGED client

-----------------------------------------------------------------------------
(* Configuration                                                           *)

SetConfig ==
    \E p \in Patches :
        /\ Makes("set_config", p)
        /\ IF MergeAccepts(p) THEN ReturnsAtOnce ELSE Refuses
        /\ cfg' = IF MergeAccepts(p) THEN Merged(cfg, p) ELSE cfg
        /\ UNCHANGED <<optedIn, closed>>

OptIn  == Makes("opt_in", None) /\ ReturnsAtOnce /\ optedIn' = TRUE /\ UNCHANGED <<cfg, closed>>
OptOut == Makes("opt_out", None) /\ ReturnsAtOnce /\ optedIn' = FALSE /\ UNCHANGED <<cfg, closed>>
Close  == Makes("close", None) /\ ReturnsAtOnce /\ closed' = TRUE /\ UNCHANGED <<cfg, optedIn>>

-----------------------------------------------------------------------------
(* Data in                                                                 *)

Track ==
    \E o \in Happenings :
        /\ Makes("track", o)
        /\ Submits(EventIsUsable(o), <<EventOf(1, o.event, o.who)>>)

Identify ==
    \E o \in Happenings :
        /\ Makes("identify", o)
        /\ Submits(ReservedNameIsUsable(o.event) /\ HasIdentifier(o.who) /\ o.timely,
                   <<EventOf(1, ReservedName(o.event), o.who)>>)

Group ==
    \E o \in Happenings :
        /\ Makes("group", o)
        /\ Submits(ReservedNameIsUsable(o.event) /\ NotBlank(o.who.account) /\ o.timely,
                   <<EventOf(1, ReservedName(o.event), o.who)>>)

\* product_viewed and added_to_cart are orders of one product; the quantity
\* is left out of the one, and required by the other.
Commerce ==
    \E op \in {"product_viewed", "added_to_cart", "ordered"},
       who \in People, products \in Orders, timely \in BOOLEAN :
        /\ op # "ordered" => Len(products) = 1
        /\ op = "product_viewed" => products[1].quantity = "absent"
        /\ Makes(op, [who |-> who, products |-> products, timely |-> timely])
        /\ Submits(/\ timely
                   /\ ProductsAreUsable(products)
                   /\ op = "added_to_cart" => products[1].quantity = "positive"
                   /\ HasIdentifier(who),
                   Lines(who, products))

\* Mutant: consent, which has a gate of its own, lost it.
ConsentIsHeldBack == FALSE

ConsentIsSuppressed == ~IsOptedIn

\* Consent.grant and Consent.revoke: source and timestamp are
\* looked at after the gate.
RecordConsent ==
    \E who \in People, timely \in BOOLEAN :
        /\ Makes("consent", [who |-> who, timely |-> timely])
        /\ IF ~ConsentIsIdentified(who) \/ ConsentIsSuppressed
           THEN NothingToSend(ConsentIsIdentified(who))
           ELSE IF timely /\ ConsentIsUsable(who, cfg.source_id)
           THEN \E a \in Answers :
                    Sends(<<Request("/consents", ConsentSource(who, cfg.source_id),
                                    <<EventOf(1, "consent", who)>>)>>, <<a>>, Quietly(a))
           ELSE Refuses
        /\ UNCHANGED client

-----------------------------------------------------------------------------
(* track_batch                                                             *)

Wire(batch) == [i \in DOMAIN batch |-> EventOf(i, batch[i].event, batch[i].who)]

BatchIsValid(batch) == \A i \in DOMAIN batch : EventIsUsable(batch[i])

\* The answers in the order of the chunks: what is raised is the failure of
\* the first chunk that has one, whichever came first.
FirstFailure(replies) ==
    IF \E i \in DOMAIN replies : Fails(replies[i])
    THEN Posted(replies[CHOOSE i \in DOMAIN replies :
                           Fails(replies[i]) /\ \A j \in 1..(i - 1) : ~Fails(replies[j])])
    ELSE Returned

ChunkRequest(chunk) == Request(TrackPath(cfg.source_id), None, chunk)

\* In turn, the first failure ends the call: it is the last answer there is.
InTurn(n, replies) ==
    /\ Len(replies) \in 1..n
    /\ \A i \in 1..(Len(replies) - 1) : ~Fails(replies[i])
    /\ Len(replies) < n => Fails(replies[Len(replies)])

SendsInTurn(chunks) ==
    \E replies \in UNION {[1..n -> Answers] : n \in 1..Len(chunks)} :
        /\ InTurn(Len(chunks), replies)
        /\ Sends([k \in DOMAIN replies |-> ChunkRequest(chunks[k])], replies, FirstFailure(replies))

\* Workers take the chunks in their order and race for the transport's lock,
\* a failure stops none of them: when the k-th chunk is posted, k - 1 others
\* were, and each worker may hold one that was not.
PostingOrders(n) ==
    {order \in Bijection(1..n, 1..n) :
        \A k \in 1..n : order[k] < k + cfg.max_concurrent_requests}

SendsByPool(chunks) ==
    \E order \in PostingOrders(Len(chunks)), replies \in [1..Len(chunks) -> Answers] :
        Sends([k \in DOMAIN order |-> ChunkRequest(chunks[order[k]])],
              [k \in DOMAIN order |-> replies[order[k]]],
              FirstFailure(replies))

\* The chunks are made first; a size that is Junk raises where it is used.
SendsChunks(wire) ==
    LET size    == cfg.max_request_events
        workers == cfg.max_concurrent_requests
        chunks  == Chunk(wire, size)
    IN \/ size = Junk /\ Crashes
       \/ size # Junk /\ ~ChunkIsDefined(size) /\ Refuses
       \/ size # Junk /\ ChunkIsDefined(size) /\ workers = Junk /\ Crashes
       \/ /\ size # Junk /\ ChunkIsDefined(size) /\ workers # Junk
          /\ IF workers <= 1 THEN SendsInTurn(chunks) ELSE SendsByPool(chunks)

\* What cannot be sent is refused before the gate.
TrackBatch ==
    \E batch \in Batches :
        /\ Makes("track_batch", batch)
        /\ \/ batch = <<>> /\ ReturnsAtOnce
           \/ /\ batch # <<>> /\ ~(BatchIsValid(batch) /\ IsOptedIn)
              /\ NothingToSend(BatchIsValid(batch))
           \/ batch # <<>> /\ BatchIsValid(batch) /\ IsOptedIn /\ SendsChunks(Wire(batch))
        /\ UNCHANGED client

-----------------------------------------------------------------------------
(* Decisions out                                                           *)

\* Only a closed client refuses a read; an opted-out one does not.
\* ends[a] is what the read makes of the answer a.
Reads(accepts, path, who, ends) ==
    /\ IF accepts /\ ~closed
       THEN \E a \in DOMAIN ends :
                Sends(<<Request(path, cfg.source_id, <<EventOf(1, "read", who)>>)>>, <<a>>, ends[a])
       ELSE Refuses
    /\ UNCHANGED client

Recommend ==
    \E who \in People, limit \in Quantities :
        /\ Makes("recommend", [who |-> who, limit |-> limit])
        /\ Reads(OneEntity(who) /\ limit # "other", "/feeds", Entity(who),
                 [a \in Answers |-> Posted(a)])

Vary ==
    \E form \in Forms, key \in Keys \cup {"off the charset"}, who \in Contexts :
        /\ Makes("variation", [form |-> form, key |-> key, who |-> who])
        /\ Reads(key \in Keys /\ HasIdentity(who, cfg.source_id), "/choose", who,
                 [a \in Evaluations |-> VariationEnds(form, key, a)])

ReadAll ==
    \E who \in Contexts :
        /\ Makes("all_flags", [who |-> who])
        /\ Reads(HasIdentity(who, cfg.source_id), "/choose", who,
                 [a \in Evaluations |-> AllFlagsEnds(a)])

WaitForInitialization ==
    /\ Makes("wait_for_initialization", None)
    /\ IF closed THEN Refuses ELSE ReturnsAtOnce
    /\ UNCHANGED client

-----------------------------------------------------------------------------

Calls ==
    \/ SetConfig \/ OptIn \/ OptOut \/ Close
    \/ Track \/ Identify \/ Group \/ Commerce \/ RecordConsent \/ TrackBatch
    \/ Recommend \/ Vary \/ ReadAll \/ WaitForInitialization

Next == Return \/ (call = Idle /\ Calls)

Spec == Init /\ [][Next]_vars
=============================================================================
