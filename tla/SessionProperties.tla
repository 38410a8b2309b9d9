------------------------- MODULE SessionProperties --------------------------
(***************************************************************************)
(* What the calls of a client promise, whatever it was configured with and *)
(* whatever the service answers.                                           *)
(***************************************************************************)
EXTENDS Session, SequencesExt

(* Every variable has a value of its type.  What an IntemptApiError says of*)
(* Retry-After is a wait: never a negative one, "which would mean no wait  *)
(* at all".  The kind "crash" is an exception that is neither of the two   *)
(* that _errors.py defines; UnusableRetryAfterIsIgnored and                *)
(* FlagReadsNeverRaise say where there should be none.                     *)
TypeOK ==
    /\ DOMAIN cfg = {"host", "port", "scheme", "timeout", "source_id", "batch",
                     "max_request_events", "max_concurrent_requests", "logger"}
    /\ {cfg.max_request_events, cfg.max_concurrent_requests} \subseteq Int \cup {Junk}
    /\ {optedIn, closed} \subseteq BOOLEAN
    /\ DOMAIN call = {"op", "given"}
    /\ Len(sent) = Len(answers)
    /\ \A i \in DOMAIN answers : answers[i] \in Answers \/ answers[i] \in Evaluations
    /\ outcome.kind \in {"returned", "refused", "api", "crash"}
    /\ outcome.wait \in Nat \cup {None}

-----------------------------------------------------------------------------
(* Configuration                                                           *)

(* set_config cannot make a client that the constructor would have refused,*)
(* through any sequence of patches: host, port, scheme, timeout and logger *)
(* are what a request can be made with.  max_request_events and            *)
(* max_concurrent_requests are not among them: no branch of merge_config   *)
(* looks at their values.                                                  *)
ConfigStaysUsable ==
    /\ HostIsUsable([name |-> cfg.host, port |-> cfg.port])
    /\ SchemeIsUsable(cfg.scheme)
    /\ IsPositive(cfg.timeout)
    /\ cfg.logger \in Loggers

\* Every host that a host option of the application gives.
PairsAskedFor == {HostOption(o) : o \in Options} \cup {p.host : p \in Patches}

(* _config.py:193: a request never goes to one host with the port that was *)
(* given for another: host and port are always the two halves of one host  *)
(* option, the constructor's or a patch's, however the patches alternate.  *)
PairWasAsked == [name |-> cfg.host, port |-> cfg.port] \in PairsAskedFor

-----------------------------------------------------------------------------
(* Data in                                                                 *)

\* The places in its batch of the events a request holds.
Places(request) == {request.items[j].id : j \in DOMAIN request.items}

AllPosted == UNION {Places(sent[k]) : k \in DOMAIN sent} = DOMAIN call.given

IsRunOf(items, wire) ==
    \E first \in DOMAIN wire : items = SubSeq(wire, first, first + Len(items) - 1)

Failed == {k \in DOMAIN answers : Fails(answers[k])}

\* The exception is the failed request's that is nearest to the batch's start.
RaisesNearest ==
    \E k \in Failed :
        /\ outcome = Posted(answers[k])
        /\ \A other \in Failed : sent[k].items[1].id <= sent[other].items[1].id

(* track_batch sends every event once, whatever the pool does: each request*)
(* is a run of the batch of at most max_request_events events and shares   *)
(* none with another.  One after the other they are the batch from its     *)
(* start; the workers of a pool post in an order of their own, and all of  *)
(* it, also when a request fails.  Returning means that every event was    *)
(* posted and accepted, unless the client is opted out; raising, that a    *)
(* request failed, the one raised for being the nearest to the start of the*)
(* batch and not the first in time.  A batch with an event that is invalid *)
(* is not sent at all.                                                     *)
BatchIsWhole ==
    call.op = "track_batch" =>
        LET wire     == Wire(call.given)
            parallel == cfg.max_concurrent_requests > 1
        IN /\ \A k \in DOMAIN sent :
                 /\ Len(sent[k].items) \in 1..cfg.max_request_events
                 /\ IsRunOf(sent[k].items, wire)
           /\ \A k, l \in DOMAIN sent : k # l => Places(sent[k]) \cap Places(sent[l]) = {}
           /\ sent # <<>> /\ ~parallel =>
                 IsPrefix(FlattenSeq([k \in DOMAIN sent |-> sent[k].items]), wire)
           /\ sent # <<>> /\ parallel => AllPosted
           /\ outcome.kind = "returned" /\ optedIn =>
                 AllPosted /\ \A k \in DOMAIN answers : answers[k].status \in 200..299
           /\ outcome.kind = "api" \/ (outcome.kind = "crash" /\ sent # <<>>) => RaisesNearest
           /\ outcome.kind = "refused" \/ ~BatchIsValid(call.given) => sent = <<>>

(* Every item of every request names somebody by a string that is not      *)
(* blank and that its endpoint resolves: a feed takes exactly one entity,  *)
(* consents and evaluations a profile only together with a source.  On     *)
(* /track one of the three fields is enough, as require_identifier has it. *)
(* Its docstring, README.md:68-81, ARCHITECTURE.md:51-55 and CHANGELOG.md: *)
(* 74-75 do not count profile_id among them; the code accepts one that     *)
(* stands alone, and so does this property: section 7 of the README.       *)
Resolves(request, who) ==
    CASE request.path \in {"/consents", "/choose"} ->
            who.user = "id" \/ (who.profile = "id" /\ request.source # None)
      [] request.path = "/feeds" -> Cardinality({f \in Fields : who[f] # "absent"}) = 1
      [] OTHER -> \E f \in Fields : who[f] = "id"

RequestsNameSomebody ==
    \A i \in DOMAIN sent : \A j \in DOMAIN sent[i].items :
        Resolves(sent[i], sent[i].items[j].who)

(* opt_out() "Suppress all outbound writes: track, batch, commerce and     *)
(* consent.  recommend() is unaffected": each of these comes to the wire   *)
(* by a way of its own, and none gets there from a client that is opted    *)
(* out or closed; an opted-out client refuses no read for that.            *)
WritesAreSuppressed ==
    sent # <<>> => ~closed /\ (optedIn \/ call.op \in {"recommend", "variation", "all_flags"})

-----------------------------------------------------------------------------
(* Decisions out                                                           *)

IsRead == call.op \in {"variation", "all_flags"}

Unanswered(a) == a.status \notin 200..299 \/ Overflows(a) \/ a.body.form # "choices"

(* A flag read survives an outage: after any failure of the exchange, even *)
(* one that is no IntemptApiError, and after any body that is not a list of*)
(* choices, variation returns the caller's default and all_flags nothing.  *)
ReadsSurviveOutages ==
    IsRead /\ answers # <<>> /\ Unanswered(answers[1]) =>
        /\ outcome.kind = "returned"
        /\ call.op = "variation" => outcome.value = Default
        /\ call.op = "all_flags" => DOMAIN outcome.value = {}

(* A value comes from somewhere: what a typed variation returns is the     *)
(* caller's default or the body of a choice that the service made for that *)
(* very key and that has the type of the form asked for, never a coerced   *)
(* one.                                                                    *)
HasType(form, body) ==
    CASE form = "bool"   -> body = "bool"
      [] form = "string" -> body = "text"
      [] form = "number" -> body = "number"
      [] form = "json"   -> body = "mapping"
      [] OTHER           -> body # "null"

ServedOrDefault ==
    call.op = "variation" /\ answers # <<>> /\ outcome.kind = "returned" =>
        \/ outcome.value = Default
        \/ \E choice \in Range(ChoicesOf(answers[1])) :
              /\ choice.name = call.given.key
              /\ choice.body = outcome.value
              /\ HasType(call.given.form, choice.body)

(* _client.py:320: the two read paths agree about the identical response:  *)
(* when the service answers a key once, variation has a value for it just  *)
(* when all_flags lists it, and it is the same one.                        *)
ReadPathsAgree ==
    IsRead /\ answers # <<>> /\ ~AllFlagsRaises(ChoicesOf(answers[1])) =>
        LET choices == ChoicesOf(answers[1])
            flags   == AllFlags(choices)
        IN \A key \in Keys :
              Cardinality({i \in DOMAIN choices : choices[i].name = key}) <= 1 =>
                  Variation(choices, key) = IF key \in DOMAIN flags THEN flags[key] ELSE Default

(* CHANGELOG.md:32 "A service problem never raises out of a flag read".    *)
FlagReadsNeverRaise == IsRead => outcome.kind \in {"returned", "refused"}

-----------------------------------------------------------------------------
(* What the documentation says                                             *)

(* _transport.py:78 "An unusable Retry-After must be ignored, never        *)
(* propagated as a crash from an error path".                              *)
UnusableRetryAfterIsIgnored ==
    \A k \in DOMAIN answers :
        Overflows(answers[k]) /\ answers[k].status \notin 200..299 => outcome.kind # "crash"
=============================================================================
