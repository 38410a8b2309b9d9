------------------------------ MODULE Requests ------------------------------
(***************************************************************************)
(* What a call of the client puts on the wire, what it refuses first, and  *)
(* what Transport.post makes of the answer: pure, no state.                *)
(*                                                                         *)
(* An identifier, like any string option, is one of Given: left out, "",   *)
(* blanks only, of another type, or a string somebody could be named by.   *)
(* A quantity is left out, a positive integer or anything else.            *)
(***************************************************************************)
EXTENDS Configuration, Sequences

CONSTANT MaxSeconds  \* the longest Retry-After that is finite in milliseconds

Given      == {"absent", "empty", "blank", "number", "id"}
Quantities == {"absent", "positive", "other"}
Fields     == {"user", "account", "profile"}

\* non_blank and _present; Python's truth, which is not the same.
NotBlank(v) == v = "id"
Truthy(v)   == v \in {"blank", "number", "id"}

\* Definitions marked "Mutant" are deliberate slips: substituted for the
\* definition that follows them, they show that a property notices.

\* Mutant: truthiness instead of a non-blank string.
HasTruthyIdentifier(who) == \E f \in Fields : Truthy(who[f])

\* require_identifier
HasIdentifier(who) == \E f \in Fields : NotBlank(who[f])

-----------------------------------------------------------------------------
(* Requests: where to, under which source, and the items of the body.      *)

Request(path, source, items) == [path |-> path, source |-> source, items |-> items]

TrackPath(source) == IF source = None THEN "/track" ELSE "/sources/track"

\* `event' of track is a name, a reserved name, blank or absent.
NameIsUsable(event) == event = "name"

ReservedNameIsUsable(event) == event # "blank"

ReservedName(event) == IF event = "absent" THEN "reserved" ELSE event

\* _build_event: compact() leaves out what is absent, and nothing else.
EventOf(id, event, who) == [id |-> id, name |-> event, who |-> who]

EventIsUsable(o) == NameIsUsable(o.event) /\ HasIdentifier(o.who) /\ o.timely

\* _track_lines: one item per product, and one eventId.
Lines(who, products) == [i \in DOMAIN products |-> EventOf(1, "reserved", who)]

ProductsAreUsable(products) ==
    /\ products # <<>>
    /\ \A i \in DOMAIN products : NotBlank(products[i].id) /\ products[i].quantity # "other"

\* Consent by a profile needs a source; what is merely truthy is a profile.
ConsentIsIdentified(who) == NotBlank(who.user) \/ NotBlank(who.profile)

ConsentIsUsable(who, source) == Truthy(who.profile) => source # None

ConsentSource(who, source) == IF Truthy(who.profile) THEN source ELSE None

\* The feeds API resolves one entity.
OneEntity(who) == NotBlank(who.user) # NotBlank(who.account)

Entity(who) ==
    [user    |-> IF NotBlank(who.user) THEN who.user ELSE "absent",
     account |-> IF NotBlank(who.user) THEN "absent" ELSE who.account,
     profile |-> "absent"]

-----------------------------------------------------------------------------
(* chunk                                                                   *)

ChunkIsDefined(size) == size >= 1

ChunkEnd(items, size, i) == IF i * size <= Len(items) THEN i * size ELSE Len(items)

\* Mutant: the remainder is forgotten.
WholeChunks(items, size) == Len(items) \div size

ChunkCount(items, size) == (Len(items) + size - 1) \div size

Chunk(items, size) ==
    [i \in 1..ChunkCount(items, size) |->
        SubSeq(items, (i - 1) * size + 1, ChunkEnd(items, size, i))]

-----------------------------------------------------------------------------
(* Answers.  A status of 0 is no answer: a time-out or a broken connection.*)
(* Retry-After is a number of seconds, a date so many ms away, or neither. *)

\* Mutant: a negative number of seconds becomes a negative wait.
AnyWait(ms) == TRUE

IsAWait(ms) == ms >= 0

\* parse_retry_after
RetryAfterMs(header) ==
    CASE header.form = "seconds" -> IF IsAWait(header.n * 1000) THEN header.n * 1000 ELSE None
      [] header.form = "date"    -> IF header.n >= 0 THEN header.n ELSE 0
      [] OTHER                   -> None

\* int() of a float that became infinite: OverflowError, whatever the status.
Overflows(a) == a.status # 0 /\ a.header.form = "seconds" /\ a.header.n > MaxSeconds

Ends(kind, value, wait) == [kind |-> kind, value |-> value, wait |-> wait]

\* What post returns or raises.  An empty body is None, an unparseable one a
\* string, anything else what json.loads makes of it.
Posted(a) ==
    CASE Overflows(a)                -> Ends("crash", None, None)
      [] ~Overflows(a) /\ a.status = 0 -> Ends("api", None, None)
      [] ~Overflows(a) /\ a.status \in 200..299 -> Ends("returned", a.body, None)
      [] OTHER                       -> Ends("api", None, RetryAfterMs(a.header))

Fails(a) == Posted(a).kind # "returned"
=============================================================================
